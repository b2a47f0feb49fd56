----------------------- MODULE CoordinatorStoreProofs -----------------------
(***************************************************************************)
(* Proofs about what the persistence coordinator stores and answers, for   *)
(* any callers and any number of Sessions, events, calls and upsets: the   *)
(* stored log stays well formed, and what callers were answered covers     *)
(* what was durable when they asked.  They stand on the invariant IInv.    *)
(***************************************************************************)
EXTENDS CoordinatorProofs

-----------------------------------------------------------------------------
(* The stored log.                                                         *)

(* Whether a turn is open before the i-th event.                           *)
OpenBefore(l, i) ==
  \E k \in 1..(i - 1) : l[k].kind = "open" /\ \A j \in (k + 1)..(i - 1) : l[j].kind = "note"
Sane(l) ==
  \A i \in 1..Len(l) :
    /\ l[i].kind # "torn"
    /\ l[i].kind # "note" => (l[i].kind = "open" <=> ~OpenBefore(l, i))

(* A log that may be stored: nobody but a Session writes its events, and   *)
(* what is stored of a live one's is in its log.                           *)
Storable(s, w) ==
  /\ Sane(s)
  /\ \A l \in 1..Lives : w.sess[l].stage = "unborn" => \A i \in 1..Len(s) : s[i].by < l
  /\ w.store # NoOne => \A i \in 1..Len(s) : s[i].by = w.store => i <= Len(w.sess[w.store].log)

(* What is stored may be, and so may every Session's log; an owner that    *)
(* failed to drain has still stored the beginning of its log.              *)
StoredInv ==
  /\ Begins(acked, disk) /\ Storable(Stored, Now)
  /\ \A l \in 1..Lives :
       /\ Sane(sess[l].log) /\ \A i \in 1..Len(sess[l].log) : sess[l].log[i].by <= l
       /\ sess[l].stage = "gone" => sess[l].log = <<>>
       /\ store # NoOne /\ l > store => sess[l].stage = "unborn"
       /\ state.owner = l /\ sess[l].init = "ok" /\ sess[l].log # <<>> =>
            state.cursor = Len(disk) /\ Begins(disk, sess[l].log)
(* The preparation shows what is stored now, unless somebody is about to   *)
(* find out that it does not: a commit whose entry was removed, or the one *)
(* at the head of the chain.                                               *)
Fresh(src) == src.rev = Revision
Unread == entry.phase \in {"none", "loading"}
Detached(o, c) == o.op = "commit" /\ ~c[o.who].attached
Repairs ==
  chain # <<>> /\ chain[1].stage = "repairing" => Fresh(call[chain[1].who].src)
(* No commit is queued behind the read that fills its preparation.         *)
Ordered(ch) ==
  \A i, j \in DOMAIN ch :
    i < j /\ ch[i].op = "read" /\ ch[i].current => ch[j].op # "commit"
FreshInv ==
  /\ entry.phase \in {"ready", "committing"} /\ state.known => Fresh(entry.src)
  /\ entry.phase = "reserved" => Fresh(entry.src)
  /\ (\E i \in DOMAIN chain : Detached(chain[i], call)) => Unread
  /\ chain # <<>> /\ chain[1].stage = "adopting" => Unread
  /\ entry.phase = "committing" /\ ~Fresh(entry.src) =>
       chain # <<>> /\ chain[1].op = "commit" /\ ~Detached(chain[1], call)
  /\ Repairs /\ Ordered(chain)

-----------------------------------------------------------------------------
(* The order of turns in a log.                                            *)

(* A turn is open at the end of a log.                                     *)
LEMMA OpenAtEnd ==
  ASSUME NEW s \in Logs
  PROVE  OpenTurn(s) <=> OpenBefore(s, Len(s) + 1)
<1>1. Len(s) \in Nat /\ DOMAIN s = 1..Len(s) /\ (Len(s) + 1) - 1 = Len(s)
  BY LenProperties DEF Logs
<1> QED BY <1>1 DEF OpenTurn, OpenBefore

(* What is open depends on the events before alone.                        *)
LEMMA OpenSame ==
  ASSUME NEW s, NEW t, NEW i \in Nat, \A k \in 1..(i - 1) : s[k] = t[k]
  PROVE  OpenBefore(s, i) <=> OpenBefore(t, i)
<1>1. ASSUME NEW k \in 1..(i - 1)
      PROVE  /\ s[k].kind = t[k].kind
             /\ \A j \in (k + 1)..(i - 1) : s[j].kind = t[j].kind
  <2>1. \A j \in (k + 1)..(i - 1) : j \in 1..(i - 1)
    OBVIOUS
  <2> QED BY <2>1
<1> QED BY <1>1 DEF OpenBefore

(* A turn is open at the end of what precedes an event.                    *)
LEMMA OpenInside ==
  ASSUME NEW s \in Logs, NEW i \in 1..Len(s)
  PROVE  OpenTurn(SubSeq(s, 1, i - 1)) <=> OpenBefore(s, i)
<1> DEFINE t == SubSeq(s, 1, i - 1)
<1>1. Len(s) \in Nat /\ s \in [1..Len(s) -> LogEvents]
  BY LenProperties DEF Logs
<1>2. 1 \in Int /\ i - 1 \in Int /\ \A k \in 1..(i - 1) : s[k] \in LogEvents
  BY <1>1
<1>3. /\ t \in Seq(LogEvents) /\ Len(t) = IF 1 <= i - 1 THEN (i - 1) - 1 + 1 ELSE 0
      /\ \A k \in 1..((i - 1) - 1 + 1) : t[k] = s[1 + k - 1]
  BY <1>2, SubSeqProperties
<1> HIDE DEF t
<1>4. Len(t) = i - 1 /\ i \in Nat /\ \A k \in 1..(i - 1) : t[k] = s[k]
  BY <1>1, <1>3
<1>5. OpenTurn(t) <=> OpenBefore(t, i)
  <2>1. Len(t) + 1 = i /\ t \in Logs
    BY <1>1, <1>3, <1>4 DEF Logs
  <2> QED BY <2>1, OpenAtEnd
<1> QED BY <1>4, <1>5, OpenSame DEF t

(* A prefix of a sane log is sane.                                         *)
LEMMA SanePrefix ==
  ASSUME NEW s \in Logs, NEW t \in Logs, Begins(s, t), Sane(t)
  PROVE  Sane(s)
<1>1. Len(s) \in Nat /\ Len(t) \in Nat /\ Len(s) <= Len(t) /\ \A k \in 1..Len(s) : s[k] = t[k]
  BY LenProperties DEF Logs, Begins
<1> SUFFICES ASSUME NEW i \in 1..Len(s)
             PROVE  /\ s[i].kind # "torn"
                    /\ s[i].kind # "note" => (s[i].kind = "open" <=> ~OpenBefore(s, i))
  BY DEF Sane
<1>2. i \in 1..Len(t) /\ s[i] = t[i] /\ i \in Nat /\ \A k \in 1..(i - 1) : s[k] = t[k]
  BY <1>1
<1>3. OpenBefore(s, i) <=> OpenBefore(t, i)
  BY <1>2, OpenSame
<1> QED BY <1>2, <1>3 DEF Sane

(* A log grows by an event that the order of turns allows.                 *)
LEMMA SaneGrows ==
  ASSUME NEW s \in Logs, Sane(s), NEW e \in LogEvents, e.kind # "torn",
         e.kind = "note" \/ (e.kind = "open" <=> ~OpenTurn(s))
  PROVE  /\ s \o <<e>> \in Logs /\ Sane(s \o <<e>>) /\ s \o <<e>> = Append(s, e)
         /\ Len(s \o <<e>>) = Len(s) + 1 /\ (s \o <<e>>)[Len(s) + 1] = e
         /\ \A k \in 1..Len(s) : (s \o <<e>>)[k] = s[k]
         /\ Begins(s, s \o <<e>>)
<1> DEFINE t == s \o <<e>>
<1>1. t = Append(s, e)
  BY AppendIsConcat DEF Logs
<1>2. /\ t \in Logs /\ Len(t) = Len(s) + 1 /\ t[Len(s) + 1] = e
      /\ \A k \in 1..Len(s) : t[k] = s[k]
  BY <1>1, AppendProperties DEF Logs
<1>3. Len(s) \in Nat
  BY LenProperties DEF Logs
<1> HIDE DEF t
<1>4. Begins(s, t)
  BY <1>2, <1>3 DEF Begins
<1>5. Sane(t)
  <2> SUFFICES ASSUME NEW i \in 1..Len(t)
               PROVE  /\ t[i].kind # "torn"
                      /\ t[i].kind # "note" => (t[i].kind = "open" <=> ~OpenBefore(t, i))
    BY DEF Sane
  <2>1. OpenBefore(s, i) <=> OpenBefore(t, i)
    <3>1. i \in Nat /\ \A k \in 1..(i - 1) : s[k] = t[k]
      BY <1>2, <1>3
    <3> QED BY <3>1, OpenSame
  <2>2. CASE i \in 1..Len(s)
    BY <2>1, <2>2, <1>2 DEF Sane
  <2>3. CASE i = Len(s) + 1
    BY <2>1, <2>3, <1>2, OpenAtEnd
  <2> QED BY <2>2, <2>3, <1>2, <1>3
<1> QED BY <1>1, <1>2, <1>4, <1>5 DEF t

(* The repair closes an open turn.                                         *)
LEMMA SaneCloses ==
  ASSUME NEW s \in Logs, Sane(s)
  PROVE  /\ s \o ClosersOf(s) \in Logs /\ Sane(s \o ClosersOf(s)) /\ Begins(s, s \o ClosersOf(s))
         /\ \A i \in 1..Len(s \o ClosersOf(s)) :
              (s \o ClosersOf(s))[i].by = 0 \/ (i \in 1..Len(s) /\ (s \o ClosersOf(s))[i] = s[i])
<1>1. CASE OpenTurn(s)
  <2>1. ClosersOf(s) = <<Cut>> /\ Cut \in LogEvents /\ Cut.kind = "cut" /\ Cut.by = 0
    BY <1>1 DEF ClosersOf, Cut, Ev, LogEvents, NoOne
  <2>2. Cut.kind # "torn" /\ Cut.kind # "open" /\ OpenTurn(s)
    BY <2>1, <1>1
  <2> HIDE DEF Cut
  <2>3. /\ s \o <<Cut>> \in Logs /\ Sane(s \o <<Cut>>) /\ Begins(s, s \o <<Cut>>)
        /\ Len(s \o <<Cut>>) = Len(s) + 1 /\ (s \o <<Cut>>)[Len(s) + 1] = Cut
        /\ \A k \in 1..Len(s) : (s \o <<Cut>>)[k] = s[k]
    BY <2>1, <2>2, SaneGrows
  <2>4. Len(s) \in Nat
    BY LenProperties DEF Logs
  <2>5. \A i \in 1..Len(s \o <<Cut>>) : i \in 1..Len(s) \/ i = Len(s) + 1
    BY <2>3, <2>4
  <2> QED BY <2>1, <2>3, <2>5
<1>2. CASE ~OpenTurn(s)
  <2>1. ClosersOf(s) = <<>> /\ s \o <<>> = s
    BY <1>2, ConcatEmptySeq DEF ClosersOf, Logs
  <2> QED BY <2>1, BeginsSelf
<1> QED BY <1>1, <1>2

-----------------------------------------------------------------------------
(* What may be stored.                                                     *)

(* The types the arguments below rest on.                                  *)
LEMMA Typed ==
  ASSUME TypeOK
  PROVE  /\ disk \in Logs /\ acked \in Logs /\ Stored \in Logs /\ tear.holds \in Logs
         /\ tear \in Tears /\ (~tear.torn => Stored = disk) /\ Begins(disk, Stored)
         /\ sess \in [1..Lives -> Sessions] /\ \A l \in 1..Lives : sess[l].log \in Logs
         /\ call \in [Callers -> CallStates] /\ Lives \in Nat /\ store \in 0..Lives
         /\ \A p \in Callers : call[p].src \in Sources /\ call[p].src.events \in Logs
                                 /\ call[p].base \in Logs /\ call[p].life \in 0..Lives
         /\ chain \in Seq(Ops) /\ state \in States
<1>1. disk \in Logs /\ tear \in Tears /\ tear.holds \in Logs /\ (~tear.torn => tear.holds = <<>>)
  BY DEF TypeOK, Tears
<1>2. disk \o <<>> = disk /\ Stored \in Logs /\ Begins(disk, Stored)
  BY <1>1, ConcatEmptySeq, ConcatProperties, BeginsSelf, BeginsGrows DEF Stored, Logs
<1>3. \A l \in 1..Lives : sess[l].log \in Logs
  BY DEF TypeOK, Sessions
<1>4. \A p \in Callers : call[p].src \in Sources /\ call[p].src.events \in Logs
                            /\ call[p].base \in Logs /\ call[p].life \in 0..Lives
  BY DEF TypeOK, CallStates, Sources
<1> QED BY <1>1, <1>2, <1>3, <1>4, CoordinatorAssumption DEF TypeOK, Stored

(* The author of an event is a number.                                     *)
LEMMA AuthorIs ==
  ASSUME NEW s \in Logs, NEW i \in 1..Len(s)
  PROVE  s[i] \in LogEvents /\ s[i].by \in Nat /\ i \in Nat
<1>1. s \in [1..Len(s) -> LogEvents] /\ Len(s) \in Nat
  BY LenProperties DEF Logs
<1> QED BY <1>1 DEF LogEvents

(* A prefix of what may be stored may be stored.                           *)
LEMMA StorablePrefix ==
  ASSUME NEW s \in Logs, NEW t \in Logs, Begins(s, t), NEW w, Storable(t, w)
  PROVE  Storable(s, w)
<1>1. /\ Len(s) \in Nat /\ Len(t) \in Nat /\ Len(s) <= Len(t)
      /\ \A i \in 1..Len(s) : s[i] = t[i] /\ i \in 1..Len(t)
  BY LenProperties DEF Logs, Begins
<1>2. Sane(s)
  BY SanePrefix DEF Storable
<1> QED BY <1>1, <1>2 DEF Storable

(* What nobody but the repair or a service call added may be stored.       *)
LEMMA StorableMore ==
  ASSUME TypeOK, NEW s \in Logs, NEW t \in Logs, Storable(s, Now), Sane(t),
         \A i \in 1..Len(t) : t[i].by = 0 \/ (i \in 1..Len(s) /\ t[i] = s[i])
  PROVE  Storable(t, Now)
<1>1. \A l \in 1..Lives : 0 < l /\ l # 0
  BY CoordinatorAssumption
<1>2. Now.store = store /\ Now.sess = sess /\ NoOne = 0
  BY NowIs DEF NoOne
<1>3. ASSUME NEW l \in 1..Lives, sess[l].stage = "unborn", NEW i \in 1..Len(t)
      PROVE  t[i].by < l
  BY <1>1, <1>2, <1>3 DEF Storable
<1>4. ASSUME store # NoOne, NEW i \in 1..Len(t), t[i].by = store
      PROVE  i <= Len(sess[store].log)
  <2>1. i \in 1..Len(s) /\ s[i].by = store
    BY <1>2, <1>4
  <2> QED BY <2>1, <1>2, <1>4 DEF Storable
<1> QED BY <1>2, <1>3, <1>4 DEF Storable

(* The repaired log may be stored.                                         *)
LEMMA StorableClosed ==
  ASSUME TypeOK, NEW s \in Logs, Storable(s, Now)
  PROVE  /\ s \o ClosersOf(s) \in Logs /\ Storable(s \o ClosersOf(s), Now)
         /\ Begins(s, s \o ClosersOf(s))
<1>1. Sane(s)
  BY DEF Storable
<1> DEFINE t == s \o ClosersOf(s)
<1>2. t \in Logs /\ Sane(t) /\ Begins(s, t)
      /\ \A i \in 1..Len(t) : t[i].by = 0 \/ (i \in 1..Len(s) /\ t[i] = s[i])
  BY <1>1, SaneCloses
<1> HIDE DEF t
<1>3. Storable(t, Now)
  BY <1>2, StorableMore
<1> QED BY <1>2, <1>3 DEF t

(* So may a log that a service call extended.                              *)
LEMMA StorableNote ==
  ASSUME TypeOK, NEW s \in Logs, Storable(s, Now)
  PROVE  LET t == s \o <<Ev("note", NoOne)>> IN t \in Logs /\ Storable(t, Now) /\ Begins(s, t)
<1> DEFINE e == Ev("note", NoOne)
           t == s \o <<e>>
<1>1. e \in LogEvents /\ e.kind = "note" /\ e.kind # "torn" /\ e.by = 0
  BY DEF Ev, LogEvents, NoOne
<1> HIDE DEF e
<1>2. /\ t \in Logs /\ Sane(t) /\ Len(t) = Len(s) + 1 /\ t[Len(s) + 1] = e
      /\ \A k \in 1..Len(s) : t[k] = s[k]
      /\ Begins(s, t)
  BY <1>1, SaneGrows DEF Storable
<1> HIDE DEF t
<1>3. \A i \in 1..Len(t) : i \in 1..Len(s) \/ i = Len(s) + 1
  BY <1>2, LenProperties DEF Logs
<1>4. Storable(t, Now)
  BY <1>1, <1>2, <1>3, StorableMore
<1> QED BY <1>2, <1>4 DEF t, e

(* So may the beginning of a published Session's log.                      *)
LEMMA StorableLog ==
  ASSUME IInv, StoredInv, NEW l \in 1..Lives, sess[l].stage # "unborn",
         NEW s \in Logs, Begins(s, sess[l].log)
  PROVE  Storable(s, Now)
<1>1. /\ TypeOK /\ sess[l].log \in Logs /\ Len(s) \in Nat /\ Len(sess[l].log) \in Nat
      /\ Lives \in Nat /\ store \in 0..Lives
  BY Typed, LenProperties DEF IInv, Logs
<1>2. Sane(s)
  BY <1>1, SanePrefix DEF StoredInv
<1>3. \A i \in 1..Len(s) : s[i].by <= l /\ s[i].by \in Nat /\ i <= Len(sess[l].log)
  <2> TAKE i \in 1..Len(s)
  <2>1. i \in 1..Len(sess[l].log) /\ s[i] = sess[l].log[i]
    BY <1>1 DEF Begins
  <2> QED BY <2>1, <1>1, AuthorIs DEF StoredInv
<1>4. ASSUME NEW k \in 1..Lives, sess[k].stage = "unborn", NEW i \in 1..Len(s)
      PROVE  s[i].by < k
  <2>1. ~(l >= k)
    <3>1. \A j \in k..Lives : sess[j].stage = "unborn"
      BY <1>4 DEF IInv, Lineage
    <3> QED BY <3>1, <1>1
  <2> QED BY <2>1, <1>1, <1>3
<1>5. ASSUME store # NoOne, NEW i \in 1..Len(s), s[i].by = store
      PROVE  i <= Len(sess[store].log)
  <2>1. ~(l > store)
    BY <1>5 DEF StoredInv
  <2>2. l = store
    BY <2>1, <1>1, <1>3, <1>5
  <2> QED BY <2>2, <1>3
<1> QED BY <1>2, <1>4, <1>5, NowIs DEF Storable

(* A step that publishes no Session leaves what may be stored so.          *)
LEMMA StorableKept ==
  ASSUME TypeOK, TypeOK', NEW s \in Logs, Storable(s, Now),
         \A l \in 1..Lives : sess'[l].stage = "unborn" => sess[l].stage = "unborn",
         store' # NoOne => store' = store /\ Len(sess[store].log) <= Len(sess'[store].log)
  PROVE  Storable(s, Now')
<1>1. ASSUME NEW l \in 1..Lives, sess'[l].stage = "unborn", NEW i \in 1..Len(s)
      PROVE  s[i].by < l
  BY <1>1, NowIs DEF Storable
<1>2. ASSUME store' # NoOne, NEW i \in 1..Len(s), s[i].by = store'
      PROVE  i <= Len(sess'[store'].log)
  <2>1. store \in 1..Lives /\ store' = store /\ i \in Nat
    BY <1>2, AuthorIs, Typed DEF NoOne
  <2>2. i <= Len(sess[store].log)
    BY <1>2, <2>1, NowIs DEF Storable
  <2>3. Len(sess[store].log) \in Nat /\ Len(sess'[store].log) \in Nat
    BY <2>1, LenProperties DEF TypeOK, Sessions, Logs
  <2> QED BY <1>2, <2>1, <2>2, <2>3
<1> QED BY <1>1, <1>2, NowIs DEF Storable

(* Most steps publish nothing and write nothing.                           *)
LEMMA StoredStep ==
  ASSUME IInv, IInv', StoredInv, Begins(acked', disk'), Storable(Stored', Now),
         \A l \in 1..Lives :
           /\ sess'[l].stage = "unborn" <=> sess[l].stage = "unborn"
           /\ sess'[l].log \in {sess[l].log, <<>>}
           /\ sess'[l].stage = "gone" => sess[l].stage = "gone" \/ sess'[l].log = <<>>
           /\ state'.owner = l /\ sess'[l].stage = "stuck" /\ sess'[l].init = "ok" =>
                /\ sess[l].init = "ok" /\ state.owner = l /\ state.cursor = state'.cursor
                /\ disk' = disk,
         store' # NoOne => store' = store /\ sess'[store].log = sess[store].log
  PROVE  StoredInv'
<1>1. TypeOK /\ TypeOK' /\ Stored' \in Logs
  <2>1. TypeOK /\ TypeOK'
    BY DEF IInv
  <2>2. disk' \in Logs /\ tear' \in Tears
    BY <2>1 DEF TypeOK
  <2>3. tear'.holds \in Logs
    BY <2>2 DEF Tears
  <2> QED BY <2>1, <2>2, <2>3, ConcatProperties DEF Stored, Logs
<1>2. Storable(Stored', Now')
  <2>1. store' # NoOne => Len(sess[store].log) <= Len(sess'[store].log)
    BY <1>1, Typed, LenProperties DEF NoOne, Logs
  <2>2. store' # NoOne => store' = store /\ Len(sess[store].log) <= Len(sess'[store].log)
    BY <2>1
  <2>3. \A l \in 1..Lives : sess'[l].stage = "unborn" => sess[l].stage = "unborn"
    OBVIOUS
  <2> DEFINE s == Stored'
  <2>4. s \in Logs /\ Storable(s, Now)
    BY <1>1
  <2> HIDE DEF s
  <2>5. Storable(s, Now')
    BY <2>2, <2>3, <2>4, <1>1, StorableKept
  <2> QED BY <2>5 DEF s
<1>3. ASSUME NEW l \in 1..Lives
      PROVE  /\ Sane(sess'[l].log) /\ \A i \in 1..Len(sess'[l].log) : sess'[l].log[i].by <= l
             /\ sess'[l].stage = "gone" => sess'[l].log = <<>>
             /\ store' # NoOne /\ l > store' => sess'[l].stage = "unborn"
             /\ state'.owner = l /\ sess'[l].init = "ok" /\ sess'[l].log # <<>> =>
                  state'.cursor = Len(disk') /\ Begins(disk', sess'[l].log)
  <2>1. Sane(sess'[l].log) /\ \A i \in 1..Len(sess'[l].log) : sess'[l].log[i].by <= l
    <3>1. CASE sess'[l].log = sess[l].log
      BY <3>1 DEF StoredInv
    <3>2. CASE sess'[l].log = <<>>
      <4>1. 1..Len(<<>>) = {}
        OBVIOUS
      <4> QED BY <3>2, <4>1 DEF Sane
    <3> QED BY <3>1, <3>2
  <2>2. sess'[l].stage = "gone" => sess'[l].log = <<>>
    BY DEF StoredInv
  <2>3. store' # NoOne /\ l > store' => sess'[l].stage = "unborn"
    BY DEF StoredInv
  <2>4. ASSUME state'.owner = l, sess'[l].init = "ok", sess'[l].log # <<>>
        PROVE  state'.cursor = Len(disk') /\ Begins(disk', sess'[l].log)
    <3>1. l # NoOne /\ sess'[l].stage # "unborn" /\ sess'[l].stage # "gone"
          /\ sess'[l].stage \in {"unborn", "live", "retiring", "stuck", "gone"}
      <4>1. l # NoOne
        BY CoordinatorAssumption DEF NoOne
      <4>2. sess'[l].stage # "unborn"
        BY <4>1, <2>4 DEF IInv, Ownership
      <4> QED BY <4>1, <4>2, <2>2, <2>4, <1>1 DEF TypeOK, Sessions
    <3>2. CASE sess'[l].stage \in {"live", "retiring"}
      <4>1. Owns(l)'
        BY <3>2, <2>4 DEF Owns
      <4> QED BY <4>1, <2>4 DEF IInv, Ownership
    <3>3. CASE sess'[l].stage = "stuck"
      <4>1. /\ state.owner = l /\ sess[l].init = "ok" /\ state.cursor = state'.cursor
            /\ disk' = disk
            /\ sess'[l].log = sess[l].log
        BY <3>3, <2>4
      <4> QED BY <4>1, <2>4 DEF StoredInv
    <3> QED BY <3>1, <3>2, <3>3
  <2> QED BY <2>1, <2>2, <2>3, <2>4
<1> QED BY <1>2, <1>3 DEF StoredInv

-----------------------------------------------------------------------------
(* The steps that write nothing.                                           *)

(* What is stored and published stays.                                     *)
LEMMA StoredSame ==
  ASSUME StoredInv, UNCHANGED <<storage, state, sess, store>>
  PROVE  StoredInv'
  BY NowIs DEF StoredInv, Storable, Stored, storage

(* Nothing is written, nobody is published, and whoever gets stuck as the  *)
(* owner was initialized.                                                  *)
LEMMA StoredQuiet ==
  ASSUME IInv, IInv', StoredInv, UNCHANGED storage,
         \A l \in 1..Lives :
           /\ sess'[l].stage = "unborn" <=> sess[l].stage = "unborn"
           /\ sess'[l].log \in {sess[l].log, <<>>}
           /\ sess'[l].stage = "gone" => sess[l].stage = "gone" \/ sess'[l].log = <<>>
           /\ state'.owner = l /\ sess'[l].stage = "stuck" /\ sess'[l].init = "ok" =>
                sess[l].init = "ok" /\ state.owner = l /\ state.cursor = state'.cursor,
         store' # NoOne => store' = store /\ sess'[store].log = sess[store].log
  PROVE  StoredInv'
<1>1. Begins(acked', disk') /\ Storable(Stored', Now) /\ disk' = disk
  <2>1. acked' = acked /\ disk' = disk /\ Stored' = Stored
    BY DEF storage, Stored
  <2> QED BY <2>1 DEF StoredInv
<1> QED BY <1>1, StoredStep

(* A commit that had nothing to repair publishes and writes nothing.       *)
LEMMA CommitDoneStored ==
  ASSUME IInv, IInv', StoredInv, CommitDone
  PROVE  StoredInv'
<1>1. UNCHANGED <<storage, sess, store>> /\ state'.owner = NoOne
  BY DEF CommitDone
<1>2. \A l \in 1..Lives : state'.owner # l
  BY <1>1, CoordinatorAssumption DEF NoOne
<1> QED BY <1>1, <1>2, StoredQuiet

(* A refused write leaves the log alone and its Session uninitialized.     *)
LEMMA RejectsStored ==
  ASSUME IInv, IInv', StoredInv, IsWrite, Rejects, UNCHANGED <<storage, store>>,
         state' = state \/ (state'.owner = NoOne /\ Head(chain).op = "append")
  PROVE  StoredInv'
<1>1. CASE Head(chain).op = "append" /\ state'.owner = NoOne
  <2>1. UNCHANGED sess /\ \A l \in 1..Lives : state'.owner # l
    BY <1>1, CoordinatorAssumption DEF Rejects, NoOne
  <2> QED BY <2>1, StoredQuiet
<1>2. CASE Head(chain).op = "append" /\ state' = state
  BY <1>2, StoredSame DEF Rejects
<1>3. CASE Head(chain).op \in {"batch", "suffix"}
  <2>1. Who \in 1..Lives /\ sess \in [1..Lives -> Sessions] /\ state' = state
        /\ sess[Who].stage \in {"live", "retiring"}
    BY <1>3, WriterIs DEF IInv, TypeOK, IsWrite
  <2>2. sess' = [sess EXCEPT
               ![Who].init = IF Head(chain).op = "suffix" THEN "failed" ELSE @,
               ![Who].stage = IF Head(chain).op = "batch" /\ @ = "retiring"
                              THEN "stuck" ELSE @]
    BY <1>3 DEF Rejects
  <2>3. \A l \in 1..Lives : l # Who => sess'[l] = sess[l]
    BY <2>1, <2>2
  <2>4. /\ sess'[Who].log = sess[Who].log
        /\ sess'[Who].init = IF Head(chain).op = "suffix" THEN "failed" ELSE sess[Who].init
        /\ sess'[Who].stage \in {"live", "retiring", "stuck"}
    BY <2>1, <2>2 DEF Sessions
  <2>5. sess'[Who].init = "ok" => sess[Who].init = "ok"
    BY <2>4
  <2>6. \A l \in 1..Lives :
          /\ sess'[l].stage = "unborn" <=> sess[l].stage = "unborn"
          /\ sess'[l].log = sess[l].log
          /\ sess'[l].stage = "gone" => sess[l].stage = "gone"
          /\ sess'[l].init = "ok" => sess[l].init = "ok"
    BY <2>1, <2>3, <2>4, <2>5
  <2>7. store' # NoOne => store' = store /\ sess'[store].log = sess[store].log
    BY <2>6, Typed DEF IInv, NoOne
  <2> QED BY <2>1, <2>6, <2>7, StoredQuiet
<1> QED BY <1>1, <1>2, <1>3 DEF IsWrite

(* A write begins, or is refused, before anything is stored.               *)
LEMMA WriteStartsStored ==
  ASSUME IInv, IInv', StoredInv, WriteStarts
  PROVE  StoredInv'
<1>1. IsWrite /\ UNCHANGED <<storage, state, store>> /\ (Rejects \/ UNCHANGED sess)
  BY DEF WriteStarts
<1> QED BY <1>1, RejectsStored, StoredSame

(* A claim of what is stored already writes nothing.                       *)
LEMMA AdoptDoneStored ==
  ASSUME IInv, IInv', StoredInv, AdoptDone
  PROVE  StoredInv'
<1>1. /\ IsWrite /\ Head(chain).op = "append" /\ UNCHANGED <<storage, store>>
      /\ state' = state \/ state'.owner = NoOne
      /\ Rejects \/ (state'.owner = NoOne /\ UNCHANGED sess)
  BY AdoptingIs DEF AdoptDone
<1>2. CASE state'.owner = NoOne /\ UNCHANGED sess
  <2>1. \A l \in 1..Lives : state'.owner # l
    BY <1>2, CoordinatorAssumption DEF NoOne
  <2> QED BY <1>1, <1>2, <2>1, StoredQuiet
<1> QED BY <1>1, <1>2, RejectsStored

(* A disposed Session keeps its log while it drains.                       *)
LEMMA DisposeStored ==
  ASSUME IInv, IInv', StoredInv, Dispose
  PROVE  StoredInv'
<1>1. store \in 1..Lives /\ sess \in [1..Lives -> Sessions] /\ store' = NoOne
      /\ UNCHANGED <<storage, state>> /\ sess' = [sess EXCEPT ![store].stage = "retiring"]
  BY DEF Dispose, IInv, TypeOK, NoOne
<1>2. sess[store].stage = "live"
  BY DEF IInv, Lineage, Dispose
<1>3. \A l \in 1..Lives : l # store => sess'[l] = sess[l]
  BY <1>1
<1>4. sess'[store].log = sess[store].log /\ sess'[store].stage = "retiring"
  BY <1>1 DEF Sessions
<1>5. \A l \in 1..Lives :
        /\ sess'[l].stage = "unborn" <=> sess[l].stage = "unborn"
        /\ sess'[l].log = sess[l].log
        /\ sess'[l].stage = "gone" => sess[l].stage = "gone"
        /\ sess'[l].stage = "stuck" => sess'[l] = sess[l]
  BY <1>2, <1>3, <1>4
<1> QED BY <1>1, <1>5, StoredQuiet

(* An owner that fails to drain keeps its log and the id.                  *)
LEMMA RetireFailsStored ==
  ASSUME IInv, IInv', StoredInv, NEW l \in 1..Lives, RetireFails(l)
  PROVE  StoredInv'
<1>1. /\ sess \in [1..Lives -> Sessions] /\ store' = store /\ store \in 0..Lives
      /\ UNCHANGED <<storage, state>> /\ sess' = [sess EXCEPT ![l].stage = "stuck"]
      /\ sess[l].stage = "retiring" /\ sess[l].init = "failed"
  BY DEF RetireFails, IInv, TypeOK
<1>2. \A k \in 1..Lives : k # l => sess'[k] = sess[k]
  BY <1>1
<1>3. sess'[l].log = sess[l].log /\ sess'[l].stage = "stuck" /\ sess'[l].init = "failed"
  BY <1>1 DEF Sessions
<1>4. \A k \in 1..Lives :
        /\ sess'[k].stage = "unborn" <=> sess[k].stage = "unborn"
        /\ sess'[k].log = sess[k].log
        /\ sess'[k].stage = "gone" => sess[k].stage = "gone"
        /\ sess'[k].init = "ok" => sess'[k] = sess[k]
  BY <1>1, <1>2, <1>3
<1>5. store' # NoOne => sess'[store].log = sess[store].log
  BY <1>1, <1>4 DEF NoOne
<1> QED BY <1>1, <1>4, <1>5, StoredQuiet

(* A retired owner has stored its whole log before it lets go.             *)
LEMMA ReleasedStored ==
  ASSUME IInv, IInv', StoredInv, Released
  PROVE  StoredInv'
<1>1. /\ chain # <<>> /\ Head(chain).op = "release" /\ store' = store /\ UNCHANGED storage
      /\ sess' = [sess EXCEPT ![Who].stage = "gone", ![Who].log = <<>>]
      /\ state' = (IF state.owner = Who THEN NoState ELSE state)
      /\ sess \in [1..Lives -> Sessions] /\ store \in 0..Lives
  BY DEF Released, Running, IInv, TypeOK
<1>2. Who \in 1..Lives /\ sess[Who].stage = "retiring"
  BY <1>1, FirstIs, NowIs DEF Fits, Who
<1>3. \A k \in 1..Lives : k # Who => sess'[k] = sess[k]
  BY <1>1, <1>2
<1>4. sess'[Who].log = <<>> /\ sess'[Who].stage = "gone"
  BY <1>1, <1>2 DEF Sessions
<1>5. \A k \in 1..Lives :
        /\ sess'[k].stage = "unborn" <=> sess[k].stage = "unborn"
        /\ sess'[k].log \in {sess[k].log, <<>>}
        /\ sess'[k].stage = "gone" => sess[k].stage = "gone" \/ sess'[k].log = <<>>
        /\ sess'[k].stage = "stuck" => sess'[k] = sess[k]
  BY <1>1, <1>2, <1>3, <1>4
<1>6. store' # NoOne => sess'[store].log = sess[store].log
  <2>1. store # NoOne => sess[store].stage = "live" /\ store \in 1..Lives
    BY <1>1 DEF IInv, Lineage, NoOne
  <2> QED BY <2>1, <1>1, <1>2, <1>3
<1>7. \A k \in 1..Lives : state'.owner = k => state' = state
  BY <1>1, CoordinatorAssumption DEF NoState, NoOne
<1> QED BY <1>1, <1>5, <1>6, <1>7, StoredQuiet

(* A claim or a collision settles the initialization of a published        *)
(* Session, whatever the claim stores.                                     *)
LEMMA SettlesStored ==
  ASSUME IInv, IInv', StoredInv, Running("created"), UNCHANGED store,
         Begins(acked', disk'), Storable(Stored', Now),
         \/ \E cursor : Claim(Who, cursor, Events)
         \/ Collision(Who) /\ UNCHANGED <<storage, state>>
  PROVE  StoredInv'
<1>1. /\ Who \in 1..Lives /\ sess[Who].stage \in {"live", "retiring"}
      /\ sess \in [1..Lives -> Sessions] /\ store \in 0..Lives
  BY CreatedIs DEF IInv, TypeOK
<1>2. \E init \in {sess[Who].init, "ok", "failed"} : sess' = [sess EXCEPT ![Who].init = init]
  <2>1. sess = [sess EXCEPT ![Who].init = sess[Who].init]
    BY <1>1 DEF Sessions
  <2> QED BY <2>1 DEF Claim, Collision
<1>3. PICK init : sess' = [sess EXCEPT ![Who].init = init]
  BY <1>2
<1>4. \A k \in 1..Lives : k # Who => sess'[k] = sess[k]
  BY <1>1, <1>3
<1>5. sess'[Who].log = sess[Who].log /\ sess'[Who].stage = sess[Who].stage
  BY <1>1, <1>3 DEF Sessions
<1>6. \A k \in 1..Lives :
        /\ sess'[k].stage = sess[k].stage /\ sess'[k].log = sess[k].log
        /\ sess'[k].stage = "stuck" => sess'[k] = sess[k] /\ k # Who
  BY <1>1, <1>4, <1>5
<1>7. store' # NoOne => store' = store /\ sess'[store].log = sess[store].log
  BY <1>1, <1>6 DEF NoOne
<1>8. (state'.owner = Who) \/ UNCHANGED <<storage, state>>
  <2>1. ASSUME NEW cursor, Claim(Who, cursor, Events)
        PROVE  state'.owner = Who
    <3>1. state' = [cursor |-> cursor, owner |-> Who, known |-> TRUE]
      BY <2>1 DEF Claim
    <3> QED BY <3>1
  <2> QED BY <2>1
<1>9. \A k \in 1..Lives : state'.owner = k /\ sess'[k].stage = "stuck" /\ sess'[k].init = "ok" =>
        sess[k].init = "ok" /\ state.owner = k /\ state.cursor = state'.cursor /\ disk' = disk
  BY <1>6, <1>8 DEF storage
<1> QED BY <1>6, <1>7, <1>9, StoredStep

(* A Session claims the log that it was published with.                    *)
LEMMA ClaimTrackedStored ==
  ASSUME IInv, IInv', StoredInv, ClaimTracked
  PROVE  StoredInv'
<1>1. Running("created") /\ UNCHANGED <<storage, store>>
  BY DEF ClaimTracked
<1>2. Begins(acked', disk') /\ Storable(Stored', Now)
  <2>1. acked' = acked /\ disk' = disk /\ Stored' = Stored
    BY <1>1 DEF storage, Stored
  <2> QED BY <2>1 DEF StoredInv
<1>3. CASE state' = NoState /\ UNCHANGED sess
  <2>1. \A k \in 1..Lives : state'.owner # k
    BY <1>3, CoordinatorAssumption DEF NoState, NoOne
  <2> QED BY <1>1, <1>3, <2>1, StoredQuiet
<1>4. CASE (\E cursor : Claim(Who, cursor, Events)) \/ (Collision(Who) /\ UNCHANGED state)
  BY <1>1, <1>2, <1>4, SettlesStored
<1> QED BY <1>3, <1>4 DEF ClaimTracked

(* A new Session claims an empty log, or collides with a stored one.       *)
LEMMA CreateNewStored ==
  ASSUME IInv, IInv', StoredInv, CreateNew
  PROVE  StoredInv'
<1>1. Running("created") /\ UNCHANGED <<storage, store>>
      /\ ((\E cursor : Claim(Who, cursor, Events)) \/ (Collision(Who) /\ UNCHANGED state))
  BY DEF CreateNew
<1>2. Begins(acked', disk') /\ Storable(Stored', Now)
  <2>1. acked' = acked /\ disk' = disk /\ Stored' = Stored
    BY <1>1 DEF storage, Stored
  <2> QED BY <2>1 DEF StoredInv
<1> QED BY <1>1, <1>2, SettlesStored

-----------------------------------------------------------------------------
(* The steps that write.                                                   *)

(* Without a tear, the disk is what is stored.                             *)
LEMMA DiskStorable ==
  ASSUME TypeOK, StoredInv
  PROVE  Storable(disk, Now) /\ Storable(Stored, Now)
<1>1. disk \in Logs /\ Stored \in Logs /\ Begins(disk, Stored)
  BY Typed
<1>2. Storable(Stored, Now)
  BY DEF StoredInv
<1> DEFINE s == Stored
<1> HIDE DEF s
<1>3. s \in Logs /\ Begins(disk, s) /\ Storable(s, Now)
  BY <1>1, <1>2 DEF s
<1>4. Storable(disk, Now)
  BY <1>1, <1>3, StorablePrefix
<1> QED BY <1>2, <1>4

(* Nothing is torn after the step.                                         *)
LEMMA WholeDisk ==
  ASSUME disk' \in Logs, tear'.holds = <<>>
  PROVE  Stored' = disk'
  BY ConcatEmptySeq DEF Stored, Logs

(* Something is written while nobody owns the id.                          *)
LEMMA StoredWritten ==
  ASSUME IInv, IInv', StoredInv, Begins(acked', disk'), Storable(Stored', Now),
         UNCHANGED <<sess, store>>, state'.owner = NoOne
  PROVE  StoredInv'
<1>1. \A l \in 1..Lives : state'.owner # l
  BY CoordinatorAssumption DEF NoOne
<1> QED BY <1>1, StoredStep

(* A repair writes what is stored and closes an open turn.                 *)
LEMMA RepairWrites ==
  ASSUME TypeOK, StoredInv, NEW closers, closers = ClosersOf(Stored), WriteRepair(closers)
  PROVE  Begins(acked', disk') /\ Storable(Stored', Now) /\ Begins(disk, disk')
<1>1. Stored \in Logs /\ disk \in Logs /\ Begins(disk, Stored) /\ Storable(Stored, Now)
  BY Typed, DiskStorable
<1> DEFINE s == Stored
           t == s \o ClosersOf(s)
<1>2. s \in Logs /\ Begins(disk, s) /\ Storable(s, Now)
  BY <1>1
<1>3. disk' = t /\ acked' = t /\ tear'.holds = <<>>
  BY DEF WriteRepair, Clean
<1> HIDE DEF s
<1>4. t \in Logs /\ Storable(t, Now) /\ Begins(s, t)
  BY <1>2, StorableClosed
<1> HIDE DEF t
<1>5. Begins(disk, t) /\ Begins(t, t)
  BY <1>1, <1>2, <1>4, BeginsMeets, BeginsSelf
<1>6. Stored' = t
  BY <1>3, <1>4, WholeDisk
<1> QED BY <1>3, <1>4, <1>5, <1>6

(* The commit of a repair stores the repaired log.                         *)
LEMMA CommitRepairedStored ==
  ASSUME IInv, IInv', StoredInv, FreshInv, CommitRepaired
  PROVE  StoredInv'
<1>1. chain # <<>> /\ Head(chain).op = "commit" /\ Head(chain).stage = "repairing"
  BY DEF CommitRepaired, Stage, Running
<1>2. TypeOK /\ Head(chain) = chain[1] /\ state.owner = NoOne
  BY <1>1, FirstIs, NowIs DEF IInv, Runs
<1> DEFINE p == Head(chain).who
<1>3. WriteRepair(call[p].src.closers) /\ UNCHANGED <<state, sess, store>>
  BY DEF CommitRepaired
<1>4. Faithful(call[p].src) /\ call[p].src.rev = Revision
  BY <1>1, <1>2, CommitIs DEF FreshInv, Fresh, Repairs
<1>5. call[p].src.closers = ClosersOf(Stored)
  BY <1>2, <1>4, SourceIs
<1> HIDE DEF p
<1>6. Begins(acked', disk') /\ Storable(Stored', Now)
  BY <1>2, <1>3, <1>5, RepairWrites
<1> QED BY <1>2, <1>3, <1>6, StoredWritten

(* A repair that fails after it wrote has stored it.                       *)
LEMMA CommitRepairFailsStored ==
  ASSUME IInv, IInv', StoredInv, CommitRepairFails
  PROVE  StoredInv'
<1>1. /\ tear' = Clean /\ UNCHANGED <<disk, acked, state, sess, store>>
      /\ chain # <<>> /\ Head(chain).op = "commit" /\ Head(chain).stage = "repairing"
  BY DEF CommitRepairFails, Stage, Running
<1>2. TypeOK /\ state.owner = NoOne /\ disk \in Logs
  BY <1>1, FirstIs, NowIs DEF IInv, Runs, TypeOK
<1>3. Stored' = disk
  BY <1>1, <1>2, WholeDisk DEF Clean
<1>4. Begins(acked', disk') /\ Storable(Stored', Now)
  BY <1>1, <1>2, <1>3, DiskStorable DEF StoredInv
<1> QED BY <1>1, <1>2, <1>4, StoredWritten

(* A takeover of an unfinished log stores its repair first.                *)
LEMMA AdoptRepairsStored ==
  ASSUME IInv, IInv', StoredInv, AdoptRepairs
  PROVE  StoredInv'
<1>1. /\ IsWrite /\ Head(chain).stage = "adopting" /\ WriteRepair(Prepared.closers)
      /\ UNCHANGED <<state, sess, store>>
  BY DEF AdoptRepairs
<1>2. TypeOK /\ state.owner = NoOne /\ Prepared.closers = ClosersOf(Stored)
  BY <1>1, AdoptingIs, PreparedSource DEF IInv
<1>3. Begins(acked', disk') /\ Storable(Stored', Now)
  BY <1>1, <1>2, RepairWrites
<1> QED BY <1>1, <1>2, <1>3, StoredWritten

(* Another process repairs and extends the log that nobody here owns.      *)
LEMMA ForeignStored ==
  ASSUME IInv, IInv', StoredInv, Foreign
  PROVE  StoredInv'
<1>1. /\ disk' = Append(Prepared.events, Ev("note", NoOne)) /\ tear' = Clean /\ acked' = disk'
      /\ UNCHANGED <<state, sess, store>> /\ ~state.known
  BY DEF Foreign
<1>2. TypeOK /\ state.owner = NoOne /\ Prepared.events = Stored \o ClosersOf(Stored)
  BY <1>1, PreparedSource DEF IInv, Ownership
<1> DEFINE s == Stored
           c == s \o ClosersOf(s)
           t == c \o <<Ev("note", NoOne)>>
<1>3. s \in Logs /\ Storable(s, Now)
  BY <1>2, Typed, DiskStorable
<1>4. Prepared.events = c
  BY <1>2
<1> HIDE DEF s
<1>5. c \in Logs /\ Storable(c, Now)
  BY <1>2, <1>3, StorableClosed
<1> HIDE DEF c
<1>6. t \in Logs /\ Storable(t, Now)
  BY <1>2, <1>5, StorableNote
<1>7. Append(c, Ev("note", NoOne)) = t
  <2>1. Ev("note", NoOne) \in LogEvents
    BY DEF Ev, LogEvents, NoOne
  <2> QED BY <2>1, <1>5, AppendIsConcat DEF Logs
<1> HIDE DEF t
<1>8. disk' = t /\ acked' = t /\ tear'.holds = <<>>
  BY <1>1, <1>4, <1>7 DEF Clean
<1>9. Stored' = t
  BY <1>6, <1>8, WholeDisk
<1>10. Begins(acked', disk') /\ Storable(Stored', Now)
  BY <1>6, <1>8, <1>9, BeginsSelf
<1> QED BY <1>1, <1>2, <1>10, StoredWritten

(* A running append stores what may be stored.                             *)
LEMMA WritesStorable ==
  ASSUME IInv, StoredInv, IsWrite, Head(chain).stage = "writing"
  PROVE  /\ Events \in Logs /\ disk \o Events \in Logs /\ Storable(disk \o Events, Now)
         /\ ~tear.torn /\ Stored = disk /\ disk \in Logs
         /\ Head(chain).op # "append" => Begins(disk \o Events, sess[Who].log)
<1>1. chain # <<>> /\ Head(chain).op \in {"append", "batch", "suffix"} /\ TypeOK
  BY DEF IsWrite, IInv
<1>2. Events = Head(chain).data[2] /\ Events \in Logs
  BY <1>1, EventsIs
<1>3. ~tear.torn
  BY <1>1, FirstIs, NowIs DEF Runs, IInv, Ownership
<1>4. disk \in Logs /\ Stored = disk /\ Storable(disk, Now)
  BY <1>1, <1>3, Typed, DiskStorable
<1>5. disk \o Events \in Logs
  BY <1>2, <1>4, ConcatProperties DEF Logs
<1>6. CASE Head(chain).op = "append"
  <2>1. Events = <<Ev("note", NoOne)>>
    BY <1>1, <1>2, <1>6, AppendIs
  <2>2. Storable(disk \o <<Ev("note", NoOne)>>, Now)
    BY <1>1, <1>4, StorableNote
  <2> QED BY <1>2, <1>3, <1>4, <1>5, <1>6, <2>1, <2>2
<1>7. CASE Head(chain).op \in {"batch", "suffix"}
  <2>1. Who \in 1..Lives /\ sess[Who].stage # "unborn"
        /\ Begins(disk \o Events, sess[Who].log)
    BY <1>1, <1>2, <1>7, WriterIs
  <2> DEFINE t == disk \o Events
  <2>2. t \in Logs /\ Begins(t, sess[Who].log)
    BY <1>5, <2>1
  <2> HIDE DEF t
  <2>3. Storable(t, Now)
    BY <2>1, <2>2, StorableLog
  <2> QED BY <1>2, <1>3, <1>4, <1>5, <2>1, <2>3 DEF t
<1> QED BY <1>1, <1>6, <1>7

(* What a Session appends follows what is stored.                          *)
LEMMA WriteDoneStored ==
  ASSUME IInv, IInv', StoredInv, WriteDone
  PROVE  StoredInv'
<1>1. IsWrite /\ Head(chain).stage = "writing" /\ chain # <<>> /\ store' = store
      /\ acked' = disk \o Events
      /\ sess' = IF Head(chain).op = "suffix" THEN [sess EXCEPT ![Who].init = "ok"] ELSE sess
  BY DEF WriteDone, IsWrite
<1>2. disk \o Events \in Logs /\ Storable(disk \o Events, Now)
  BY <1>1, WritesStorable
<1>3. disk' = disk \o Events /\ tear'.holds = <<>> /\ disk' \in Logs /\ state'.owner = state.owner
  BY <1>1, WrittenIs, EventsIs
<1>4. Begins(acked', disk') /\ Storable(Stored', Now)
  BY <1>1, <1>2, <1>3, WholeDisk, BeginsSelf
<1>5. /\ sess \in [1..Lives -> Sessions] /\ store \in 0..Lives
  BY DEF IInv, TypeOK
<1>6. \A l \in 1..Lives :
        /\ sess'[l].stage = sess[l].stage /\ sess'[l].log = sess[l].log
  BY <1>1, <1>5 DEF Sessions
<1>7. \A l \in 1..Lives : ~(state'.owner = l /\ sess'[l].stage = "stuck")
  <2>1. CASE Head(chain).op = "append"
    BY <1>1, <1>6, <2>1, AppendIs
  <2>2. CASE Head(chain).op \in {"batch", "suffix"}
    BY <1>1, <1>3, <1>6, <2>2, WriterIs
  <2> QED BY <1>1, <2>1, <2>2 DEF IsWrite
<1>8. store' # NoOne => store' = store /\ sess'[store].log = sess[store].log
  BY <1>1, <1>5, <1>6 DEF NoOne
<1> QED BY <1>4, <1>6, <1>7, <1>8, StoredStep

(* A live Session takes back what it stored before a reload.               *)
LEMMA AdoptLivePrefixStored ==
  ASSUME IInv, IInv', StoredInv, AdoptLivePrefix
  PROVE  StoredInv'
<1>1. /\ Running("created") /\ UNCHANGED store /\ TypeOK
      /\ \/ \E cursor : Claim(Who, cursor, Events)
         \/ Collision(Who) /\ UNCHANGED <<storage, state>>
      /\ (UNCHANGED storage) \/ (tear.torn /\ WriteRepair(<<>>))
  BY DEF AdoptLivePrefix, IInv, AdoptionClosers
<1>2. CASE UNCHANGED storage
  <2>1. acked' = acked /\ disk' = disk /\ Stored' = Stored
    BY <1>2 DEF storage, Stored
  <2>2. Begins(acked', disk') /\ Storable(Stored', Now)
    BY <2>1 DEF StoredInv
  <2> QED BY <1>1, <2>2, SettlesStored
<1>3. CASE WriteRepair(<<>>)
  <2>1. Stored \in Logs /\ Storable(Stored, Now) /\ Stored \o <<>> = Stored
    BY <1>1, Typed, DiskStorable, ConcatEmptySeq DEF Logs
  <2>2. disk' = Stored /\ acked' = Stored /\ tear'.holds = <<>>
    BY <1>3, <2>1 DEF WriteRepair, Clean
  <2>3. Stored' = Stored
    BY <2>1, <2>2, WholeDisk
  <2>4. Begins(acked', disk') /\ Storable(Stored', Now)
    BY <2>1, <2>2, <2>3, BeginsSelf
  <2> QED BY <1>1, <2>4, SettlesStored
<1> QED BY <1>1, <1>2, <1>3

-----------------------------------------------------------------------------
(* Reloads, crashes and publications.                                      *)

(* A reload drains the owner or not, and forgets who it was.               *)
LEMMA ReloadStored ==
  ASSUME IInv, IInv', StoredInv, Reload
  PROVE  StoredInv'
<1>1. TypeOK /\ state' = NoState /\ store' = store
  BY DEF Reload, IInv
<1>2. sess' = [l \in 1..Lives |->
         IF l = store THEN [sess[l] EXCEPT !.init = "pending"]
         ELSE IF sess[l].stage = "unborn" THEN sess[l]
         ELSE [sess[l] EXCEPT !.stage = "gone", !.log = <<>>]]
  BY DEF Reload
<1>3. \A l \in 1..Lives : /\ sess[l] \in Sessions
                          /\ l = store =>
                               sess'[l].stage = sess[l].stage /\ sess'[l].log = sess[l].log
                          /\ l # store /\ sess[l].stage = "unborn" => sess'[l] = sess[l]
                          /\ l # store /\ sess[l].stage # "unborn" =>
                               sess'[l].stage = "gone" /\ sess'[l].log = <<>>
  BY <1>1, <1>2 DEF TypeOK, Sessions
<1>4. \A l \in 1..Lives :
        /\ sess'[l].stage = "unborn" <=> sess[l].stage = "unborn"
        /\ sess'[l].log \in {sess[l].log, <<>>}
        /\ sess'[l].stage = "gone" => sess[l].stage = "gone" \/ sess'[l].log = <<>>
  BY <1>3
<1>5. store' # NoOne => store' = store /\ sess'[store].log = sess[store].log
  BY <1>1, <1>3, Typed DEF NoOne
<1>6. \A l \in 1..Lives : state'.owner # l
  BY <1>1, CoordinatorAssumption DEF NoState, NoOne
<1>7. Begins(acked', disk') /\ Storable(Stored', Now)
  <2>1. CASE UNCHANGED storage
    <3>1. acked' = acked /\ disk' = disk /\ Stored' = Stored
      BY <2>1 DEF storage, Stored
    <3> QED BY <3>1 DEF StoredInv
  <2>2. CASE /\ state.owner # NoOne /\ sess[state.owner].init = "ok"
             /\ disk' = disk \o Unwritten(state.owner) /\ acked' = disk' /\ UNCHANGED tear
    <3> DEFINE g == sess[state.owner].log
    <3>1. /\ state.owner \in 1..Lives /\ state.cursor \in Nat /\ sess[state.owner].stage # "unborn"
          /\ tear.holds = <<>> /\ disk \in Logs /\ g \in Logs
      BY <2>2, Typed DEF IInv, TypeOK, States, NoOne, Ownership
    <3>2. Unwritten(state.owner) = SubSeq(g, state.cursor + 1, Len(g))
      BY DEF Unwritten
    <3>3. disk' \in Logs /\ Storable(disk', Now)
      <4>1. CASE g = <<>>
        <5>1. Len(g) = 0 /\ state.cursor + 1 > 0
          BY <4>1, <3>1
        <5>2. SubSeq(g, state.cursor + 1, Len(g)) = <<>>
          BY <3>1, <5>1, SubSeqEmpty
        <5>3. disk' = disk
          BY <2>2, <3>1, <3>2, <5>2, ConcatEmptySeq DEF Logs
        <5> QED BY <1>1, <3>1, <5>3, DiskStorable
      <4>2. CASE g # <<>>
        <5>1. state.cursor = Len(disk) /\ Begins(disk, g)
          BY <2>2, <3>1, <4>2 DEF StoredInv
        <5>2. disk' = g
          <6>1. disk \o SubSeq(g, Len(disk) + 1, Len(g)) = g
            BY <3>1, <5>1, BeginsRest
          <6> QED BY <2>2, <3>2, <5>1, <6>1
        <5>3. Storable(g, Now)
          BY <3>1, BeginsSelf, StorableLog
        <5> QED BY <3>1, <5>2, <5>3
      <4> QED BY <4>1, <4>2
    <3>4. Stored' = disk'
      BY <2>2, <3>1, <3>3, WholeDisk
    <3> QED BY <2>2, <3>3, <3>4, BeginsSelf
  <2> QED BY <2>1, <2>2 DEF Reload
<1> QED BY <1>4, <1>5, <1>6, <1>7, StoredStep

(* A log begins with what is cut of it, at any place.                      *)
LEMMA CutsBegin ==
  ASSUME NEW s \in Logs, NEW evs \in Logs, NEW w \in Cuts(evs)
  PROVE  w \in Logs /\ s \o w \in Logs /\ Begins(s \o w, s \o evs)
<1>1. PICK k \in 0..Len(evs) : w = SubSeq(evs, 1, k)
  BY DEF Cuts
<1>2. w \in Logs
  BY CutsAre
<1>3. Len(evs) \in Nat /\ evs \in [1..Len(evs) -> LogEvents]
  BY LenProperties DEF Logs
<1>4. 1 \in Int /\ k \in Int /\ \A i \in 1..k : evs[i] \in LogEvents
  BY <1>1, <1>3
<1>5. Len(w) = (IF 1 <= k THEN k - 1 + 1 ELSE 0) /\ \A i \in 1..(k - 1 + 1) : w[i] = evs[1 + i - 1]
  BY <1>1, <1>4, SubSeqProperties
<1>6. Len(w) = k /\ k \in Nat /\ k <= Len(evs) /\ \A i \in 1..k : w[i] = evs[i]
  BY <1>1, <1>5
<1>7. s \o w \in Logs /\ Len(s \o w) = Len(s) + k /\ Len(s) \in Nat
      /\ \A i \in 1..Len(s) + Len(w) :
           (s \o w)[i] = IF i <= Len(s) THEN s[i] ELSE w[i - Len(s)]
  BY <1>2, <1>6, ConcatProperties, LenProperties DEF Logs
<1>8. Len(s \o evs) = Len(s) + Len(evs)
      /\ \A i \in 1..Len(s) + Len(evs) :
           (s \o evs)[i] = IF i <= Len(s) THEN s[i] ELSE evs[i - Len(s)]
  BY ConcatProperties DEF Logs
<1>9. \A i \in 1..Len(s \o w) : (s \o w)[i] = (s \o evs)[i]
  <2> TAKE i \in 1..Len(s \o w)
  <2>1. i \in 1..Len(s) + Len(w) /\ i \in 1..Len(s) + Len(evs) /\ i \in Nat
        /\ (~(i <= Len(s)) => i - Len(s) \in 1..k)
    BY <1>3, <1>6, <1>7
  <2> QED BY <2>1, <1>6, <1>7, <1>8
<1>10. Len(s \o w) <= Len(s \o evs)
  BY <1>3, <1>6, <1>7, <1>8
<1> QED BY <1>2, <1>7, <1>9, <1>10 DEF Begins

(* What a crash leaves of a write begins what it would have written.       *)
LEMMA LeavesBegin ==
  ASSUME TypeOK, NEW evs \in Logs, NEW left \in Leaves(evs)
  PROVE  /\ Begins(disk, left[1]) /\ left[1] \o left[2].holds \in Logs
         /\ Begins(left[1] \o left[2].holds, disk \o evs)
<1>1. disk \in Logs /\ Clean.holds = <<>> /\ <<>> \in Logs /\ Begins(disk, disk)
      /\ Torn(<<>>).holds = <<>>
  BY BareSource, BeginsSelf DEF TypeOK, Clean, Torn
<1>2. Begins(disk, disk \o evs) /\ \A w \in Logs : w \o <<>> = w /\ <<>> \o w = w
      /\ disk \o evs \in Logs
  BY <1>1, BeginsGrows, ConcatEmptySeq, ConcatProperties DEF Logs
<1>3. ASSUME NEW w \in Cuts(evs)
      PROVE  w \in Logs /\ disk \o w \in Logs /\ Begins(disk \o w, disk \o evs)
             /\ Begins(disk, disk \o w)
  <2>1. w \in Logs /\ disk \o w \in Logs /\ Begins(disk \o w, disk \o evs)
    BY <1>1, CutsBegin
  <2>2. Begins(disk, disk \o w)
    BY <1>1, <2>1, BeginsGrows
  <2> QED BY <2>1, <2>2
<1>4. \/ left = <<disk, Clean>> \/ (left = <<evs, Clean>> /\ disk = <<>>)
      \/ \E w \in Cuts(evs), t \in {Clean, Torn(<<>>)} : left = <<disk \o w, t>>
      \/ \E w \in Cuts(evs) : left = <<disk, Torn(w)>>
  BY DEF Leaves
<1>5. CASE left = <<disk, Clean>>
  BY <1>1, <1>2, <1>5
<1>6. CASE left = <<evs, Clean>> /\ disk = <<>>
  <2>1. left[1] = evs /\ left[2].holds = <<>> /\ disk \o evs = evs /\ evs \o <<>> = evs
    BY <1>1, <1>2, <1>6
  <2> QED BY <2>1, <1>6, BeginsSelf
<1>7. CASE \E w \in Cuts(evs), t \in {Clean, Torn(<<>>)} : left = <<disk \o w, t>>
  <2>1. PICK w \in Cuts(evs), t \in {Clean, Torn(<<>>)} : left = <<disk \o w, t>>
    BY <1>7
  <2> DEFINE d == disk \o w
  <2>2. d \in Logs /\ Begins(d, disk \o evs) /\ Begins(disk, d)
    BY <1>3
  <2>3. left[1] = d /\ left[2].holds = <<>>
    BY <1>1, <2>1
  <2> HIDE DEF d
  <2>4. left[1] \o left[2].holds = d
    BY <1>2, <2>2, <2>3
  <2> QED BY <2>2, <2>3, <2>4
<1>8. CASE \E w \in Cuts(evs) : left = <<disk, Torn(w)>>
  <2>1. PICK w \in Cuts(evs) : left = <<disk, Torn(w)>>
    BY <1>8
  <2>2. left[1] = disk /\ left[2].holds = w
    BY <2>1 DEF Torn
  <2> QED BY <1>1, <1>3, <2>2
<1> QED BY <1>4, <1>5, <1>6, <1>7, <1>8

(* What a crash leaves of a repair begins the repaired log.                *)
LEMMA RepairBegins ==
  ASSUME TypeOK
  PROVE  LET evs == tear.holds \o ClosersOf(Stored) IN
         evs \in Logs /\ disk \o evs = Stored \o ClosersOf(Stored)
<1>1. disk \in Logs /\ tear.holds \in Logs /\ ClosersOf(Stored) \in Logs
      /\ Stored = disk \o tear.holds
  BY Typed, PreparedSource DEF Stored
<1>2. \A s, t, u \in Seq(LogEvents) : (s \o t) \o u = s \o (t \o u)
  BY ConcatAssociative
<1> QED BY <1>1, <1>2, ConcatProperties DEF Logs

(* What a crash leaves of the disk begins what was being written.          *)
LEMMA CrashLeaves ==
  ASSUME IInv, StoredInv, Crash
  PROVE  Begins(disk, disk') /\ Stored' \in Logs /\ Storable(Stored', Now)
<1>1. TypeOK /\ disk \in Logs /\ Stored \in Logs /\ Storable(Stored, Now) /\ Begins(disk, disk)
  BY Typed, DiskStorable, BeginsSelf DEF IInv
<1>2. ASSUME NEW evs \in Logs, NEW left \in Leaves(evs), disk' = left[1], tear' = left[2],
             disk \o evs \in Logs, Storable(disk \o evs, Now)
      PROVE  Begins(disk, disk') /\ Stored' \in Logs /\ Storable(Stored', Now)
  <2> DEFINE t == disk \o evs
             s == left[1] \o left[2].holds
  <2>1. Begins(disk, left[1]) /\ s \in Logs /\ Begins(s, t)
    BY <1>1, LeavesBegin
  <2>2. Stored' = s
    BY <1>2 DEF Stored
  <2>3. t \in Logs /\ Storable(t, Now)
    BY <1>2
  <2> HIDE DEF s, t
  <2> QED BY <1>2, <2>1, <2>2, <2>3, StorablePrefix
<1>3. CASE disk' = disk /\ tear' = tear
  BY <1>1, <1>3 DEF Stored
<1>4. CASE IsWrite /\ Head(chain).stage = "writing" /\ \E left \in Leaves(Events) :
             disk' = left[1] /\ tear' = left[2]
  BY <1>2, <1>4, WritesStorable
<1>5. CASE \E left \in Leaves(tear.holds \o ClosersOf(Stored)) :
             disk' = left[1] /\ tear' = left[2]
  <2> DEFINE evs == tear.holds \o ClosersOf(Stored)
             s == Stored
  <2>1. evs \in Logs /\ disk \o evs = s \o ClosersOf(s)
    BY <1>1, RepairBegins
  <2>2. s \in Logs /\ Storable(s, Now)
    BY <1>1
  <2> HIDE DEF s
  <2>3. s \o ClosersOf(s) \in Logs /\ Storable(s \o ClosersOf(s), Now)
    BY <1>1, <2>2, StorableClosed
  <2>4. PICK left \in Leaves(evs) : disk' = left[1] /\ tear' = left[2]
    BY <1>5
  <2> HIDE DEF evs
  <2> QED BY <2>1, <2>3, <2>4, <1>2
<1> QED BY <1>3, <1>4, <1>5 DEF Crash

(* After a crash what is stored may be, torn record aside.                 *)
LEMMA CrashStored ==
  ASSUME IInv, IInv', StoredInv, Crash
  PROVE  StoredInv'
<1>1. TypeOK /\ disk' \in Logs
  BY DEF IInv, TypeOK
<1>2. acked' = acked /\ state' = NoState /\ store' = NoOne
      /\ sess' = [l \in 1..Lives |->
           IF sess[l].stage = "unborn" THEN sess[l] ELSE [Unborn EXCEPT !.stage = "gone"]]
  BY DEF Crash
<1>3. \A l \in 1..Lives :
        /\ sess'[l].stage = "unborn" <=> sess[l].stage = "unborn"
        /\ sess'[l].log \in {sess[l].log, <<>>}
        /\ sess'[l].stage = "gone" => sess[l].stage = "gone" \/ sess'[l].log = <<>>
        /\ state'.owner # l
  BY <1>2, CoordinatorAssumption DEF Unborn, NoState, NoOne
<1>4. Begins(disk, disk') /\ Storable(Stored', Now)
  BY CrashLeaves
<1>5. Begins(acked', disk')
  BY <1>1, <1>2, <1>4, Typed, BeginsMeets DEF StoredInv
<1> QED BY <1>2, <1>3, <1>4, <1>5, StoredStep

(* A live Session appends an event that the order of turns allows.         *)
LEMMA EmitStored ==
  ASSUME IInv, IInv', StoredInv, Emit
  PROVE  StoredInv'
<1> DEFINE g == sess[store].log
           e == Ev(IF OpenTurn(g) THEN "close" ELSE "open", store)
           t == Append(g, e)
<1>1. /\ store \in 1..Lives /\ sess[store].stage = "live" /\ g \in Logs
      /\ sess \in [1..Lives -> Sessions] /\ TypeOK /\ TypeOK'
      /\ store' = store /\ UNCHANGED <<storage, state>>
  BY LiveLog DEF Emit, IInv, TypeOK, Lineage, Live
<1>2. sess' = [sess EXCEPT ![store].log = t]
  BY DEF Emit
<1>3. e \in LogEvents /\ e.by = store /\ e.kind = IF OpenTurn(g) THEN "close" ELSE "open"
  BY <1>1 DEF Ev, LogEvents
<1>4. Sane(g) /\ \A i \in 1..Len(g) : g[i].by <= store
  BY <1>1 DEF StoredInv
<1> HIDE DEF e, g
<1>5. e.kind # "torn" /\ (e.kind = "open" <=> ~OpenTurn(g))
  BY <1>3
<1>6. /\ t \in Logs /\ Sane(t) /\ Len(t) = Len(g) + 1 /\ t[Len(g) + 1] = e
      /\ \A k \in 1..Len(g) : t[k] = g[k]
  <2>1. /\ g \o <<e>> \in Logs /\ Sane(g \o <<e>>) /\ g \o <<e>> = t
        /\ Len(g \o <<e>>) = Len(g) + 1 /\ (g \o <<e>>)[Len(g) + 1] = e
        /\ \A k \in 1..Len(g) : (g \o <<e>>)[k] = g[k]
    BY <1>1, <1>3, <1>4, <1>5, SaneGrows
  <2> QED BY <2>1
<1>7. \A i \in 1..Len(t) : t[i].by <= store
  <2>1. Len(g) \in Nat
    BY <1>1, LenProperties DEF Logs
  <2>2. \A i \in 1..Len(t) : i \in 1..Len(g) \/ i = Len(g) + 1
    BY <1>6, <2>1
  <2> QED BY <1>1, <1>3, <1>4, <1>6, <2>2
<1> HIDE DEF t
<1>8. /\ sess'[store].log = t /\ sess'[store].stage = "live"
      /\ \A l \in 1..Lives : l # store => sess'[l] = sess[l]
  BY <1>1, <1>2 DEF Sessions
<1>9. acked' = acked /\ disk' = disk /\ Stored' = Stored /\ state' = state
  BY <1>1 DEF storage, Stored
<1>10. Storable(Stored', Now')
  <2> DEFINE s == Stored
  <2>1. s \in Logs /\ Storable(s, Now)
    BY <1>1, Typed, DiskStorable
  <2> HIDE DEF s
  <2>2. Len(sess[store].log) <= Len(sess'[store].log)
    <3>1. Len(g) \in Nat
      BY <1>1, LenProperties DEF Logs
    <3> QED BY <3>1, <1>6, <1>8 DEF g
  <2>3. \A l \in 1..Lives : sess'[l].stage = "unborn" => sess[l].stage = "unborn"
    BY <1>8
  <2>4. Storable(s, Now')
    BY <1>1, <2>1, <2>2, <2>3, StorableKept
  <2> QED BY <1>9, <2>4 DEF s
<1>11. ASSUME NEW l \in 1..Lives
       PROVE  /\ Sane(sess'[l].log) /\ \A i \in 1..Len(sess'[l].log) : sess'[l].log[i].by <= l
              /\ sess'[l].stage = "gone" => sess'[l].log = <<>>
              /\ store' # NoOne /\ l > store' => sess'[l].stage = "unborn"
              /\ state'.owner = l /\ sess'[l].init = "ok" /\ sess'[l].log # <<>> =>
                   state'.cursor = Len(disk') /\ Begins(disk', sess'[l].log)
  <2>1. CASE l = store
    <3>1. ~(l > store') /\ sess'[l].stage = "live"
      BY <1>1, <1>8, <2>1
    <3>2. state'.owner = l /\ sess'[l].init = "ok" /\ sess'[l].log # <<>> =>
            state'.cursor = Len(disk') /\ Begins(disk', sess'[l].log)
      BY <3>1 DEF IInv, Ownership, Owns
    <3> QED BY <2>1, <3>1, <3>2, <1>6, <1>7, <1>8
  <2>2. CASE l # store
    BY <2>2, <1>1, <1>8, <1>9 DEF StoredInv
  <2> QED BY <2>1, <2>2
<1>12. Begins(acked', disk')
  BY <1>9 DEF StoredInv
<1> QED BY <1>10, <1>11, <1>12 DEF StoredInv

(* A Session is published with a log in order that its predecessors wrote. *)
LEMMA BornStored ==
  ASSUME IInv, IInv', StoredInv, CanBeBorn, NEW s \in Sessions, s.stage = "live",
         Sane(s.log), \A i \in 1..Len(s.log) : s.log[i].by <= NextLife,
         sess' = [sess EXCEPT ![NextLife] = s], store' = NextLife, UNCHANGED storage,
         state'.owner = NextLife \/ (state' = state /\ s.init # "ok")
  PROVE  StoredInv'
<1> DEFINE n == NextLife
<1>1. /\ n \in 1..Lives /\ sess[n].stage = "unborn"
      /\ \A k \in 1..Lives : sess[k].stage = "unborn" <=> n <= k
  BY NextLifeIs
<1>2. /\ sess'[n] = s /\ \A k \in 1..Lives : k # n => sess'[k] = sess[k]
  BY BornIs
<1>3. TypeOK /\ Stored \in Logs /\ acked' = acked /\ disk' = disk /\ Stored' = Stored
      /\ Storable(Stored, Now) /\ store' = n
      /\ Sane(s.log) /\ (\A i \in 1..Len(s.log) : s.log[i].by <= n)
      /\ (state'.owner = n \/ (state' = state /\ s.init # "ok"))
  BY Typed, DiskStorable DEF IInv, storage, Stored
<1> HIDE DEF n
<1>4. Storable(Stored', Now')
  <2>1. ASSUME NEW k \in 1..Lives, sess'[k].stage = "unborn", NEW i \in 1..Len(Stored)
        PROVE  Stored[i].by < k
    <3>1. sess[k].stage = "unborn"
      BY <1>1, <1>2, <2>1
    <3> QED BY <3>1, <1>3, NowIs DEF Storable
  <2>2. ASSUME NEW i \in 1..Len(Stored)
        PROVE  Stored[i].by # n
    <3>1. Stored[i].by < n
      BY <1>1, <1>3, NowIs DEF Storable
    <3>2. Stored[i].by \in Nat
      BY <1>3, AuthorIs
    <3> QED BY <1>1, <3>1, <3>2
  <2>3. Sane(Stored)
    BY <1>3 DEF Storable
  <2> QED BY <1>3, <2>1, <2>2, <2>3, NowIs DEF Storable
<1>5. ASSUME NEW l \in 1..Lives
      PROVE  /\ Sane(sess'[l].log) /\ \A i \in 1..Len(sess'[l].log) : sess'[l].log[i].by <= l
             /\ sess'[l].stage = "gone" => sess'[l].log = <<>>
             /\ store' # NoOne /\ l > store' => sess'[l].stage = "unborn"
             /\ state'.owner = l /\ sess'[l].init = "ok" /\ sess'[l].log # <<>> =>
                  state'.cursor = Len(disk') /\ Begins(disk', sess'[l].log)
  <2>1. CASE l = n
    <3>1. ~(l > store') /\ sess'[l].stage = "live"
      BY <1>1, <1>2, <1>3, <2>1
    <3>2. state'.owner = l /\ sess'[l].init = "ok" /\ sess'[l].log # <<>> =>
            state'.cursor = Len(disk') /\ Begins(disk', sess'[l].log)
      BY <3>1 DEF IInv, Ownership, Owns
    <3> QED BY <1>2, <1>3, <2>1, <3>1, <3>2
  <2>2. CASE l # n
    <3>1. sess'[l] = sess[l] /\ (l > n => sess[l].stage = "unborn")
      BY <1>1, <1>2, <2>2
    <3>2. state'.owner = l => state' = state
      BY <1>3, <2>2
    <3> QED BY <1>3, <3>1, <3>2 DEF StoredInv
  <2> QED BY <2>1, <2>2
<1>6. Begins(acked', disk')
  BY <1>3 DEF StoredInv
<1> QED BY <1>4, <1>5, <1>6 DEF StoredInv

(* Every event was stored before the next Session is published.            *)
LEMMA EarlierAuthors ==
  ASSUME IInv, StoredInv, CanBeBorn, NEW s \in Logs, Storable(s, Now)
  PROVE  Sane(s) /\ \A i \in 1..Len(s) : s[i].by <= NextLife
<1>1. NextLife \in 1..Lives /\ sess[NextLife].stage = "unborn" /\ NextLife \in Nat
  BY NextLifeIs, CoordinatorAssumption
<1>2. ASSUME NEW i \in 1..Len(s)
      PROVE  s[i].by <= NextLife
  <2>1. s[i].by < NextLife
    BY <1>1, NowIs DEF Storable
  <2>2. s[i].by \in Nat
    BY AuthorIs
  <2> QED BY <1>1, <2>1, <2>2
<1> QED BY <1>2 DEF Storable

(* A note of the next Session may follow.                                  *)
LEMMA NoteFollows ==
  ASSUME NEW s \in Logs, NEW n \in Nat, Sane(s), \A i \in 1..Len(s) : s[i].by <= n
  PROVE  LET t == s \o <<Ev("note", n)>> IN
         t \in Logs /\ Sane(t) /\ \A i \in 1..Len(t) : t[i].by <= n
<1> DEFINE e == Ev("note", n)
           t == s \o <<e>>
<1>1. e \in LogEvents /\ e.kind = "note" /\ e.kind # "torn" /\ e.by = n
  BY DEF Ev, LogEvents
<1> HIDE DEF e
<1>2. /\ t \in Logs /\ Sane(t) /\ Len(t) = Len(s) + 1 /\ t[Len(s) + 1] = e
      /\ \A k \in 1..Len(s) : t[k] = s[k]
  BY <1>1, SaneGrows
<1> HIDE DEF t
<1>3. \A i \in 1..Len(t) : i \in 1..Len(s) \/ i = Len(s) + 1
  BY <1>2, LenProperties DEF Logs
<1>4. \A i \in 1..Len(t) : t[i].by <= n
  BY <1>1, <1>2, <1>3
<1> QED BY <1>2, <1>4 DEF t, e

(* A Session is created, with a prepared log or its first event.           *)
LEMMA CreateStored ==
  ASSUME IInv, IInv', StoredInv, NEW seeded \in BOOLEAN, Create(seeded)
  PROVE  StoredInv'
<1> DEFINE seed == IF seeded THEN Prepared.events ELSE <<Ev("note", NextLife)>>
           s == [log |-> seed, stage |-> "live", init |-> "pending"]
<1>1. /\ CanBeBorn /\ TypeOK /\ sess' = [sess EXCEPT ![NextLife] = s] /\ store' = NextLife
      /\ UNCHANGED <<storage, state>>
  BY DEF Create, IInv
<1>2. NextLife \in 1..Lives /\ NextLife \in Nat
  BY <1>1, NextLifeIs, CoordinatorAssumption
<1>3. seed \in Logs /\ Sane(seed) /\ \A i \in 1..Len(seed) : seed[i].by <= NextLife
  <2>1. CASE seeded
    <3> DEFINE d == Stored
               c == d \o ClosersOf(d)
    <3>1. d \in Logs /\ Storable(d, Now)
      BY <1>1, Typed, DiskStorable
    <3>2. seed = c
      BY <2>1, <1>1, PreparedSource
    <3> HIDE DEF d, seed
    <3>3. c \in Logs /\ Storable(c, Now)
      BY <1>1, <3>1, StorableClosed
    <3> HIDE DEF c
    <3> QED BY <1>1, <3>2, <3>3, EarlierAuthors
  <2>2. CASE ~seeded
    <3>1. <<>> \in Logs /\ 1..Len(<<>>) = {}
      BY BareSource
    <3>2. Sane(<<>>) /\ \A i \in 1..Len(<<>>) : <<>>[i].by <= NextLife
      BY <3>1 DEF Sane
    <3>3. Ev("note", NextLife) \in LogEvents
      BY <1>2 DEF Ev, LogEvents
    <3>4. <<>> \o <<Ev("note", NextLife)>> = <<Ev("note", NextLife)>>
      <4>1. <<Ev("note", NextLife)>> \in Seq(LogEvents)
        BY <3>3
      <4> QED BY <4>1, ConcatEmptySeq
    <3>5. seed = <<>> \o <<Ev("note", NextLife)>>
      BY <2>2, <3>4
    <3> HIDE DEF seed
    <3> QED BY <1>2, <3>1, <3>2, <3>5, NoteFollows
  <2> QED BY <2>1, <2>2
<1> HIDE DEF seed
<1>4. s \in Sessions /\ s.stage = "live" /\ s.log = seed /\ s.init = "pending"
  BY <1>3 DEF Sessions
<1> HIDE DEF s
<1> QED BY <1>1, <1>3, <1>4, BornStored

(* A Session is attached to the reserved log.                              *)
LEMMA AttachPreparedStored ==
  ASSUME IInv, IInv', StoredInv, NEW p \in Callers, NEW extra \in BOOLEAN, AttachPrepared(p, extra)
  PROVE  StoredInv'
<1> DEFINE suffix == IF extra THEN <<Ev("note", NextLife)>> ELSE <<>>
           log == call[p].src.events \o suffix
           s == [log |-> log, stage |-> "live", init |-> IF extra THEN "pending" ELSE "ok"]
<1>1. /\ CanBeBorn /\ TypeOK /\ Held(p) /\ sess' = [sess EXCEPT ![NextLife] = s]
      /\ store' = NextLife /\ state' = [state EXCEPT !.owner = NextLife] /\ UNCHANGED storage
  BY DEF AttachPrepared, IInv, Held
<1>2. NextLife \in 1..Lives /\ NextLife \in Nat /\ state'.owner = NextLife
  BY <1>1, NextLifeIs, CoordinatorAssumption DEF TypeOK, States
<1>3. /\ Faithful(call[p].src) /\ call[p].src.rev = Revision /\ state.known /\ state.owner = NoOne
  BY <1>1 DEF IInv, Preparation, Sound
<1>4. ~tear.torn /\ ~OpenTurn(disk) /\ disk \in Logs
  BY <1>1, <1>3 DEF IInv, Ownership, TypeOK
<1>5. call[p].src.events = disk
  <2>1. Stored = disk
    BY <1>1, <1>3, <1>4, SourceIs
  <2>2. ~NeedsRepair(call[p].src)
    BY <1>1, <1>3, <1>4, <2>1, SourceIs
  <2> QED BY <1>1, <1>3, <2>2, SourceIs
<1>6. Sane(disk) /\ \A i \in 1..Len(disk) : disk[i].by <= NextLife
  BY <1>1, <1>4, DiskStorable, EarlierAuthors
<1>7. log \in Logs /\ Sane(log) /\ \A i \in 1..Len(log) : log[i].by <= NextLife
  <2>1. CASE extra
    <3>1. log = disk \o <<Ev("note", NextLife)>>
      BY <2>1, <1>5
    <3> HIDE DEF log
    <3> QED BY <1>2, <1>4, <1>6, <3>1, NoteFollows
  <2>2. CASE ~extra
    <3>1. log = disk \o <<>> /\ disk \o <<>> = disk
      BY <2>2, <1>4, <1>5, ConcatEmptySeq DEF Logs
    <3> HIDE DEF log
    <3> QED BY <1>4, <1>6, <3>1
  <2> QED BY <2>1, <2>2
<1> HIDE DEF log
<1>8. s \in Sessions /\ s.stage = "live" /\ s.log = log
  BY <1>7 DEF Sessions
<1> HIDE DEF s
<1> QED BY <1>1, <1>2, <1>7, <1>8, BornStored

(* At first nothing is stored.                                             *)
LEMMA InitStored == Init => StoredInv
<1> SUFFICES ASSUME Init PROVE StoredInv
  OBVIOUS
<1>1. disk = <<>> /\ acked = <<>> /\ tear.holds = <<>> /\ store = NoOne
      /\ \A l \in 1..Lives : sess[l].log = <<>> /\ sess[l].init = "none"
  BY DEF Init, Clean, Unborn
<1>2. <<>> \in Logs /\ 1..Len(<<>>) = {} /\ Len(<<>>) = 0
  BY BareSource
<1>3. Stored = <<>>
  BY <1>1, ConcatEmptySeq DEF Stored
<1>4. Sane(<<>>) /\ Begins(<<>>, <<>>)
  BY <1>2, BeginsSelf DEF Sane
<1>5. Storable(<<>>, Now)
  BY <1>1, <1>2, <1>4, NowIs DEF Storable
<1>6. \A l \in 1..Lives : \A i \in 1..Len(sess[l].log) : sess[l].log[i].by <= l
  BY <1>1, <1>2
<1> QED BY <1>1, <1>3, <1>4, <1>5, <1>6 DEF StoredInv

(* What is stored may be, after any step.                                  *)
LEMMA StepStored ==
  ASSUME IInv, IInv', StoredInv, FreshInv, [Next]_vars
  PROVE  StoredInv'
<1>1. ASSUME UNCHANGED vars PROVE StoredInv'
  BY <1>1, StoredSame DEF vars, storage
<1>2. ASSUME NEW p \in Callers,
             (\E op \in Calls : Begin(p, op)) \/ CallerSteps(p) \/ Abort(p)
      PROVE  StoredInv'
  <2>1. UNCHANGED <<storage, state, sess, store>>
    BY <1>2 DEF CallerSteps, Begin, AwaitRetirement, MeetLive, LoadLive, FlushRejected, Join,
                Reserve, InspectJoined, Abort
  <2> QED BY <2>1, StoredSame
<1>3. ASSUME NEW p \in Callers, HolderSteps(p) PROVE StoredInv'
  <2>1. ASSUME NEW reusable \in BOOLEAN, ReleaseReservation(p, reusable) PROVE StoredInv'
    <3>1. UNCHANGED <<storage, state, sess, store>>
      BY <2>1 DEF ReleaseReservation
    <3> QED BY <3>1, StoredSame
  <2> QED BY <1>3, <2>1, AttachPreparedStored DEF HolderSteps
<1>4. ASSUME ChainSteps PROVE StoredInv'
  <2>1. CASE ReadDone \/ CommitStarts \/ CommitOutdated \/ CommitStartsRepair \/ InspectChecked
    <3>1. UNCHANGED <<storage, state, sess, store>>
      BY <2>1 DEF ReadDone, CommitStarts, CommitOutdated, CommitStartsRepair, InspectChecked
    <3> QED BY <3>1, StoredSame
  <2> QED BY <1>4, <2>1, CommitDoneStored, CommitRepairedStored, WriteStartsStored,
             AdoptRepairsStored, AdoptDoneStored, WriteDoneStored, ClaimTrackedStored,
             AdoptLivePrefixStored, CreateNewStored, ReleasedStored DEF ChainSteps
<1>5. ASSUME WriteRefused PROVE StoredInv'
  <2>1. IsWrite /\ (Rejects \/ UNCHANGED sess) /\ UNCHANGED <<storage, state, store>>
    BY <1>5 DEF WriteRefused, Requeued
  <2> QED BY <2>1, RejectsStored, StoredSame
<1>6. ASSUME NEW l \in 1..Lives, LifeSteps(l) PROVE StoredInv'
  <2>1. CASE QueueBatch(l) \/ QueueRelease(l)
    <3>1. UNCHANGED <<storage, state, sess, store>>
      BY <2>1 DEF QueueBatch, QueueRelease
    <3> QED BY <3>1, StoredSame
  <2> QED BY <1>6, <2>1, RetireFailsStored DEF LifeSteps
<1>7. ASSUME Evict PROVE StoredInv'
  <2>1. UNCHANGED <<storage, state, sess, store>>
    BY <1>7 DEF Evict
  <2> QED BY <2>1, StoredSame
<1> QED BY <1>1, <1>2, <1>3, <1>4, <1>5, <1>6, <1>7, CommitRepairFailsStored, CreateStored,
           EmitStored, DisposeStored, ReloadStored, ForeignStored, CrashStored DEF Next

-----------------------------------------------------------------------------
(* The order of commits and reads.                                         *)

(* It is that of any operations whose kinds another chain has in order.    *)
LEMMA OrderedMaps ==
  ASSUME NEW ch, NEW t, Ordered(ch), NEW f,
         \A i \in DOMAIN t : f[i] \in DOMAIN ch /\ t[i].op = ch[f[i]].op
                             /\ (t[i].current => ch[f[i]].current),
         \A i, j \in DOMAIN t : i < j => f[i] < f[j]
  PROVE  Ordered(t)
  BY DEF Ordered

(* The first operation leaves, or another takes its place.                 *)
LEMMA OrderedPops ==
  ASSUME NEW ch \in Seq(Ops), ch # <<>>, Ordered(ch)
  PROVE  /\ Ordered(Tail(ch))
         /\ \A i \in DOMAIN Tail(ch) : i + 1 \in DOMAIN ch /\ i + 1 # 1 /\ Tail(ch)[i] = ch[i + 1]
         /\ \A o \in Ops : o.op # "read" => Ordered(<<o>> \o Tail(ch)) /\ (<<o>> \o Tail(ch))[1] = o
<1> DEFINE t == Tail(ch)
<1>1. /\ t \in Seq(Ops) /\ Len(t) = Len(ch) - 1
      /\ \A i \in 1..Len(t) : t[i] = ch[i + 1]
      /\ Len(ch) \in Nat /\ DOMAIN ch = 1..Len(ch) /\ DOMAIN t = 1..Len(t)
  BY HeadTailProperties, LenProperties
<1> HIDE DEF t
<1>2. \A i \in DOMAIN t : i + 1 \in DOMAIN ch /\ i + 1 # 1 /\ t[i] = ch[i + 1] /\ i \in Nat
  BY <1>1
<1>3. Ordered(t)
  <2> DEFINE f == [i \in DOMAIN t |-> i + 1]
  <2>1. \A i \in DOMAIN t : f[i] \in DOMAIN ch /\ t[i].op = ch[f[i]].op
                            /\ (t[i].current => ch[f[i]].current)
    BY <1>2
  <2>2. \A i, j \in DOMAIN t : i < j => f[i] < f[j]
    BY <1>2
  <2> HIDE DEF f
  <2> QED BY <2>1, <2>2, OrderedMaps
<1>4. ASSUME NEW o \in Ops, o.op # "read"
      PROVE  Ordered(<<o>> \o t) /\ (<<o>> \o t)[1] = o
  <2> DEFINE u == <<o>> \o t
  <2>1. <<o>> \in Seq(Ops) /\ Len(<<o>>) = 1 /\ <<o>>[1] = o
    OBVIOUS
  <2>2. /\ u \in Seq(Ops) /\ Len(u) = 1 + Len(t)
        /\ \A i \in 1..(1 + Len(t)) : u[i] = IF i <= 1 THEN <<o>>[i] ELSE t[i - 1]
    BY <1>1, <2>1, ConcatProperties
  <2> HIDE DEF u
  <2>3. DOMAIN u = 1..(1 + Len(t)) /\ Len(t) \in Nat
    BY <1>1, <2>2, LenProperties
  <2>4. u[1] = o
    <3>1. 1 \in 1..(1 + Len(t)) /\ 1 <= 1
      BY <2>3
    <3> QED BY <2>1, <2>2, <3>1
  <2>5. \A i \in DOMAIN u : i # 1 => i - 1 \in DOMAIN t /\ u[i] = t[i - 1] /\ i \in Nat
    BY <1>1, <2>2, <2>3
  <2>6. ASSUME NEW i \in DOMAIN u, NEW j \in DOMAIN u, i < j, u[i].op = "read", u[i].current
        PROVE  u[j].op # "commit"
    <3>1. i # 1
      BY <1>4, <2>4, <2>6
    <3>2. j # 1 /\ i \in Nat /\ j \in Nat
      BY <2>3, <2>6
    <3>3. i - 1 \in DOMAIN t /\ j - 1 \in DOMAIN t /\ i - 1 < j - 1 /\ u[i] = t[i - 1]
          /\ u[j] = t[j - 1]
      BY <2>5, <2>6, <3>1, <3>2
    <3> QED BY <1>3, <2>6, <3>3 DEF Ordered
  <2>7. Ordered(u)
    BY <2>6 DEF Ordered
  <2> QED BY <2>4, <2>7 DEF u
<1> QED BY <1>2, <1>3, <1>4 DEF t

(* An operation is queued.                                                 *)
LEMMA OrderedGrows ==
  ASSUME NEW ch \in Seq(Ops), NEW o \in Ops, Ordered(ch),
         o.op = "commit" => \A i \in DOMAIN ch : ~(ch[i].op = "read" /\ ch[i].current)
  PROVE  /\ Ordered(Append(ch, o)) /\ Append(ch, o) # <<>>
         /\ \A i \in DOMAIN Append(ch, o) :
              \/ i \in DOMAIN ch /\ Append(ch, o)[i] = ch[i]
              \/ i \notin DOMAIN ch /\ Append(ch, o)[i] = o
         /\ ch = <<>> => Append(ch, o)[1] = o
         /\ ch # <<>> => Append(ch, o)[1] = ch[1]
<1> DEFINE t == Append(ch, o)
<1>1. /\ t \in Seq(Ops) /\ Len(t) = Len(ch) + 1 /\ t[Len(ch) + 1] = o
      /\ \A i \in 1..Len(ch) : t[i] = ch[i]
  BY AppendProperties
<1>2. Len(ch) \in Nat /\ DOMAIN ch = 1..Len(ch) /\ DOMAIN t = 1..(Len(ch) + 1)
  BY <1>1, LenProperties
<1> HIDE DEF t
<1>3. \A i \in DOMAIN t : (i \in DOMAIN ch /\ t[i] = ch[i])
                          \/ (i = Len(ch) + 1 /\ i \notin DOMAIN ch /\ t[i] = o)
  BY <1>1, <1>2
<1>4. Ordered(t)
  <2> SUFFICES ASSUME NEW i \in DOMAIN t, NEW j \in DOMAIN t, i < j, t[i].op = "read", t[i].current
               PROVE  t[j].op # "commit"
    BY DEF Ordered
  <2>1. i \in DOMAIN ch /\ t[i] = ch[i]
    BY <1>2, <1>3
  <2> QED BY <2>1, <1>3 DEF Ordered
<1>5. t # <<>> /\ (ch = <<>> => t[1] = o) /\ (ch # <<>> => t[1] = ch[1])
  BY <1>1, <1>2, EmptySeq, LenProperties
<1> QED BY <1>3, <1>4, <1>5 DEF t

(* The first operation moves to its next stage.                            *)
LEMMA OrderedStarts ==
  ASSUME NEW ch \in Seq(Ops), ch # <<>>, NEW stage, Ordered(ch)
  PROVE  LET t == [ch EXCEPT ![1].stage = stage] IN
         /\ Ordered(t) /\ DOMAIN t = DOMAIN ch /\ t[1].stage = stage /\ t # <<>>
         /\ \A i \in DOMAIN t : t[i].op = ch[i].op /\ t[i].who = ch[i].who
<1> DEFINE t == [ch EXCEPT ![1].stage = stage]
<1>1. Len(ch) \in Nat /\ DOMAIN ch = 1..Len(ch) /\ 1 \in 1..Len(ch) /\ ch \in [1..Len(ch) -> Ops]
  BY LenProperties, EmptySeq
<1>2. DOMAIN t = DOMAIN ch /\ \A i \in DOMAIN ch : i # 1 => t[i] = ch[i]
  BY <1>1
<1>3. /\ t[1].stage = stage /\ t[1].op = ch[1].op /\ t[1].who = ch[1].who
      /\ t[1].current = ch[1].current
  BY <1>1 DEF Ops
<1> HIDE DEF t
<1>4. \A i \in DOMAIN t : t[i].op = ch[i].op /\ t[i].who = ch[i].who /\ t[i].current = ch[i].current
  BY <1>2, <1>3
<1>5. Ordered(t)
  BY <1>2, <1>4 DEF Ordered
<1>6. t # <<>>
  BY <1>1, <1>2
<1> QED BY <1>2, <1>3, <1>4, <1>5, <1>6 DEF t

(* A queued operation is withdrawn.                                        *)
LEMMA OrderedLoses ==
  ASSUME NEW ch \in Seq(Ops), NEW k \in DOMAIN ch, Ordered(ch)
  PROVE  LET t == RemoveAt(ch, k) IN
         /\ Ordered(t)
         /\ \A i \in DOMAIN t : \E j \in DOMAIN ch : j # k /\ t[i] = ch[j] /\ (j = 1 => i = 1)
         /\ k # 1 => t # <<>> /\ t[1] = ch[1]
         /\ k = 1 /\ t # <<>> => \E j \in DOMAIN ch : j # 1 /\ t[1] = ch[j]
<1> DEFINE t == RemoveAt(ch, k)
           a == SubSeq(ch, 1, k - 1)
           b == SubSeq(ch, k + 1, Len(ch))
           f == [i \in DOMAIN t |-> IF i < k THEN i ELSE i + 1]
<1>1. Len(ch) \in Nat /\ DOMAIN ch = 1..Len(ch) /\ ch \in [1..Len(ch) -> Ops] /\ k \in 1..Len(ch)
  BY LenProperties
<1>2. /\ a \in Seq(Ops) /\ Len(a) = k - 1 /\ \A i \in 1..(k - 1) : a[i] = ch[i]
  <2>1. 1 \in Int /\ k - 1 \in Int /\ \A i \in 1..(k - 1) : ch[i] \in Ops
    BY <1>1
  <2>2. /\ a \in Seq(Ops) /\ Len(a) = IF 1 <= k - 1 THEN (k - 1) - 1 + 1 ELSE 0
        /\ \A i \in 1..((k - 1) - 1 + 1) : a[i] = ch[1 + i - 1]
    BY <2>1, SubSeqProperties
  <2> HIDE DEF a
  <2> QED BY <2>2, <1>1
<1>3. /\ b \in Seq(Ops) /\ Len(b) = Len(ch) - k /\ \A i \in 1..(Len(ch) - k) : b[i] = ch[k + i]
  <2>1. k + 1 \in Int /\ Len(ch) \in Int /\ \A i \in (k + 1)..Len(ch) : ch[i] \in Ops
    BY <1>1
  <2>2. /\ b \in Seq(Ops) /\ Len(b) = IF k + 1 <= Len(ch) THEN Len(ch) - (k + 1) + 1 ELSE 0
        /\ \A i \in 1..(Len(ch) - (k + 1) + 1) : b[i] = ch[(k + 1) + i - 1]
    BY <2>1, SubSeqProperties
  <2> HIDE DEF b
  <2>3. Len(b) = Len(ch) - k /\ Len(ch) - (k + 1) + 1 = Len(ch) - k
    BY <2>2, <1>1
  <2>4. \A i \in 1..(Len(ch) - k) : b[i] = ch[k + i]
    <3> TAKE i \in 1..(Len(ch) - k)
    <3>1. (k + 1) + i - 1 = k + i
      BY <1>1
    <3> QED BY <3>1, <2>2, <2>3
  <2> QED BY <2>2, <2>3, <2>4
<1>4. t = a \o b
  BY DEF RemoveAt
<1>10. \A i \in DOMAIN t : f[i] = IF i < k THEN i ELSE i + 1
  OBVIOUS
<1> HIDE DEF a, b, t, f
<1>5. /\ t \in Seq(Ops) /\ Len(t) = Len(a) + Len(b)
      /\ \A i \in 1..(Len(a) + Len(b)) : t[i] = IF i <= Len(a) THEN a[i] ELSE b[i - Len(a)]
  <2>1. a \in Seq(Ops) /\ b \in Seq(Ops)
    BY <1>2, <1>3
  <2> QED BY <2>1, <1>4, ConcatProperties
<1>6. DOMAIN t = 1..(Len(ch) - 1)
  BY <1>1, <1>2, <1>3, <1>5, LenProperties
<1>7. \A i \in DOMAIN t : f[i] \in DOMAIN ch /\ f[i] # k /\ t[i] = ch[f[i]] /\ (f[i] = 1 => i = 1)
  <2> SUFFICES ASSUME NEW i \in DOMAIN t
               PROVE  f[i] \in DOMAIN ch /\ f[i] # k /\ t[i] = ch[f[i]] /\ (f[i] = 1 => i = 1)
    OBVIOUS
  <2>1. CASE i < k
    BY <2>1, <1>1, <1>2, <1>3, <1>5, <1>6, <1>10
  <2>2. CASE ~(i < k)
    <3>1. i - (k - 1) \in 1..(Len(ch) - k) /\ k + (i - (k - 1)) = i + 1 /\ ~(i <= k - 1)
      BY <2>2, <1>1, <1>6
    <3>2. t[i] = b[i - (k - 1)]
      <4>1. Len(a) = k - 1 /\ Len(b) = Len(ch) - k
        BY <1>1, <1>2, <1>3
      <4>2. i \in 1..(Len(a) + Len(b)) /\ ~(i <= Len(a))
        BY <4>1, <3>1, <1>1, <1>6
      <4>3. t[i] = b[i - Len(a)]
        BY <4>2, <1>5
      <4> QED BY <4>1, <4>3
    <3> QED BY <2>2, <3>1, <3>2, <1>1, <1>3, <1>6, <1>10
  <2> QED BY <2>1, <2>2
<1>8. \A i, j \in DOMAIN t : i < j => f[i] < f[j]
  BY <1>1, <1>6, <1>10
<1>9. Ordered(t)
  BY <1>7, <1>8, OrderedMaps
<1>11. ASSUME k # 1 PROVE t # <<>> /\ t[1] = ch[1]
  <2>1. 1 \in DOMAIN t /\ 1 < k
    BY <1>1, <1>6, <1>11
  <2> QED BY <2>1, <1>5, <1>7, <1>10
<1>12. ASSUME k = 1, t # <<>> PROVE \E j \in DOMAIN ch : j # 1 /\ t[1] = ch[j]
  <2>1. 1 \in DOMAIN t
    BY <1>1, <1>5, <1>6, <1>12, EmptySeq, LenProperties
  <2> QED BY <2>1, <1>7, <1>12
<1> QED BY <1>7, <1>9, <1>11, <1>12 DEF t

-----------------------------------------------------------------------------
(* The freshness of what the preparation shows.                            *)

(* Nobody is shown anything.                                               *)
LEMMA FreshBare ==
  ASSUME Unread', Ordered(chain'), Repairs'
  PROVE  FreshInv'
<1>1. entry'.phase \in {"none", "loading"}
  BY DEF Unread
<1> QED BY <1>1 DEF FreshInv, Unread

(* After the first operation has ended, nobody repairs or adopts.          *)
LEMMA Popped ==
  ASSUME IInv, FreshInv, chain # <<>>, chain' = Tail(chain)
  PROVE  /\ Ordered(chain') /\ Repairs'
         /\ (chain' # <<>> => chain'[1].stage = "queued")
         /\ \A i \in DOMAIN chain' : /\ i + 1 \in DOMAIN chain /\ i + 1 # 1
                                     /\ chain'[i] = chain[i + 1]
<1>1. chain \in Seq(Ops) /\ Ordered(chain)
  BY DEF IInv, TypeOK, FreshInv
<1>2. Ordered(chain') /\ \A i \in DOMAIN chain' : /\ i + 1 \in DOMAIN chain /\ i + 1 # 1
                                                  /\ chain'[i] = chain[i + 1]
  BY <1>1, OrderedPops
<1>3. chain' # <<>> => 1 \in DOMAIN chain'
  BY <1>1, HeadTailProperties, EmptySeq, LenProperties
<1>4. chain' # <<>> => chain'[1].stage = "queued"
  BY <1>2, <1>3, FirstIs
<1> QED BY <1>2, <1>4 DEF Repairs

(* The first operation ends while nothing is shown.                        *)
LEMMA FreshPopped ==
  ASSUME IInv, FreshInv, chain # <<>>, chain' = Tail(chain), Unread'
  PROVE  FreshInv'
  BY Popped, FreshBare

(* An operation ends that is no commit, and the preparation stays.         *)
LEMMA FreshPassed ==
  ASSUME IInv, FreshInv, chain # <<>>, chain' = Tail(chain), Head(chain).op # "commit",
         UNCHANGED <<disk, tear, entry>>, state'.known => state.known,
         \A q \in Callers : call[q].at = "commit" => call'[q].attached = call[q].attached
  PROVE  FreshInv'
<1>1. /\ Ordered(chain') /\ Repairs'
      /\ (chain' # <<>> => chain'[1].stage = "queued")
      /\ \A i \in DOMAIN chain' : /\ i + 1 \in DOMAIN chain /\ i + 1 # 1
                                  /\ chain'[i] = chain[i + 1]
  BY Popped
<1>3. Fresh(entry.src)' <=> Fresh(entry.src)
  BY DEF Fresh, Revision
<1>4. ASSUME NEW i \in DOMAIN chain', Detached(chain'[i], call') PROVE Unread'
  <2>1. i + 1 \in DOMAIN chain /\ chain'[i] = chain[i + 1] /\ Fits(chain[i + 1], Now)
    BY <1>1, FirstIs
  <2>2. chain[i + 1].op = "commit" /\ ~call'[chain[i + 1].who].attached
    BY <1>4, <2>1 DEF Detached
  <2>3. chain[i + 1].who \in Callers /\ call[chain[i + 1].who].at = "commit"
    BY <2>1, <2>2, NowIs DEF Fits
  <2>4. Detached(chain[i + 1], call)
    BY <2>2, <2>3 DEF Detached
  <2> QED BY <2>1, <2>4 DEF FreshInv, Unread
<1>5. entry.phase = "committing" => Fresh(entry.src)
  <2>1. chain[1].op # "commit"
    BY FirstIs
  <2> QED BY <2>1 DEF FreshInv
<1> QED BY <1>1, <1>3, <1>4, <1>5 DEF FreshInv

(* Callers move and operations are queued or withdrawn beside the first.   *)
LEMMA FreshAside ==
  ASSUME IInv, FreshInv, UNCHANGED <<disk, tear, entry>>, state'.known => state.known,
         Ordered(chain'),
         chain' # <<>> => (chain # <<>> /\ chain'[1] = chain[1]) \/ chain'[1].stage = "queued",
         chain # <<>> /\ chain[1].op = "commit" => (chain' # <<>> /\ chain'[1] = chain[1])
                                                   \/ Detached(chain[1], call),
         \A i \in DOMAIN chain' :
           chain'[i].op = "commit" => \E j \in DOMAIN chain : chain[j] = chain'[i],
         \A q \in Callers : call[q].at = "commit" => call'[q].attached = call[q].attached,
         chain' # <<>> /\ chain'[1].stage = "repairing" =>
           call'[chain'[1].who].src = call[chain'[1].who].src
  PROVE  FreshInv'
<1>1. Fresh(entry.src)' <=> Fresh(entry.src)
  BY DEF Fresh, Revision
<1>2. ASSUME NEW o, o.op = "commit", Fits(o, Now)
      PROVE  Detached(o, call') <=> Detached(o, call)
  <2>1. o.who \in Callers /\ call[o.who].at = "commit"
    BY <1>2, NowIs DEF Fits
  <2> QED BY <2>1 DEF Detached
<1>3. \A j \in DOMAIN chain : Fits(chain[j], Now)
  BY DEF IInv, ChainInv, Chained
<1>4. ASSUME NEW i \in DOMAIN chain', Detached(chain'[i], call') PROVE Unread'
  <2>1. chain'[i].op = "commit"
    BY <1>4 DEF Detached
  <2>2. PICK j \in DOMAIN chain : chain[j] = chain'[i]
    BY <2>1
  <2>3. Detached(chain[j], call') /\ chain[j].op = "commit" /\ Fits(chain[j], Now)
    BY <1>3, <1>4, <2>1, <2>2 DEF Detached
  <2>4. Detached(chain[j], call)
    BY <2>3, <1>2
  <2> QED BY <2>4 DEF FreshInv, Unread
<1>5. ASSUME chain' # <<>>, chain'[1].stage = "adopting" PROVE Unread'
  BY <1>5 DEF FreshInv, Unread
<1>6. ASSUME entry.phase = "committing", ~Fresh(entry.src)
      PROVE  chain' # <<>> /\ chain'[1].op = "commit" /\ ~Detached(chain'[1], call')
  <2>1. chain # <<>> /\ chain[1].op = "commit" /\ ~Detached(chain[1], call)
    BY <1>6 DEF FreshInv
  <2>2. chain' # <<>> /\ chain'[1] = chain[1]
    BY <2>1
  <2>3. Fits(chain[1], Now)
    BY <2>1, FirstIs
  <2>4. ~Detached(chain[1], call')
    BY <2>1, <2>3, <1>2
  <2> QED BY <2>1, <2>2, <2>4 DEF Detached
<1>7. Repairs'
  <2> SUFFICES ASSUME chain' # <<>>, chain'[1].stage = "repairing"
               PROVE  call'[chain'[1].who].src.rev = <<disk', tear'>>
    BY DEF Repairs, Fresh, Revision
  <2>1. chain # <<>> /\ chain'[1] = chain[1]
    OBVIOUS
  <2>2. Fresh(call[chain[1].who].src)
    BY <2>1 DEF FreshInv, Repairs
  <2> QED BY <2>1, <2>2 DEF Fresh, Revision
<1> QED BY <1>1, <1>4, <1>5, <1>6, <1>7 DEF FreshInv

(* Nothing moves but callers that have no commit queued.                   *)
LEMMA FreshElsewhere ==
  ASSUME IInv, FreshInv, UNCHANGED <<disk, tear, entry, chain>>, state'.known => state.known,
         \A q \in Callers : call[q].at = "commit" =>
           call'[q].attached = call[q].attached /\ call'[q].src = call[q].src
  PROVE  FreshInv'
<1>1. chain # <<>> /\ chain[1].stage = "repairing" =>
        call'[chain[1].who].src = call[chain[1].who].src
  <2> SUFFICES ASSUME chain # <<>>, chain[1].stage = "repairing"
               PROVE  call'[chain[1].who].src = call[chain[1].who].src
    OBVIOUS
  <2>1. Fits(chain[1], Now) /\ chain[1].op = "commit"
    BY FirstIs DEF Runs
  <2> QED BY <2>1, NowIs DEF Fits
<1>2. Ordered(chain')
  BY DEF FreshInv
<1> QED BY <1>1, <1>2, FreshAside

(* What is queued is an operation.                                         *)
LEMMA AppendedIs ==
  ASSUME TypeOK, TypeOK', NEW o, chain' = Append(chain, o)
  PROVE  o \in Ops
<1>1. chain \in Seq(Ops) /\ Append(chain, o) \in Seq(Ops)
  BY DEF TypeOK
<1>2. Len(chain) + 1 \in 1..Len(Append(chain, o)) /\ Append(chain, o)[Len(chain) + 1] = o
  BY <1>1
<1>3. Append(chain, o) \in [1..Len(Append(chain, o)) -> Ops]
  BY <1>1, LenProperties
<1> QED BY <1>2, <1>3

(* An operation is queued that is no commit.                               *)
LEMMA FreshQueued ==
  ASSUME IInv, IInv', FreshInv, UNCHANGED <<disk, tear, entry>>, state'.known => state.known,
         NEW o, o.op # "commit", o.stage = "queued", chain' = Append(chain, o),
         \A q \in Callers : call[q].at = "commit" =>
           call'[q].attached = call[q].attached /\ call'[q].src = call[q].src
  PROVE  FreshInv'
<1>1. chain \in Seq(Ops) /\ Ordered(chain) /\ o \in Ops
  BY AppendedIs DEF IInv, TypeOK, FreshInv
<1>2. /\ Ordered(chain') /\ chain' # <<>>
      /\ \A i \in DOMAIN chain' : (i \in DOMAIN chain /\ chain'[i] = chain[i]) \/ chain'[i] = o
      /\ chain = <<>> => chain'[1] = o
      /\ chain # <<>> => chain'[1] = chain[1]
  BY <1>1, OrderedGrows
<1>3. chain'[1].stage = "repairing" => call'[chain'[1].who].src = call[chain'[1].who].src
  <2> SUFFICES ASSUME chain'[1].stage = "repairing"
               PROVE  call'[chain'[1].who].src = call[chain'[1].who].src
    OBVIOUS
  <2>1. chain # <<>> /\ chain'[1] = chain[1]
    BY <1>2
  <2>2. Fits(chain[1], Now) /\ chain[1].op = "commit"
    BY <2>1, FirstIs DEF Runs
  <2> QED BY <2>1, <2>2, NowIs DEF Fits
<1> QED BY <1>2, <1>3, FreshAside

(* The first operation goes on.                                            *)
LEMMA FreshStarted ==
  ASSUME IInv, FreshInv, UNCHANGED <<disk, tear, entry, state, call>>, chain # <<>>,
         NEW stage \in {"checking", "repairing", "writing"},
         chain' = [chain EXCEPT ![1].stage = stage],
         stage = "repairing" => Fresh(call[chain[1].who].src)
  PROVE  FreshInv'
<1> DEFINE t == [chain EXCEPT ![1].stage = stage]
<1>1. chain \in Seq(Ops) /\ Ordered(chain) /\ 1 \in DOMAIN chain
  BY FirstIs DEF IInv, TypeOK, FreshInv
<1>2. /\ Ordered(chain') /\ DOMAIN chain' = DOMAIN chain /\ chain'[1].stage = stage /\ chain' # <<>>
      /\ \A i \in DOMAIN chain : chain'[i].op = chain[i].op /\ chain'[i].who = chain[i].who
  <2>1. /\ Ordered(t) /\ DOMAIN t = DOMAIN chain /\ t[1].stage = stage /\ t # <<>>
        /\ \A i \in DOMAIN t : t[i].op = chain[i].op /\ t[i].who = chain[i].who
    BY ONLY <1>1, chain # <<>>, OrderedStarts
  <2>2. chain' = t
    OBVIOUS
  <2> HIDE DEF t
  <2> QED BY ONLY <2>1, <2>2
<1>3. \A i \in DOMAIN chain : Detached(chain'[i], call') <=> Detached(chain[i], call)
  BY <1>2 DEF Detached
<1>4. Fresh(entry.src)' <=> Fresh(entry.src)
  BY DEF Fresh, Revision
<1>5. Repairs'
  <2> SUFFICES ASSUME stage = "repairing" PROVE call'[chain'[1].who].src.rev = <<disk', tear'>>
    BY <1>2 DEF Repairs, Fresh, Revision
  <2>1. call'[chain'[1].who].src = call[chain[1].who].src
    BY <1>1, <1>2
  <2> QED BY <2>1 DEF Fresh, Revision
<1> QED BY <1>1, <1>2, <1>3, <1>4, <1>5 DEF FreshInv, Unread

(* A caller moves that has no commit queued.                               *)
LEMMA FreshCaller ==
  ASSUME IInv, FreshInv, NEW p \in Callers, call[p].at # "commit",
         \A q \in Callers : q # p => call'[q] = call[q],
         UNCHANGED <<storage, state, entry, chain>>
  PROVE  FreshInv'
<1>1. \A q \in Callers : call[q].at = "commit" =>
           call'[q].attached = call[q].attached /\ call'[q].src = call[q].src
  OBVIOUS
<1>2. UNCHANGED <<disk, tear, entry, chain>> /\ (state'.known => state.known)
  BY DEF storage
<1> QED BY <1>1, <1>2, FreshElsewhere

(* A caller that only waits or returns shows and queues nothing.           *)
LEMMA CallerStepsFresh ==
  ASSUME IInv, FreshInv, NEW p \in Callers,
         AwaitRetirement(p) \/ MeetLive(p) \/ LoadLive(p) \/ FlushRejected(p)
  PROVE  FreshInv'
<1>1. /\ call \in [Callers -> CallStates] /\ call[p].at # "commit"
      /\ UNCHANGED <<storage, state, entry, chain>>
  BY DEF IInv, TypeOK, AwaitRetirement, MeetLive, LoadLive, FlushRejected
<1>2. \A q \in Callers : q # p => call'[q] = call[q]
  <2>1. CASE AwaitRetirement(p)
    BY <1>1, <2>1 DEF AwaitRetirement, Rejected, To
  <2>2. CASE MeetLive(p)
    <3>1. call[p].op \in {"prepare", "load", "inspect"}
      BY <2>2 DEF MeetLive, IInv, Preparation, Sound
    <3> QED BY <1>1, <2>2, <3>1 DEF MeetLive, Rejected, Answer
  <2>3. CASE LoadLive(p)
    BY <1>1, <2>3 DEF LoadLive, Rejected, To
  <2>4. CASE FlushRejected(p)
    BY <1>1, <2>4 DEF FlushRejected, Rejected
  <2> QED BY <2>1, <2>2, <2>3, <2>4
<1> QED BY <1>1, <1>2, FreshCaller

(* A Session queues its write or its release.                              *)
LEMMA QueueFresh ==
  ASSUME IInv, IInv', FreshInv, UNCHANGED <<storage, state, entry, call>>,
         NEW o, o.op # "commit", o.stage = "queued", chain' = Append(chain, o)
  PROVE  FreshInv'
<1>1. UNCHANGED <<disk, tear, entry>> /\ (state'.known => state.known)
  BY DEF storage
<1> QED BY <1>1, FreshQueued

(* A call begins.                                                          *)
LEMMA BeginFresh ==
  ASSUME IInv, IInv', FreshInv, NEW p \in Callers, NEW op \in Calls, Begin(p, op)
  PROVE  FreshInv'
<1>1. /\ call \in [Callers -> CallStates] /\ call[p].at # "commit"
      /\ UNCHANGED <<storage, state, entry>>
      /\ \A q \in Callers : q # p => call'[q] = call[q]
  BY DEF IInv, TypeOK, Begin, Over
<1> DEFINE o == Op("append", p, <<Len(Prepared.events), <<Ev("note", NoOne)>>>>)
<1>2. chain' = chain \/ chain' = Append(chain, o)
  BY DEF Begin
<1>3. CASE chain' = chain
  BY <1>1, <1>3, FreshCaller
<1>4. CASE chain' = Append(chain, o)
  <2>1. o.op # "commit" /\ o.stage = "queued"
    BY DEF Op
  <2> HIDE DEF o
  <2>2. \A q \in Callers : call[q].at = "commit" =>
           call'[q].attached = call[q].attached /\ call'[q].src = call[q].src
    BY <1>1
  <2>3. UNCHANGED <<disk, tear, entry>> /\ (state'.known => state.known)
    BY <1>1 DEF storage
  <2> QED BY <1>4, <2>1, <2>2, <2>3, FreshQueued
<1> QED BY <1>2, <1>3, <1>4

(* A call joins the preparation, or starts one with a read.                *)
LEMMA JoinFresh ==
  ASSUME IInv, IInv', FreshInv, NEW p \in Callers, Join(p)
  PROVE  FreshInv'
<1>1. /\ call \in [Callers -> CallStates] /\ call[p].at # "commit"
      /\ UNCHANGED <<storage, state>>
      /\ \A q \in Callers : q # p => call'[q] = call[q]
  BY DEF IInv, TypeOK, Join
<1>2. CASE entry.phase # "none"
  <2>1. UNCHANGED <<entry, chain>>
    BY <1>2 DEF Join
  <2> QED BY <1>1, <2>1, FreshCaller
<1>3. CASE entry.phase = "none"
  <2> DEFINE o == Op("read", NoOne, <<>>)
  <2>1. chain' = Append(chain, o) /\ entry' = [NoEntry EXCEPT !.phase = "loading"]
    BY <1>3 DEF Join
  <2>2. Unread'
    BY <2>1 DEF NoEntry, Unread
  <2>3. o.op = "read" /\ o.stage = "queued"
    BY DEF Op
  <2> HIDE DEF o
  <2>4. chain \in Seq(Ops) /\ Ordered(chain) /\ o \in Ops
    BY <2>1, AppendedIs DEF IInv, TypeOK, FreshInv
  <2>5. /\ Ordered(chain') /\ chain' # <<>>
        /\ chain = <<>> => chain'[1] = o
        /\ chain # <<>> => chain'[1] = chain[1]
    BY <2>1, <2>3, <2>4, OrderedGrows
  <2>6. Repairs'
    <3> SUFFICES ASSUME chain'[1].stage = "repairing"
                 PROVE  call'[chain'[1].who].src.rev = <<disk', tear'>>
      BY <2>5 DEF Repairs, Fresh, Revision
    <3>1. chain # <<>> /\ chain'[1] = chain[1]
      BY <2>3, <2>5
    <3>2. Fits(chain[1], Now) /\ chain[1].op = "commit"
      BY <3>1, FirstIs DEF Runs
    <3>3. chain[1].who \in Callers /\ chain[1].who # p
      BY <3>2, <1>1, NowIs DEF Fits
    <3> QED BY <3>1, <3>3, <1>1 DEF FreshInv, Repairs, Fresh, Revision, storage
  <2> QED BY <2>2, <2>5, <2>6, FreshBare
<1> QED BY <1>2, <1>3

(* An inspection reads the preparation, or queues its check.               *)
LEMMA InspectJoinedFresh ==
  ASSUME IInv, IInv', FreshInv, NEW p \in Callers, InspectJoined(p)
  PROVE  FreshInv'
<1>1. /\ call \in [Callers -> CallStates] /\ call[p].at # "commit"
      /\ UNCHANGED <<storage, state, entry>>
      /\ \A q \in Callers : q # p => call'[q] = call[q]
  BY DEF IInv, TypeOK, InspectJoined, Answer, To
<1> DEFINE o == Op("check", p, <<>>)
<1>2. chain' = chain \/ chain' = Append(chain, o)
  BY DEF InspectJoined
<1>3. CASE chain' = chain
  BY <1>1, <1>3, FreshCaller
<1>4. CASE chain' = Append(chain, o)
  <2>1. o.op # "commit" /\ o.stage = "queued"
    BY DEF Op
  <2> HIDE DEF o
  <2>2. \A q \in Callers : call[q].at = "commit" =>
           call'[q].attached = call[q].attached /\ call'[q].src = call[q].src
    BY <1>1
  <2>3. UNCHANGED <<disk, tear, entry>> /\ (state'.known => state.known)
    BY <1>1 DEF storage
  <2> QED BY <1>4, <2>1, <2>2, <2>3, FreshQueued
<1> QED BY <1>2, <1>3, <1>4

(* The read that a preparation waits for shows what is stored.             *)
LEMMA ReadDoneFresh ==
  ASSUME IInv, FreshInv, ReadDone
  PROVE  FreshInv'
<1>1. /\ chain # <<>> /\ Head(chain).op = "read" /\ chain' = Tail(chain) /\ Head(chain) = chain[1]
      /\ UNCHANGED <<storage, state>> /\ 1 \in DOMAIN chain /\ TypeOK
  BY FirstIs DEF ReadDone, Running, IInv
<1>2. CASE ~Head(chain).current
  <2>1. entry' = entry
    BY <1>2 DEF ReadDone
  <2>2. \A q \in Callers : call[q].at = "commit" => call'[q].attached = call[q].attached
    BY <1>1 DEF ReadDone, IInv, TypeOK
  <2>3. UNCHANGED <<disk, tear, entry>> /\ (state'.known => state.known)
    BY <1>1, <2>1 DEF storage
  <2> QED BY <1>1, <2>2, <2>3, FreshPassed
<1>3. CASE Head(chain).current /\ ~Exists
  <2>1. entry' = NoEntry
    BY <1>3 DEF ReadDone
  <2>2. Unread'
    BY <2>1, NoEntryIs DEF Unread
  <2> QED BY <1>1, <2>2, FreshPopped
<1>4. CASE Head(chain).current /\ Exists
  <2>1. entry' = [phase |-> "ready", src |-> Prepared]
    BY <1>4 DEF ReadDone
  <2>2. entry'.phase = "ready" /\ entry'.src.rev = <<disk', tear'>>
    BY <1>1, <2>1, PreparedSource DEF storage
  <2>3. /\ Ordered(chain') /\ Repairs'
        /\ (chain' # <<>> => chain'[1].stage = "queued")
        /\ \A i \in DOMAIN chain' : /\ i + 1 \in DOMAIN chain /\ i + 1 # 1
                                    /\ chain'[i] = chain[i + 1]
    BY <1>1, Popped
  <2>4. ASSUME NEW i \in DOMAIN chain' PROVE chain'[i].op # "commit"
    <3>1. i + 1 \in DOMAIN chain /\ i + 1 # 1 /\ chain'[i] = chain[i + 1]
      BY <2>3
    <3>2. 1 < i + 1
      <4>1. DOMAIN chain = 1..Len(chain) /\ Len(chain) \in Nat
        BY <1>1, LenProperties DEF TypeOK
      <4>2. \A j \in DOMAIN chain : j # 1 => 1 < j
        BY <4>1
      <4> QED BY <3>1, <4>2
    <3>3. Ordered(chain)
      BY DEF FreshInv
    <3> QED BY <1>1, <1>4, <3>1, <3>2, <3>3 DEF Ordered
  <2>5. ~\E i \in DOMAIN chain' : Detached(chain'[i], call')
    BY <2>4 DEF Detached
  <2> QED BY <2>2, <2>3, <2>5 DEF FreshInv, Fresh, Revision, Unread
<1> QED BY <1>2, <1>3, <1>4

(* The check of a stale preparation drops it.                              *)
LEMMA InspectCheckedFresh ==
  ASSUME IInv, FreshInv, InspectChecked
  PROVE  FreshInv'
<1>1. /\ chain # <<>> /\ Head(chain).op = "check" /\ chain' = Tail(chain)
      /\ UNCHANGED <<storage, state>> /\ call \in [Callers -> CallStates]
  BY DEF InspectChecked, Running, IInv, TypeOK
<1> DEFINE p == Head(chain).who
<1>2. p \in Callers /\ call[p].at = "check"
  BY <1>1, FirstIs, NowIs DEF Fits
<1>3. CASE entry' = NoEntry
  <2>1. Unread'
    BY <1>3, NoEntryIs DEF Unread
  <2> QED BY <1>1, <2>1, FreshPopped
<1>4. CASE entry' = entry /\ \E c \in {Again(call, p), Answer(call, p, call[p].src.events),
                                       Answer(call, p, Live.log)} : call' = c
  <2>1. \A q \in Callers : q # p => call'[q] = call[q]
    BY <1>1, <1>2, <1>4 DEF Again, Answer
  <2>2. \A q \in Callers : call[q].at = "commit" => call'[q].attached = call[q].attached
    BY <1>2, <2>1
  <2>3. UNCHANGED <<disk, tear, entry>> /\ (state'.known => state.known)
    BY <1>1, <1>4 DEF storage
  <2> QED BY <1>1, <2>2, <2>3, FreshPassed
<1> QED BY <1>3, <1>4 DEF InspectChecked

(* A reservation is taken on a preparation, or commits it.                 *)
LEMMA ReserveFresh ==
  ASSUME IInv, IInv', FreshInv, NEW p \in Callers, Reserve(p)
  PROVE  FreshInv'
<1>1. /\ call \in [Callers -> CallStates] /\ call[p].at # "commit" /\ TypeOK
      /\ UNCHANGED <<storage, state>> /\ Started
  BY DEF IInv, TypeOK, Reserve
<1>2. CASE /\ UNCHANGED <<entry, chain>>
           /\ \E c \in {Again(call, p), To(call, p, "asleep")} : call' = c
  <2>1. \A q \in Callers : q # p => call'[q] = call[q]
    BY <1>1, <1>2 DEF Again, To
  <2> QED BY <1>1, <1>2, <2>1, FreshCaller
<1> DEFINE o == Op("commit", p, <<>>)
<1>3. CASE /\ call[p].attached /\ entry.phase = "ready"
           /\ entry' = [entry EXCEPT !.phase = "committing"]
           /\ call' = [call EXCEPT ![p].at = "commit", ![p].src = entry.src]
           /\ chain' = Append(chain, o)
  <2>1. entry'.phase = "committing" /\ entry'.src = entry.src
    BY <1>1, <1>3 DEF TypeOK
  <2>2. /\ call'[p].attached /\ \A q \in Callers : q # p => call'[q] = call[q]
    BY <1>1, <1>3 DEF CallStates
  <2>3. o.op = "commit" /\ o.who = p /\ o.stage = "queued"
    BY DEF Op
  <2> HIDE DEF o
  <2>4. chain \in Seq(Ops) /\ Ordered(chain) /\ o \in Ops
    BY <1>3, AppendedIs DEF IInv, TypeOK, FreshInv
  <2>5. \A i \in DOMAIN chain : Fits(chain[i], Now)
    BY DEF IInv, ChainInv, Chained
  <2>6. \A i \in DOMAIN chain : ~(chain[i].op = "read" /\ chain[i].current)
    BY <1>3, <2>5, NowIs DEF Fits
  <2>7. /\ Ordered(chain') /\ chain' # <<>>
        /\ \A i \in DOMAIN chain' : (i \in DOMAIN chain /\ chain'[i] = chain[i]) \/ chain'[i] = o
        /\ chain = <<>> => chain'[1] = o
        /\ chain # <<>> => chain'[1] = chain[1]
    BY <1>3, <2>4, <2>6, OrderedGrows
  <2>8. \A i \in DOMAIN chain : ~Detached(chain[i], call)
    BY <1>3 DEF FreshInv, Unread
  <2>9. chain # <<>> => chain[1].stage = "writing"
    <3> SUFFICES ASSUME chain # <<>> PROVE chain[1].stage = "writing"
      OBVIOUS
    <3>1. /\ chain[1] \in Ops /\ chain[1].stage # "queued"
          /\ Runs(chain[1], Now) /\ Fits(chain[1], Now)
          /\ 1 \in DOMAIN chain /\ Head(chain) = chain[1]
      BY <1>1, FirstIs DEF Started
    <3>2. chain[1].stage # "adopting"
      BY <1>3 DEF FreshInv, Unread
    <3>3. chain[1].stage \notin {"checking", "repairing"}
      <4> SUFFICES ASSUME chain[1].op = "commit" PROVE FALSE
        BY <3>1 DEF Runs
      <4>1. call[chain[1].who].attached
        BY <2>8, <3>1 DEF Detached
      <4>2. entry.phase = "committing"
        BY <3>1, <4>1, CommitIs
      <4> QED BY <1>3, <4>2
    <3> QED BY <3>1, <3>2, <3>3 DEF Ops
  <2>10. \A i \in DOMAIN chain' : ~Detached(chain'[i], call')
    <3> SUFFICES ASSUME NEW i \in DOMAIN chain', Detached(chain'[i], call') PROVE FALSE
      OBVIOUS
    <3>1. i \in DOMAIN chain /\ chain'[i] = chain[i]
      BY <2>2, <2>3, <2>7 DEF Detached
    <3>2. chain[i].who # p /\ chain[i].who \in Callers
      BY <1>1, <2>5, <3>1, NowIs DEF Fits, Detached
    <3> QED BY <2>2, <2>8, <3>1, <3>2 DEF Detached
  <2>11. chain'[1].stage # "adopting" /\ Repairs'
    BY <2>3, <2>7, <2>9 DEF Repairs
  <2>12. entry.src.rev # <<disk', tear'>> => chain'[1].op = "commit" /\ ~Detached(chain'[1], call')
    <3> SUFFICES ASSUME entry.src.rev # <<disk', tear'>>
                 PROVE  chain'[1].op = "commit" /\ ~Detached(chain'[1], call')
      OBVIOUS
    <3>1. ~Fresh(entry.src)
      BY <1>1 DEF Fresh, Revision, storage
    <3>2. ~state.known
      BY <1>3, <3>1 DEF FreshInv
    <3>3. chain = <<>>
      BY <2>9, <3>2, FirstIs, NowIs DEF Runs
    <3> QED BY <2>2, <2>3, <2>7, <3>3 DEF Detached
  <2>13. state'.known => entry.src.rev = <<disk', tear'>>
    BY <1>1, <1>3 DEF FreshInv, Fresh, Revision, storage
  <2> QED BY <2>1, <2>7, <2>10, <2>11, <2>12, <2>13 DEF FreshInv, Fresh, Revision
<1> QED BY <1>2, <1>3 DEF Reserve

(* A commit ends, and its preparation with it.                             *)
LEMMA CommitGoes ==
  ASSUME IInv, FreshInv, chain # <<>>, chain' = Tail(chain), Head(chain).op = "commit",
         NEW c, Drop(Head(chain).who, c)
  PROVE  FreshInv'
<1>1. CASE call[Head(chain).who].attached
  <2>1. entry' = NoEntry
    BY <1>1 DEF Drop
  <2>2. Unread'
    BY <2>1, NoEntryIs DEF Unread
  <2> QED BY <2>2, FreshPopped
<1>2. CASE ~call[Head(chain).who].attached
  <2>1. entry' = entry /\ 1 \in DOMAIN chain /\ Detached(chain[1], call)
    BY <1>2, FirstIs DEF Drop, Detached
  <2>2. Unread'
    BY <2>1 DEF FreshInv, Unread
  <2> QED BY <2>2, FreshPopped
<1> QED BY <1>1, <1>2

(* A commit finds its preparation removed, stale, or fresh to repair.      *)
LEMMA CommitFresh ==
  ASSUME IInv, FreshInv,
         CommitStarts \/ CommitOutdated \/ CommitStartsRepair \/ CommitRepaired \/ CommitRepairFails
  PROVE  FreshInv'
<1>1. chain # <<>> /\ Head(chain).op = "commit" /\ Head(chain) = chain[1]
  BY FirstIs DEF CommitStarts, CommitOutdated, CommitStartsRepair, CommitRepaired,
                 CommitRepairFails, Stage, Running
<1>2. CASE chain' = Tail(chain) /\ \E c : Drop(Head(chain).who, c)
  BY <1>1, <1>2, CommitGoes
<1>3. CASE CommitStarts /\ state.owner = NoOne
  <2>1. /\ UNCHANGED <<disk, tear, entry, state, call>>
        /\ chain' = [chain EXCEPT ![1].stage = "checking"]
    BY <1>3 DEF CommitStarts, storage
  <2> QED BY <1>1, <2>1, FreshStarted
<1>4. CASE CommitStartsRepair
  <2>1. UNCHANGED <<disk, tear, entry, state, call>>
        /\ chain' = [chain EXCEPT ![1].stage = "repairing"] /\ Fresh(call[chain[1].who].src)
    BY <1>1, <1>4 DEF CommitStartsRepair, Commits, Fresh, storage
  <2> QED BY <1>1, <2>1, FreshStarted
<1> QED BY <1>2, <1>3, <1>4 DEF CommitStarts, CommitOutdated, CommitRepaired, CommitRepairFails

(* What a commit reserves is what is stored.                               *)
LEMMA CommitDoneFresh ==
  ASSUME IInv, FreshInv, CommitDone
  PROVE  FreshInv'
<1> DEFINE p == Head(chain).who
<1>1. /\ chain # <<>> /\ Head(chain).op = "commit" /\ chain' = Tail(chain) /\ UNCHANGED storage
      /\ call[p].src.rev = Revision
  BY CommitSettles
<1>2. /\ p \in Callers /\ TypeOK /\ call[p].at = "commit" /\ call[p].op \in {"prepare", "load"}
      /\ call[p].attached => entry = [phase |-> "committing", src |-> call[p].src]
      /\ call[p].attached => \A i \in DOMAIN chain : i # 1 => chain[i].op # "commit"
  BY <1>1, CommitIs
<1>3. CASE ~call[p].attached
  <2>1. entry' = entry /\ 1 \in DOMAIN chain /\ Detached(chain[1], call)
    BY <1>1, <1>3, FirstIs DEF Detached, Drop, CommitDone
  <2>2. Unread'
    BY <2>1 DEF FreshInv, Unread
  <2> QED BY <1>1, <2>2, FreshPopped
<1>4. CASE call[p].attached
  <2>1. \/ entry' = NoEntry
        \/ entry' = [entry EXCEPT !.phase = "ready"]
        \/ entry' = [entry EXCEPT !.phase = "reserved"]
    BY <1>2, <1>4 DEF CommitDone, Drop
  <2>2. CASE entry' = NoEntry
    <3>1. Unread'
      BY <2>2, NoEntryIs DEF Unread
    <3> QED BY <1>1, <3>1, FreshPopped
  <2>3. CASE \E phase \in {"ready", "reserved"} : entry' = [entry EXCEPT !.phase = phase]
    <3>1. entry'.src.rev = <<disk', tear'>> /\ entry'.phase \in {"ready", "reserved"}
      BY <1>1, <1>2, <1>4, <2>3 DEF Revision, storage
    <3>2. /\ Ordered(chain') /\ Repairs'
          /\ (chain' # <<>> => chain'[1].stage = "queued")
          /\ \A i \in DOMAIN chain' : /\ i + 1 \in DOMAIN chain /\ i + 1 # 1
                                      /\ chain'[i] = chain[i + 1]
      BY <1>1, Popped
    <3>3. \A i \in DOMAIN chain' : ~Detached(chain'[i], call')
      BY <1>2, <1>4, <3>2 DEF Detached
    <3> QED BY <3>1, <3>2, <3>3 DEF FreshInv, Fresh, Revision
  <2> QED BY <2>1, <2>2, <2>3
<1> QED BY <1>3, <1>4

(* A withdrawn operation takes its caller's commit or check along only.    *)
LEMMA AbortFresh ==
  ASSUME IInv, FreshInv, NEW p \in Callers, Abort(p)
  PROVE  FreshInv'
<1>1. /\ call \in [Callers -> CallStates] /\ UNCHANGED <<storage, state>> /\ TypeOK
      /\ chain \in Seq(Ops) /\ Ordered(chain)
  BY DEF Abort, IInv, TypeOK, FreshInv
<1>2. CASE call' = [call EXCEPT ![p].aborted = TRUE] /\ UNCHANGED <<entry, chain>>
  <2>1. \A q \in Callers : call'[q].attached = call[q].attached /\ call'[q].src = call[q].src
    BY <1>1, <1>2 DEF CallStates
  <2>2. UNCHANGED <<disk, tear, entry, chain>> /\ (state'.known => state.known)
    BY <1>1, <1>2 DEF storage
  <2> QED BY <2>1, <2>2, FreshElsewhere
<1>3. CASE /\ ~(call[p].at = "commit" /\ Head(chain).who = p /\ Head(chain).stage # "queued")
           /\ chain' = Without(p)
           /\ IF call[p].at = "commit" THEN Drop(p, Rejected(call, p))
              ELSE call' = Rejected(call, p) /\ UNCHANGED entry
  <2>1. /\ Ordered(chain')
        /\ chain' # <<>> => (chain # <<>> /\ chain'[1] = chain[1]) \/ chain'[1].stage = "queued"
        /\ chain # <<>> /\ ~Withdrawable(p, chain[1]) => chain' # <<>> /\ chain'[1] = chain[1]
        /\ \A i \in DOMAIN chain' : \E j \in DOMAIN chain : chain[j] = chain'[i]
    <3>1. CASE chain' = chain
      BY <3>1, <1>1
    <3>2. CASE chain' # chain
      <4> DEFINE k == CHOOSE i \in DOMAIN chain : Withdrawable(p, chain[i])
      <4>1. k \in DOMAIN chain /\ Withdrawable(p, chain[k]) /\ chain' = RemoveAt(chain, k)
        BY <1>3, <3>2 DEF Without
      <4> HIDE DEF k
      <4>2. /\ Ordered(chain')
            /\ \A i \in DOMAIN chain' : \E j \in DOMAIN chain : j # k /\ chain'[i] = chain[j]
                                                                /\ (j = 1 => i = 1)
            /\ k # 1 => chain' # <<>> /\ chain'[1] = chain[1]
            /\ k = 1 /\ chain' # <<>> => \E j \in DOMAIN chain : j # 1 /\ chain'[1] = chain[j]
        BY <1>1, <4>1, OrderedLoses
      <4>3. chain # <<>>
        BY <4>1, <1>1
      <4>4. CASE k # 1
        BY <4>2, <4>3, <4>4
      <4>5. CASE k = 1
        BY <4>1, <4>2, <4>3, <4>5, FirstIs
      <4> QED BY <4>4, <4>5
    <3> QED BY <3>1, <3>2
  <2>2. chain' # <<>> /\ chain'[1].stage = "repairing" =>
          /\ chain # <<>> /\ chain'[1] = chain[1] /\ chain[1].who \in Callers /\ chain[1].who # p
    <3> SUFFICES ASSUME chain' # <<>>, chain'[1].stage = "repairing"
                 PROVE  chain # <<>> /\ chain'[1] = chain[1] /\ chain[1].who \in Callers
                        /\ chain[1].who # p
      OBVIOUS
    <3>1. chain # <<>> /\ chain'[1] = chain[1]
      BY <2>1
    <3>2. Fits(chain[1], Now) /\ chain[1].op = "commit" /\ Head(chain) = chain[1]
      BY <3>1, FirstIs DEF Runs
    <3> QED BY <1>3, <3>1, <3>2, NowIs DEF Fits
  <2>3. CASE call[p].at = "commit" /\ call[p].attached
    <3>1. entry' = NoEntry /\ call' = RemovedFor(Rejected(call, p))
      BY <1>3, <2>3 DEF Drop
    <3>2. Unread'
      BY <3>1, NoEntryIs DEF Unread
    <3>3. Rejected(call, p) \in [Callers -> CallStates]
          /\ \A q \in Callers : q # p => Rejected(call, p)[q] = call[q]
      BY <1>1, IdleCaller DEF Rejected
    <3>4. \A q \in Callers : q # p => call'[q].src = call[q].src
      <4> DEFINE c == Rejected(call, p)
      <4>1. c \in [Callers -> CallStates] /\ (\A q \in Callers : q # p => c[q] = call[q])
            /\ call' = RemovedFor(c)
        BY <3>1, <3>3
      <4> HIDE DEF c
      <4>2. \A q \in Callers : RemovedFor(c)[q].src = c[q].src
        BY <4>1, RemovedIs
      <4> QED BY <4>1, <4>2
    <3>5. Repairs'
      <4> SUFFICES ASSUME chain' # <<>>, chain'[1].stage = "repairing"
                   PROVE  call'[chain'[1].who].src.rev = <<disk', tear'>>
        BY DEF Repairs, Fresh, Revision
      <4> QED BY <1>1, <2>2, <3>4 DEF FreshInv, Repairs, Fresh, Revision, storage
    <3> QED BY <2>1, <3>2, <3>5, FreshBare
  <2>4. CASE ~(call[p].at = "commit" /\ call[p].attached)
    <3>1. entry' = entry /\ call' = [call EXCEPT ![p] = Idle]
      BY <1>3, <2>4 DEF Drop, Rejected
    <3>2. \A q \in Callers : q # p => call'[q] = call[q]
      BY <1>1, <3>1
    <3>3. call'[p].attached = FALSE
      BY <1>1, <3>1, IdleCaller
    <3>4. \A q \in Callers : call[q].at = "commit" => call'[q].attached = call[q].attached
      BY <1>1, <2>4, <3>2, <3>3 DEF CallStates
    <3>5. chain # <<>> /\ chain[1].op = "commit" => (chain' # <<>> /\ chain'[1] = chain[1])
                                                    \/ Detached(chain[1], call)
      <4> SUFFICES ASSUME chain # <<>>, chain[1].op = "commit", Withdrawable(p, chain[1])
                   PROVE  Detached(chain[1], call)
        BY <2>1
      <4>1. chain[1].who = p /\ Fits(chain[1], Now)
        BY FirstIs DEF Withdrawable
      <4> QED BY <2>4, <4>1, NowIs DEF Fits, Detached
    <3>6. UNCHANGED <<disk, tear, entry>> /\ (state'.known => state.known)
      BY <1>1, <3>1 DEF storage
    <3>7. chain' # <<>> /\ chain'[1].stage = "repairing" =>
           call'[chain'[1].who].src = call[chain'[1].who].src
      BY <2>2, <3>2
    <3> QED BY <2>1, <3>4, <3>5, <3>6, <3>7, FreshAside
  <2> QED BY <2>3, <2>4
<1> QED BY <1>2, <1>3 DEF Abort

(* An idle preparation is evicted.                                         *)
LEMMA EvictFresh ==
  ASSUME IInv, FreshInv, Evict
  PROVE  FreshInv'
<1>1. /\ entry' = NoEntry /\ chain' = chain /\ UNCHANGED storage /\ call' = Leaving(call)
      /\ call \in [Callers -> CallStates]
  BY DEF Evict, IInv, TypeOK
<1>2. Unread' /\ Ordered(chain')
  BY <1>1, NoEntryIs DEF Unread, FreshInv
<1>3. \A q \in Callers : call'[q].src = call[q].src
  BY <1>1 DEF Leaving, CallStates
<1>4. Repairs'
  <2> SUFFICES ASSUME chain # <<>>, chain[1].stage = "repairing"
               PROVE  call'[chain[1].who].src.rev = <<disk', tear'>>
    BY <1>1 DEF Repairs, Fresh, Revision
  <2>1. Fits(chain[1], Now) /\ chain[1].op = "commit"
    BY FirstIs DEF Runs
  <2>2. chain[1].who \in Callers
    BY <2>1, NowIs DEF Fits
  <2> QED BY <1>1, <1>3, <2>2 DEF FreshInv, Repairs, Fresh, Revision, storage
<1> QED BY <1>2, <1>4, FreshBare

(* While a reservation is held, no commit is queued.                       *)
LEMMA HeldChain ==
  ASSUME IInv, NEW p \in Callers, Held(p)
  PROVE  /\ entry.phase = "reserved" /\ call[p].attached /\ entry.src = call[p].src
         /\ \A i \in DOMAIN chain : chain[i].op # "commit"
         /\ chain # <<>> => chain[1].stage \notin {"repairing", "adopting"}
<1>1. entry.phase = "reserved" /\ call[p].attached /\ entry.src = call[p].src
  BY DEF IInv, Preparation
<1>2. \A i \in DOMAIN chain : Fits(chain[i], Now)
  BY DEF IInv, ChainInv, Chained
<1>3. \A i \in DOMAIN chain : chain[i].op # "commit"
  BY <1>1, <1>2, NowIs DEF Fits
<1>4. chain # <<>> => chain[1].stage \notin {"repairing", "adopting"}
  BY <1>1, <1>3, FirstIs, NowIs DEF Runs
<1> QED BY <1>1, <1>3, <1>4

(* A released reservation becomes a ready preparation, or none.            *)
LEMMA ReleaseReservationFresh ==
  ASSUME IInv, FreshInv, NEW p \in Callers, NEW reusable \in BOOLEAN,
         ReleaseReservation(p, reusable)
  PROVE  FreshInv'
<1>1. /\ Held(p) /\ chain' = chain /\ UNCHANGED storage /\ TypeOK
  BY DEF ReleaseReservation, Held, IInv
<1>2. /\ entry.phase = "reserved" /\ call[p].attached
      /\ \A i \in DOMAIN chain : chain[i].op # "commit"
      /\ chain # <<>> => chain[1].stage \notin {"repairing", "adopting"}
  BY <1>1, HeldChain
<1>3. Ordered(chain') /\ Repairs'
  BY <1>1, <1>2 DEF FreshInv, Repairs
<1>4. CASE reusable
  <2>1. entry' = [entry EXCEPT !.phase = "ready"]
    BY <1>4 DEF ReleaseReservation
  <2>2. entry'.phase = "ready" /\ entry'.src = entry.src
    BY <1>1, <2>1 DEF TypeOK
  <2>3. entry'.src.rev = <<disk', tear'>>
    BY <1>1, <1>2, <2>2 DEF FreshInv, Fresh, Revision, storage
  <2>4. \A i \in DOMAIN chain' : ~Detached(chain'[i], call')
    BY <1>1, <1>2 DEF Detached
  <2> QED BY <1>1, <1>2, <1>3, <2>2, <2>3, <2>4 DEF FreshInv, Fresh, Revision
<1>5. CASE ~reusable
  <2>1. entry' = NoEntry
    BY <1>2, <1>5 DEF ReleaseReservation, Drop
  <2>2. Unread'
    BY <2>1, NoEntryIs DEF Unread
  <2> QED BY <1>3, <2>2, FreshBare
<1> QED BY <1>4, <1>5

(* An attached Session takes the preparation along.                        *)
LEMMA AttachPreparedFresh ==
  ASSUME IInv, IInv', FreshInv, NEW p \in Callers, NEW extra \in BOOLEAN, AttachPrepared(p, extra)
  PROVE  FreshInv'
<1>1. Held(p) /\ call[p].attached
  BY DEF AttachPrepared, Held
<1>2. chain # <<>> => chain[1].stage # "repairing"
  BY <1>1, HeldChain
<1>3. Unread'
  <2>1. entry' = NoEntry
    BY <1>1 DEF AttachPrepared, Drop
  <2> QED BY <2>1, NoEntryIs DEF Unread
<1> DEFINE data == <<state.cursor, IF extra THEN <<Ev("note", NextLife)>> ELSE <<>>>>
           o == Op("suffix", NextLife, data)
<1>4. chain' = chain \/ chain' = Append(chain, o)
  BY DEF AttachPrepared
<1>5. o.op = "suffix" /\ o.stage = "queued"
  BY DEF Op
<1> HIDE DEF o
<1>6. CASE chain' = chain
  <2>1. Ordered(chain') /\ Repairs'
    BY <1>2, <1>6 DEF FreshInv, Repairs
  <2> QED BY <1>3, <2>1, FreshBare
<1>7. CASE chain' = Append(chain, o)
  <2>1. chain \in Seq(Ops) /\ Ordered(chain) /\ o \in Ops
    BY <1>7, AppendedIs DEF IInv, TypeOK, FreshInv
  <2>2. Ordered(chain') /\ chain'[1].stage # "repairing"
    BY <1>2, <1>5, <1>7, <2>1, OrderedGrows
  <2> QED BY <1>3, <2>2, FreshBare DEF Repairs
<1> QED BY <1>4, <1>6, <1>7

(* A refused write shows nothing.                                          *)
LEMMA RejectsFresh ==
  ASSUME IInv, FreshInv, IsWrite, Rejects \/ Requeued, UNCHANGED <<disk, tear, entry>>,
         state'.known => state.known
  PROVE  FreshInv'
<1>1. chain # <<>> /\ Head(chain).op \in {"append", "batch", "suffix"} /\ chain' = Tail(chain)
      /\ call \in [Callers -> CallStates]
  BY DEF IsWrite, Rejects, Requeued, IInv, TypeOK
<1>2. \A q \in Callers : call[q].at = "commit" => call'[q].attached = call[q].attached
  <2>1. CASE Head(chain).op = "append"
    <3>1. Who \in Callers /\ call[Who].at = "append" /\ call' = [call EXCEPT ![Who] = Idle]
      BY <1>1, <2>1, AppendIs DEF Rejects, Rejected, Requeued
    <3> QED BY <1>1, <3>1
  <2>2. CASE Head(chain).op # "append"
    BY <2>2 DEF Rejects, Requeued
  <2> QED BY <2>1, <2>2
<1> QED BY <1>1, <1>2, FreshPassed

(* Before a write begins, nothing is shown any more.                       *)
LEMMA WriteStartsFresh ==
  ASSUME IInv, FreshInv, WriteStarts
  PROVE  FreshInv'
<1>1. /\ IsWrite /\ chain # <<>> /\ UNCHANGED <<storage, state>> /\ chain \in Seq(Ops)
      /\ Ordered(chain) /\ entry.phase \in Phases
  BY DEF WriteStarts, IsWrite, IInv, TypeOK, FreshInv
<1>2. CASE Rejects /\ UNCHANGED entry
  <2>1. UNCHANGED <<disk, tear, entry>> /\ (state'.known => state.known)
    BY <1>1, <1>2 DEF storage
  <2> QED BY <1>1, <1>2, <2>1, RejectsFresh
<1>3. CASE /\ Writable /\ chain' = [chain EXCEPT ![1].stage = "adopting"]
           /\ IF entry.phase = "ready" THEN entry' = NoEntry /\ call' = RemovedFor(call)
                                       ELSE UNCHANGED <<entry, call>>
  <2>1. Unread'
    BY <1>1, <1>3, NoEntryIs DEF Unread, Writable, Phases
  <2>2. Ordered(chain') /\ chain'[1].stage = "adopting"
    BY <1>1, <1>3, OrderedStarts
  <2> QED BY <2>1, <2>2, FreshBare DEF Repairs
<1>4. CASE chain' = [chain EXCEPT ![1].stage = "writing"] /\ UNCHANGED <<entry, call>>
  <2>1. UNCHANGED <<disk, tear, entry, state, call>>
    BY <1>1, <1>4 DEF storage
  <2> QED BY <1>1, <1>4, <2>1, FreshStarted
<1> QED BY <1>2, <1>3, <1>4 DEF WriteStarts

(* While a log is taken over, nothing is shown.                            *)
LEMMA AdoptFresh ==
  ASSUME IInv, FreshInv, AdoptRepairs \/ AdoptDone
  PROVE  FreshInv'
<1>1. /\ IsWrite /\ chain # <<>> /\ Head(chain).stage = "adopting" /\ Head(chain) = chain[1]
      /\ chain \in Seq(Ops) /\ entry' = entry /\ Ordered(chain)
  BY FirstIs DEF AdoptRepairs, AdoptDone, IsWrite, IInv, TypeOK, FreshInv
<1>2. Unread'
  BY <1>1 DEF FreshInv, Unread
<1>3. CASE chain' = chain
  BY <1>1, <1>2, <1>3, FreshBare DEF Repairs
<1>4. CASE chain' = Tail(chain)
  BY <1>1, <1>2, <1>4, FreshPopped
<1>5. CASE chain' = [chain EXCEPT ![1].stage = "writing"]
  <2>1. Ordered(chain') /\ chain'[1].stage = "writing"
    BY <1>1, <1>5, OrderedStarts
  <2> QED BY <1>2, <2>1, FreshBare DEF Repairs
<1> QED BY <1>3, <1>4, <1>5 DEF AdoptRepairs, AdoptDone, Rejects

(* After a write nothing is shown, and no queued read fills anything.      *)
LEMMA WriteDoneFresh ==
  ASSUME IInv, FreshInv, WriteDone
  PROVE  FreshInv'
<1>1. chain # <<>> /\ entry' = NoEntry /\ chain' = Orphaned(Tail(chain)) /\ chain \in Seq(Ops)
  BY DEF WriteDone, IsWrite, IInv, TypeOK
<1>2. Unread'
  BY <1>1, NoEntryIs DEF Unread
<1> DEFINE t == Tail(chain)
<1>3. /\ t \in Seq(Ops) /\ \A i \in DOMAIN t : i + 1 \in DOMAIN chain /\ i + 1 # 1
                                               /\ t[i] = chain[i + 1]
  <2>1. Ordered(chain)
    BY DEF FreshInv
  <2> QED BY <1>1, <2>1, OrderedPops, HeadTailProperties
<1>4. chain' = [i \in DOMAIN t |-> [t[i] EXCEPT !.current = FALSE]]
  BY <1>1 DEF Orphaned
<1> HIDE DEF t
<1>5. DOMAIN t = 1..Len(t) /\ Len(t) \in Nat /\ \A i \in DOMAIN t : t[i] \in Ops
  BY <1>3, LenProperties
<1>6. /\ DOMAIN chain' = DOMAIN t
      /\ \A i \in DOMAIN t : chain'[i].current = FALSE /\ chain'[i].stage = t[i].stage
  BY <1>4, <1>5 DEF Ops
<1>7. Ordered(chain')
  BY <1>6 DEF Ordered
<1>8. chain' # <<>> => chain'[1].stage = "queued"
  <2> SUFFICES ASSUME chain' # <<>> PROVE chain'[1].stage = "queued"
    OBVIOUS
  <2>1. 1 \in DOMAIN t
    <3>1. t # <<>>
      <4> SUFFICES ASSUME t = <<>> PROVE FALSE
        OBVIOUS
      <4>1. chain' = [i \in {} |-> [t[i] EXCEPT !.current = FALSE]]
        BY <1>4
      <4> QED BY <4>1
    <3> QED BY <1>3, <1>5, <3>1, EmptySeq
  <2> QED BY <1>1, <1>3, <1>6, <2>1, FirstIs
<1> QED BY <1>2, <1>7, <1>8, FreshBare DEF Repairs

(* A created Session claims the id while nothing is shown.                 *)
LEMMA CreatedFresh ==
  ASSUME IInv, IInv', FreshInv, ClaimTracked \/ AdoptLivePrefix \/ CreateNew
  PROVE  FreshInv'
<1>1. Running("created") /\ entry' = entry
  BY DEF ClaimTracked, AdoptLivePrefix, CreateNew
<1>2. chain # <<>> /\ Head(chain) = chain[1] /\ Head(chain).op = "created" /\ chain \in Seq(Ops)
      /\ chain[1].stage # "repairing" /\ Ordered(chain)
  BY <1>1, CreatedIs, FirstIs DEF IInv, TypeOK, FreshInv, Runs
<1>3. Unread'
  BY <1>1, CreatedIs DEF Unread
<1>4. CASE chain' = chain
  BY <1>2, <1>3, <1>4, FreshBare DEF Repairs
<1>5. CASE chain' = Tail(chain)
  BY <1>2, <1>3, <1>5, FreshPopped
<1>6. CASE \E data : chain' = <<Op("suffix", Who, data)>> \o Tail(chain)
  <2>1. PICK data : chain' = <<Op("suffix", Who, data)>> \o Tail(chain)
    BY <1>6
  <2> DEFINE o == Op("suffix", Who, data)
  <2>2. o.op = "suffix" /\ o.stage = "queued"
    BY DEF Op
  <2> HIDE DEF o
  <2>3. chain' = <<o>> \o Tail(chain) /\ chain' \in Seq(Ops) /\ Tail(chain) \in Seq(Ops)
    BY <1>2, <2>1, HeadTailProperties DEF IInv, TypeOK, o
  <2>4. o \in Ops
    <3> DEFINE t == Tail(chain)
    <3>1. t \in Seq(Ops) /\ <<o>> \o t \in Seq(Ops)
      BY <2>3
    <3> HIDE DEF t
    <3>2. 1 \in 1..Len(<<o>> \o t) /\ (<<o>> \o t)[1] = o
      BY <3>1
    <3>3. <<o>> \o t \in [1..Len(<<o>> \o t) -> Ops]
      BY <3>1, LenProperties
    <3> QED BY <3>2, <3>3
  <2>5. Ordered(chain') /\ chain'[1] = o
    BY <1>2, <2>2, <2>3, <2>4, OrderedPops
  <2> QED BY <1>3, <2>2, <2>5, FreshBare DEF Repairs
<1> QED BY <1>4, <1>5, <1>6 DEF ClaimTracked, AdoptLivePrefix, CreateNew, Claim, Collision

(* Nothing is shown of what a retired owner let go of.                     *)
LEMMA ReleasedFresh ==
  ASSUME IInv, FreshInv, Released
  PROVE  FreshInv'
<1>1. /\ chain # <<>> /\ Head(chain).op = "release" /\ chain' = Tail(chain)
      /\ UNCHANGED <<disk, tear, entry, call>> /\ (state'.known => state.known)
  BY DEF Released, Running, NoState, storage
<1> QED BY <1>1, FreshPassed

(* A reload or a crash drops the preparation and the chain.                *)
LEMMA UpsetFresh ==
  ASSUME Reload \/ Crash
  PROVE  FreshInv'
<1>1. Unread'
  BY NoEntryIs DEF Reload, Crash, Unread
<1>2. CASE chain' = <<>>
  <2>1. DOMAIN chain' = {}
    BY <1>2
  <2> QED BY <1>1, <1>2, <2>1, FreshBare DEF Ordered, Repairs
<1>3. CASE \E o : chain' = <<o>> /\ o.stage = "queued"
  <2>1. PICK o : chain' = <<o>> /\ o.stage = "queued"
    BY <1>3
  <2>2. chain'[1] = o /\ DOMAIN chain' = 1..1
    BY <2>1
  <2>3. \A i, j \in 1..1 : ~(i < j)
    OBVIOUS
  <2> QED BY <1>1, <2>1, <2>2, <2>3, FreshBare DEF Ordered, Repairs
<1>4. CASE Reload /\ store # NoOne
  <2>1. PICK o : o = Op("created", store, <<0, Live.log>>)
    OBVIOUS
  <2>2. chain' = <<o>> /\ o.stage = "queued"
    BY <1>4, <2>1 DEF Reload, Op
  <2> QED BY <1>3, <2>2
<1>5. CASE Crash \/ (Reload /\ store = NoOne)
  BY <1>2, <1>5 DEF Reload, Crash
<1> QED BY <1>4, <1>5

(* What another process wrote is found out before it is relied on.         *)
LEMMA ForeignFresh ==
  ASSUME IInv, FreshInv, Foreign
  PROVE  FreshInv'
<1>1. /\ UNCHANGED <<state, entry, chain, call>> /\ ~state.known
      /\ entry.phase \notin {"committing", "reserved"}
      /\ \A i \in DOMAIN chain : chain[i].op \in {"read", "check"}
  BY DEF Foreign, Writable
<1>2. chain # <<>> => chain[1].stage \notin {"repairing", "adopting"}
  BY <1>1, FirstIs DEF Runs
<1>3. \A i \in DOMAIN chain : ~Detached(chain'[i], call')
  BY <1>1 DEF Detached
<1> QED BY <1>1, <1>2, <1>3 DEF FreshInv, Repairs

(* What a Session does in memory shows nothing.                            *)
LEMMA LivesFresh ==
  ASSUME FreshInv, UNCHANGED <<storage, state, entry, chain, call>>
  PROVE  FreshInv'
  BY DEF FreshInv, Repairs, Fresh, Revision, Detached, Unread, storage

(* At first nothing is shown.                                              *)
LEMMA InitFresh == Init => FreshInv
<1> SUFFICES ASSUME Init PROVE FreshInv
  OBVIOUS
<1>1. chain = <<>> /\ DOMAIN chain = {} /\ entry.phase = "none"
  BY NoEntryIs DEF Init
<1> QED BY <1>1 DEF FreshInv, Repairs, Ordered, Unread

(* What is shown stays fresh, or somebody is about to find out.            *)
LEMMA StepFresh ==
  ASSUME IInv, IInv', FreshInv, [Next]_vars
  PROVE  FreshInv'
<1>1. ASSUME UNCHANGED vars PROVE FreshInv'
  BY <1>1, LivesFresh DEF vars, storage
<1>2. ASSUME NEW p \in Callers, CallerSteps(p) PROVE FreshInv'
  BY <1>2, CallerStepsFresh, JoinFresh, ReserveFresh, InspectJoinedFresh DEF CallerSteps
<1>3. ASSUME NEW p \in Callers, HolderSteps(p) PROVE FreshInv'
  BY <1>3, AttachPreparedFresh, ReleaseReservationFresh DEF HolderSteps
<1>4. ASSUME ChainSteps \/ CommitRepairFails PROVE FreshInv'
  BY <1>4, ReadDoneFresh, CommitFresh, CommitDoneFresh, InspectCheckedFresh, WriteStartsFresh,
     AdoptFresh, WriteDoneFresh, CreatedFresh, ReleasedFresh DEF ChainSteps
<1>5. ASSUME WriteRefused PROVE FreshInv'
  <2>1. /\ IsWrite /\ UNCHANGED <<disk, tear, entry>> /\ (state'.known => state.known)
        /\ Rejects \/ Requeued
    BY <1>5 DEF WriteRefused, storage
  <2> QED BY <2>1, RejectsFresh
<1>6. ASSUME NEW l \in 1..Lives, LifeSteps(l) PROVE FreshInv'
  <2>1. CASE QueueBatch(l)
    <3>1. PICK o : o = Op("batch", l, <<state.cursor, Unwritten(l)>>)
      OBVIOUS
    <3>2. o.op = "batch" /\ o.stage = "queued"
      BY <3>1 DEF Op
    <3> QED BY <2>1, <3>1, <3>2, QueueFresh DEF QueueBatch
  <2>2. CASE QueueRelease(l)
    <3>1. PICK o : o = Op("release", l, <<>>)
      OBVIOUS
    <3>2. o.op = "release" /\ o.stage = "queued"
      BY <3>1 DEF Op
    <3> QED BY <2>2, <3>1, <3>2, QueueFresh DEF QueueRelease
  <2>3. CASE RetireFails(l)
    BY <2>3, LivesFresh DEF RetireFails
  <2> QED BY <1>6, <2>1, <2>2, <2>3 DEF LifeSteps
<1>7. ASSUME NEW seeded \in BOOLEAN, Create(seeded) PROVE FreshInv'
  <2>1. PICK o : o = Op("created", NextLife,
                        <<0, IF seeded THEN Prepared.events ELSE <<Ev("note", NextLife)>>>>)
    OBVIOUS
  <2>2. o.op = "created" /\ o.stage = "queued"
    BY <2>1 DEF Op
  <2> QED BY <1>7, <2>1, <2>2, QueueFresh DEF Create
<1>8. ASSUME Emit \/ Dispose PROVE FreshInv'
  BY <1>8, LivesFresh DEF Emit, Dispose
<1> QED BY <1>1, <1>2, <1>3, <1>4, <1>5, <1>6, <1>7, <1>8, BeginFresh, AbortFresh, EvictFresh,
           UpsetFresh, ForeignFresh DEF Next

(* The log, its authors and the preparation, in every state.               *)
LEMMA StorageHolds == Spec => [](IInv /\ StoredInv /\ FreshInv)
<1>1. Init => IInv /\ StoredInv /\ FreshInv
  BY InitEstablishes, InitStored, InitFresh
<1>2. IInv /\ StoredInv /\ FreshInv /\ [Next]_vars => (IInv /\ StoredInv /\ FreshInv)'
  BY StepKeeps, StepStored, StepFresh
<1> QED BY <1>1, <1>2, PTL DEF Spec

(* However crashes, repairs, successors and reloads follow one another,    *)
(* the stored log keeps everything that was reported durable, no torn      *)
(* record is buried in it, and its turns alternate between an opening and  *)
(* an ending (coordinator appendCore, commitRepair, adoptLivePrefix).      *)
THEOREM StoredAlwaysWellFormed == Spec => []StoredWellFormed
<1>1. IInv /\ StoredInv => StoredWellFormed
  <2> SUFFICES ASSUME IInv, StoredInv PROVE StoredWellFormed
    OBVIOUS
  <2>1. TypeOK /\ disk \in Logs /\ acked \in Logs /\ DOMAIN disk = 1..Len(disk)
    BY LenProperties DEF IInv, TypeOK, Logs
  <2>2. IsPrefix(acked, disk)
    BY <2>1, BeginsIsPrefix DEF StoredInv
  <2>3. Sane(disk)
    BY <2>1, DiskStorable DEF Storable
  <2>4. Buried \notin Range(disk)
    <3>1. Buried.kind = "torn"
      BY DEF Buried, Ev
    <3> QED BY <2>1, <2>3, <3>1 DEF Range, Sane
  <2>5. ASSUME NEW i \in DOMAIN disk, disk[i].kind # "note"
        PROVE  (disk[i].kind = "open") = ~OpenTurn(SubSeq(disk, 1, i - 1))
    <3>1. disk[i].kind = "open" <=> ~OpenBefore(disk, i)
      BY <2>1, <2>3, <2>5 DEF Sane
    <3>2. OpenTurn(SubSeq(disk, 1, i - 1)) <=> OpenBefore(disk, i)
      BY <2>1, OpenInside
    <3> QED BY <3>1, <3>2
  <2> QED BY <2>2, <2>4, <2>5 DEF StoredWellFormed
<1> QED BY <1>1, StorageHolds, PTL

-----------------------------------------------------------------------------
(* What was answered.                                                      *)

(* What a live Session answered covers what was stored when it was asked,  *)
(* or it is not initialized, and would have to have stored what only it    *)
(* can have written to be.                                                 *)
Covered(c) == Begins(c.base, c.src.events)
Awaited(c) ==
  /\ c.life # NoOne /\ sess[c.life].init # "ok"
  /\ \A i \in 1..Len(c.base) : c.base[i].by = c.life => i <= Len(c.src.events)
  /\ sess[c.life].stage \in {"live", "retiring"} =>
       /\ Begins(c.src.events, sess[c.life].log)
       /\ \A i \in 1..Len(sess[c.life].log) :
            i > Len(c.src.events) => sess[c.life].log[i].by = c.life

(* A caller that answers, or waits to, has what its answer needs.          *)
Replies(c) == c.at \in {"flushing", "answered"}
Honest(c) ==
  /\ Begins(c.base, disk)
  /\ c.at = "flushing" => c.life # NoOne
  /\ Replies(c) => /\ c.life # NoOne => sess[c.life].stage # "unborn"
                   /\ Covered(c) \/ Awaited(c)
  /\ c.at = "answered" /\ c.op = "load" => ~OpenTurn(c.src.events)
  /\ c.at = "check" => c.op = "inspect"
AnswerInv == \A p \in Callers : Honest(call[p])

-----------------------------------------------------------------------------
(* What callers answer, as they move.                                      *)

(* c moves to d without answering anything new.                            *)
Mute(c, d) ==
  /\ d.base \in {c.base, <<>>}
  /\ Replies(d) => /\ d.at = c.at /\ d.op = c.op /\ d.src = c.src
                   /\ d.life = c.life /\ d.base = c.base
  /\ d.at = "check" => c.at = "check" /\ d.op = c.op

(* What is no new answer stays as honest as it was.                        *)
LEMMA MuteHonest ==
  ASSUME TypeOK, NEW c, NEW d, Honest(c), Mute(c, d)
  PROVE  Honest(d)
<1>1. disk \in Logs /\ Begins(<<>>, disk)
  BY BeginsSelf DEF TypeOK
<1> QED BY <1>1 DEF Honest, Mute, Replies, Covered, Awaited

(* Callers that move without answering anything new.                       *)
Honestly(c) == c \in [Callers -> CallStates] /\ \A q \in Callers : Honest(c[q])

(* Removing the entry, or waking who waits on it, answers nobody.          *)
LEMMA RemovedHonest ==
  ASSUME TypeOK, NEW c, Honestly(c)
  PROVE  Honestly(RemovedFor(c)) /\ Honestly(Waking(c)) /\ Honestly(Leaving(c))
<1>1. Honestly(RemovedFor(c))
  <2>1. \A q \in Callers : Mute(c[q], RemovedFor(c)[q])
    BY RemovedIs DEF Honestly, Mute, Replies
  <2> QED BY <2>1, RemovedIs, MuteHonest DEF Honestly
<1>2. Honestly(Waking(c))
  <2>1. \A q \in Callers : Mute(c[q], Waking(c)[q])
    BY WakingIs DEF Honestly, Mute, Replies
  <2> QED BY <2>1, WakingIs, MuteHonest DEF Honestly
<1>3. Honestly(Leaving(c))
  <2>1. /\ Leaving(c) \in [Callers -> CallStates]
        /\ \A q \in Callers : LET d == Leaving(c)[q] IN
             d.at = c[q].at /\ d.op = c[q].op /\ d.src = c[q].src
             /\ d.life = c[q].life /\ d.base = c[q].base
    BY DEF Honestly, Leaving, CallStates
  <2>2. \A q \in Callers : Mute(c[q], Leaving(c)[q])
    BY <2>1 DEF Mute
  <2> QED BY <2>1, <2>2, MuteHonest DEF Honestly
<1> QED BY <1>1, <1>2, <1>3

(* One caller changes, to an honest one.                                   *)
LEMMA OneHonest ==
  ASSUME TypeOK, NEW c, Honestly(c), NEW p \in Callers, NEW d \in CallStates, Honest(d)
  PROVE  Honestly([c EXCEPT ![p] = d])
<1> DEFINE e == [c EXCEPT ![p] = d]
<1>1. e \in [Callers -> CallStates] /\ \A q \in Callers : e[q] = IF q = p THEN d ELSE c[q]
  BY DEF Honestly
<1> HIDE DEF e
<1>2. \A q \in Callers : Honest(e[q])
  BY <1>1 DEF Honestly
<1> QED BY <1>1, <1>2 DEF Honestly, e

(* A caller returns, starts over or waits elsewhere.                       *)
LEMMA MovesHonest ==
  ASSUME TypeOK, NEW c, Honestly(c), NEW p \in Callers
  PROVE  /\ Honestly(Rejected(c, p)) /\ Honestly(Returned(c, p)) /\ Honestly(Again(c, p))
         /\ \A at \in Places \ {"flushing", "answered", "check"} : Honestly(To(c, p, at))
<1>1. c \in [Callers -> CallStates] /\ c[p] \in CallStates /\ Honest(c[p])
  BY DEF Honestly
<1>2. Honestly(Rejected(c, p)) /\ Honestly(Returned(c, p))
  <2>1. Idle \in CallStates /\ Mute(c[p], Idle)
    BY IdleCaller DEF Idle, Mute, Replies
  <2> QED BY <1>1, <2>1, MuteHonest, OneHonest DEF Rejected, Returned
<1>3. Honestly(Again(c, p))
  <2> DEFINE d == [c[p] EXCEPT !.at = "begin", !.src = NoSource, !.attached = FALSE]
  <2>1. d \in CallStates /\ Mute(c[p], d)
    BY <1>1, BareSource DEF CallStates, Places, Mute, Replies
  <2>2. Again(c, p) = [c EXCEPT ![p] = d]
    BY <1>1 DEF Again
  <2> HIDE DEF d
  <2>3. Honest(d)
    BY <1>1, <2>1, MuteHonest
  <2> QED BY <2>1, <2>2, <2>3, OneHonest
<1>4. ASSUME NEW at \in Places \ {"flushing", "answered", "check"}
      PROVE  Honestly(To(c, p, at))
  <2> DEFINE d == [c[p] EXCEPT !.at = at]
  <2>1. d \in CallStates /\ Mute(c[p], d)
    BY <1>1 DEF CallStates, Mute, Replies
  <2>2. To(c, p, at) = [c EXCEPT ![p] = d]
    BY <1>1 DEF To
  <2> HIDE DEF d
  <2>3. Honest(d)
    BY <1>1, <2>1, MuteHonest
  <2>4. Honestly([c EXCEPT ![p] = d])
    BY <2>1, <2>3, OneHonest
  <2> QED BY <2>2, <2>4
<1> QED BY <1>2, <1>3, <1>4

(* One caller goes elsewhere, and the entry is removed.                    *)
LEMMA DropHonest ==
  ASSUME TypeOK, NEW c, Honestly(c), NEW p \in Callers, Drop(p, c)
  PROVE  Honestly(call')
  BY RemovedHonest DEF Drop

(* A Session that is live answers with what it has.                        *)
LEMMA LiveHonest ==
  ASSUME IInv, StoredInv, store # NoOne, NEW c \in CallStates, Begins(c.base, disk),
         c.life = store, c.src.events = Live.log, c.at # "check",
         c.op = "load" => c.at = "flushing"
  PROVE  Honest(c)
<1>1. /\ TypeOK /\ store \in 1..Lives /\ Live.log \in Logs /\ Live = sess[store]
      /\ disk \in Logs /\ c.base \in Logs /\ Stored \in Logs /\ Begins(disk, Stored)
      /\ sess[store].stage = "live"
  BY LiveLog, Typed DEF IInv, Live, Lineage, CallStates
<1>2. CASE sess[store].init = "ok"
  <2>1. Begins(disk, Live.log)
    BY <1>1, <1>2 DEF IInv, Ownership, Owns
  <2>2. Covered(c)
    BY <1>1, <2>1, BeginsMeets DEF Covered
  <2> QED BY <1>1, <2>2 DEF Honest, Replies
<1>3. CASE sess[store].init # "ok"
  <2>1. \A i \in 1..Len(c.base) : c.base[i] = Stored[i] /\ i \in 1..Len(Stored)
    <3>1. Begins(c.base, Stored)
      BY <1>1, BeginsMeets
    <3>2. Len(c.base) \in Nat /\ Len(Stored) \in Nat
      BY <1>1, LenProperties DEF Logs
    <3> QED BY <3>1, <3>2 DEF Begins
  <2>2. \A i \in 1..Len(Stored) : Stored[i].by = store => i <= Len(Live.log)
    BY <1>1, NowIs DEF StoredInv, Storable
  <2>3. \A i \in 1..Len(c.base) : c.base[i].by = store => i <= Len(Live.log)
    BY <2>1, <2>2
  <2>4. Begins(Live.log, Live.log)
    BY <1>1, BeginsSelf
  <2>5. \A i \in 1..Len(Live.log) : ~(i > Len(Live.log))
    BY <1>1, LenProperties DEF Logs
  <2>6. Awaited(c)
    BY <1>1, <1>3, <2>3, <2>4, <2>5 DEF Awaited
  <2> QED BY <1>1, <2>6 DEF Honest, Replies
<1> QED BY <1>2, <1>3

-----------------------------------------------------------------------------
(* What callers answer, in each step.                                      *)

(* The callers are as honest as the invariant says.                        *)
LEMMA CallersHonest ==
  ASSUME TypeOK, AnswerInv
  PROVE  /\ Honestly(call)
         /\ \A p \in Callers : call[p] \in CallStates /\ call[p].base \in Logs
                                 /\ Honest(call[p]) /\ Begins(call[p].base, disk)
  BY Typed DEF AnswerInv, Honestly, Honest

(* One caller moves without answering anything new.                        *)
LEMMA OneMute ==
  ASSUME TypeOK, AnswerInv, NEW p \in Callers, NEW d \in CallStates, Mute(call[p], d)
  PROVE  Honestly([call EXCEPT ![p] = d])
<1>1. Honestly(call) /\ Honest(call[p])
  BY CallersHonest
<1>2. Honest(d)
  BY <1>1, MuteHonest
<1> QED BY <1>1, <1>2, OneHonest

(* One caller is answered by the live Session.                             *)
LEMMA LiveAnswers ==
  ASSUME IInv, StoredInv, AnswerInv, store # NoOne, NEW p \in Callers,
         NEW at \in {"answered", "flushing"}, call[p].op \in {"inspect", "load"},
         call[p].op = "load" => at = "flushing"
  PROVE  LET d == [call[p] EXCEPT !.at = at, !.src = [NoSource EXCEPT !.events = Live.log],
                                  !.life = store] IN
         d \in CallStates /\ Honest(d) /\ Honestly([call EXCEPT ![p] = d])
<1> DEFINE d == [call[p] EXCEPT !.at = at, !.src = [NoSource EXCEPT !.events = Live.log],
                                !.life = store]
<1>1. /\ call[p] \in CallStates /\ Live.log \in Logs /\ TypeOK /\ Honestly(call)
      /\ Begins(call[p].base, disk) /\ store \in 0..Lives
  BY LiveLog, CallersHonest DEF IInv, TypeOK
<1>2. d \in CallStates
  BY <1>1, AnswerMoves
<1>3. /\ d.life = store /\ d.src.events = Live.log /\ d.at = at /\ d.op = call[p].op
      /\ d.base = call[p].base
  BY <1>1 DEF CallStates, NoSource
<1> HIDE DEF d
<1>4. (d.op = "load" => d.at = "flushing") /\ d.at # "check"
  BY <1>3
<1>5. Honest(d)
  BY <1>1, <1>2, <1>3, <1>4, LiveHonest
<1>6. Honestly([call EXCEPT ![p] = d])
  BY <1>1, <1>2, <1>5, OneHonest
<1> QED BY <1>2, <1>5, <1>6 DEF d

(* MeetLive: the live Session's log is the answer, or will be.             *)
LEMMA MeetLiveHonest ==
  ASSUME IInv, StoredInv, AnswerInv, NEW p \in Callers, MeetLive(p)
  PROVE  Honestly(call')
<1>1. TypeOK /\ Honestly(call) /\ call[p].op \in {"prepare", "load", "inspect"} /\ store # NoOne
      /\ call \in [Callers -> CallStates]
  BY CallersHonest DEF IInv, TypeOK, Preparation, Sound, MeetLive
<1>2. CASE call[p].op = "prepare"
  BY <1>1, <1>2, MovesHonest DEF MeetLive
<1>3. CASE call[p].op = "inspect"
  <2>1. call' = [call EXCEPT ![p] = [call[p] EXCEPT !.at = "answered",
                  !.src = [NoSource EXCEPT !.events = Live.log], !.life = store]]
    BY <1>1, <1>3 DEF MeetLive, Answer
  <2> QED BY <1>1, <1>3, <2>1, LiveAnswers
<1>4. CASE call[p].op = "load"
  <2>1. call' = [call EXCEPT ![p] = [call[p] EXCEPT !.at = "flushing",
                  !.src = [NoSource EXCEPT !.events = Live.log], !.life = store]]
    BY <1>1, <1>4 DEF MeetLive
  <2> QED BY <1>1, <1>4, <2>1, LiveAnswers
<1> QED BY <1>1, <1>2, <1>3, <1>4

(* LoadLive: what the load waited for is durable.                          *)
LEMMA LoadLiveHonest ==
  ASSUME IInv, AnswerInv, NEW p \in Callers, LoadLive(p)
  PROVE  Honestly(call')
<1>1. TypeOK /\ Honestly(call) /\ call[p] \in CallStates /\ Honest(call[p])
  BY CallersHonest DEF IInv
<1>2. CASE call' = Rejected(call, p)
  BY <1>1, <1>2, MovesHonest
<1>3. CASE call' = To(call, p, "answered") /\ ~OpenTurn(call[p].src.events)
  <2> DEFINE d == [call[p] EXCEPT !.at = "answered"]
  <2>1. /\ d \in CallStates /\ d.at = "answered" /\ d.src = call[p].src /\ d.op = call[p].op
        /\ d.life = call[p].life /\ d.base = call[p].base
    BY <1>1 DEF CallStates, Places
  <2>2. call' = [call EXCEPT ![p] = d]
    BY <1>1, <1>3 DEF To
  <2> HIDE DEF d
  <2>3. Honest(d)
    BY <1>1, <1>3, <2>1 DEF LoadLive, Honest, Replies, Covered, Awaited
  <2> QED BY <1>1, <2>1, <2>2, <2>3, OneHonest
<1> QED BY <1>2, <1>3 DEF LoadLive

(* Join: a caller waits on the entry.                                      *)
LEMMA JoinHonest ==
  ASSUME IInv, AnswerInv, NEW p \in Callers, Join(p)
  PROVE  Honestly(call')
<1>1. TypeOK /\ call[p] \in CallStates /\ entry.src \in Sources
  BY CallersHonest DEF IInv, TypeOK
<1> DEFINE d == [call[p] EXCEPT !.attached = TRUE, !.src = entry.src,
                   !.at = IF entry.phase \in {"none", "loading"} THEN "loading" ELSE "joined"]
<1>2. d \in CallStates /\ Mute(call[p], d)
  BY <1>1 DEF CallStates, Places, Mute, Replies
<1>3. call' = [call EXCEPT ![p] = d]
  BY DEF Join, IInv, TypeOK
<1> HIDE DEF d
<1> QED BY <1>1, <1>2, <1>3, OneMute

(* Reserve: the preparation is held by one caller.                         *)
LEMMA ReserveHonest ==
  ASSUME IInv, AnswerInv, NEW p \in Callers, Reserve(p)
  PROVE  Honestly(call')
<1>1. TypeOK /\ Honestly(call) /\ call[p] \in CallStates /\ entry.src \in Sources
  BY CallersHonest DEF IInv, TypeOK
<1>2. CASE call' = Again(call, p) \/ call' = To(call, p, "asleep")
  <2>1. "asleep" \in Places \ {"flushing", "answered", "check"}
    BY DEF Places
  <2> QED BY <1>1, <1>2, <2>1, MovesHonest
<1>3. CASE call' = [call EXCEPT ![p].at = "commit", ![p].src = entry.src]
  <2> DEFINE d == [call[p] EXCEPT !.at = "commit", !.src = entry.src]
  <2>1. d \in CallStates /\ Mute(call[p], d)
    BY <1>1 DEF CallStates, Places, Mute, Replies
  <2>2. call' = [call EXCEPT ![p] = d]
    BY <1>3 DEF IInv, TypeOK
  <2> HIDE DEF d
  <2> QED BY <1>1, <2>1, <2>2, OneMute
<1> QED BY <1>2, <1>3 DEF Reserve

(* InspectJoined: an inspection checks the shared preparation.             *)
LEMMA InspectJoinedHonest ==
  ASSUME IInv, StoredInv, AnswerInv, NEW p \in Callers, InspectJoined(p)
  PROVE  Honestly(call')
<1>1. TypeOK /\ Honestly(call) /\ call \in [Callers -> CallStates] /\ call[p].op = "inspect"
  BY CallersHonest DEF IInv, TypeOK, InspectJoined
<1>2. CASE store # NoOne
  <2>1. call' = [call EXCEPT ![p] = [call[p] EXCEPT !.at = "answered",
                  !.src = [NoSource EXCEPT !.events = Live.log], !.life = store]]
    BY <1>1, <1>2 DEF InspectJoined, Answer
  <2> QED BY <1>1, <1>2, <2>1, LiveAnswers
<1>3. CASE store = NoOne
  <2> DEFINE d == [call[p] EXCEPT !.at = "check"]
  <2>1. d \in CallStates /\ d.at = "check" /\ d.op = "inspect" /\ d.base = call[p].base
    BY <1>1 DEF CallStates, Places
  <2>2. call' = [call EXCEPT ![p] = d]
    BY <1>1, <1>3 DEF InspectJoined, To
  <2> HIDE DEF d
  <2>3. Honest(d)
    BY <1>1, <2>1, CallersHonest DEF Honest, Replies
  <2> QED BY <1>1, <2>1, <2>2, <2>3, OneHonest
<1> QED BY <1>2, <1>3

(* The steps of callers on their own keep every caller honest.             *)
LEMMA CallersStayHonest ==
  ASSUME IInv, StoredInv, AnswerInv, NEW p \in Callers, CallerSteps(p)
  PROVE  Honestly(call')
<1>1. TypeOK /\ Honestly(call)
  BY CallersHonest DEF IInv
<1>2. CASE AwaitRetirement(p) \/ FlushRejected(p)
  <2>1. "cleared" \in Places \ {"flushing", "answered", "check"}
    BY DEF Places
  <2> QED BY <1>1, <1>2, <2>1, MovesHonest DEF AwaitRetirement, FlushRejected
<1> QED BY <1>2, MeetLiveHonest, LoadLiveHonest, JoinHonest, ReserveHonest,
           InspectJoinedHonest DEF CallerSteps

(* Begin: a call notes what was durable when it began.                     *)
LEMMA BeginHonest ==
  ASSUME IInv, StoredInv, AnswerInv, NEW p \in Callers, NEW op \in Calls, Begin(p, op)
  PROVE  Honestly(call')
<1>1. TypeOK /\ Honestly(call) /\ acked \in Logs /\ Begins(acked, disk) /\ disk \in Logs
  BY CallersHonest, Typed DEF IInv, StoredInv
<1> DEFINE d == [Idle EXCEPT !.op = op, !.at = IF op = "append" THEN "append" ELSE "begin",
                    !.base = IF op \in {"inspect", "load"} THEN acked ELSE <<>>]
<1>2. d \in CallStates /\ d.at \in {"append", "begin"} /\ d.base \in {acked, <<>>}
  BY <1>1, IdleCaller DEF CallStates, Places, Idle
<1>3. call' = [call EXCEPT ![p] = d]
  BY DEF Begin
<1> HIDE DEF d
<1>4. Begins(d.base, disk)
  BY <1>1, <1>2, BeginsSelf
<1>5. Honest(d)
  BY <1>2, <1>4 DEF Honest, Replies
<1> QED BY <1>1, <1>2, <1>3, <1>5, OneHonest

(* Abort: a call is given up.                                              *)
LEMMA AbortHonest ==
  ASSUME IInv, AnswerInv, NEW p \in Callers, Abort(p)
  PROVE  Honestly(call')
<1>1. TypeOK /\ Honestly(call) /\ call[p] \in CallStates
  BY CallersHonest DEF IInv
<1>2. CASE call' = [call EXCEPT ![p].aborted = TRUE]
  <2> DEFINE d == [call[p] EXCEPT !.aborted = TRUE]
  <2>1. d \in CallStates /\ Mute(call[p], d)
    BY <1>1 DEF CallStates, Mute, Replies
  <2>2. call' = [call EXCEPT ![p] = d]
    BY <1>2 DEF IInv, TypeOK
  <2> HIDE DEF d
  <2> QED BY <1>1, <2>1, <2>2, OneMute
<1>3. CASE Drop(p, Rejected(call, p)) \/ call' = Rejected(call, p)
  BY <1>1, <1>3, MovesHonest, DropHonest
<1> QED BY <1>2, <1>3 DEF Abort

(* AttachPrepared, ReleaseReservation: the reservation ends.               *)
LEMMA HolderHonest ==
  ASSUME IInv, AnswerInv, NEW p \in Callers, HolderSteps(p)
  PROVE  Honestly(call')
<1>1. TypeOK /\ Honestly(call) /\ Honestly(Returned(call, p))
  BY CallersHonest, MovesHonest DEF IInv
<1>2. Drop(p, Returned(call, p)) \/ call' = Waking(Returned(call, p))
  BY DEF HolderSteps, AttachPrepared, ReleaseReservation
<1> QED BY <1>1, <1>2, DropHonest, RemovedHonest

(* A caller is answered with at least what is stored.                      *)
LEMMA StoreAnswers ==
  ASSUME IInv, AnswerInv, NEW p \in Callers, NEW events \in Logs, Begins(disk, events),
         call[p].op \in {"prepare", "load", "inspect"},
         call[p].op = "load" => ~OpenTurn(events)
  PROVE  Honestly(Answer(call, p, events))
<1> DEFINE d == [call[p] EXCEPT !.at = "answered", !.src = [NoSource EXCEPT !.events = events],
                                !.life = store]
<1>1. /\ call[p] \in CallStates /\ TypeOK /\ Honestly(call) /\ Begins(call[p].base, disk)
      /\ store \in 0..Lives /\ disk \in Logs /\ call[p].base \in Logs
      /\ call \in [Callers -> CallStates]
  BY CallersHonest DEF IInv, TypeOK
<1>2. d \in CallStates
  BY <1>1, AnswerMoves
<1>3. /\ d.life = store /\ d.src.events = events /\ d.at = "answered" /\ d.op = call[p].op
      /\ d.base = call[p].base
  BY <1>1 DEF CallStates, NoSource
<1>4. Answer(call, p, events) = [call EXCEPT ![p] = d]
  BY <1>1 DEF Answer
<1> HIDE DEF d
<1>5. Covered(d)
  BY <1>1, <1>3, BeginsMeets DEF Covered
<1>6. store # NoOne => sess[store].stage # "unborn"
  BY DEF IInv, Lineage
<1>7. Honest(d)
  BY <1>1, <1>3, <1>5, <1>6 DEF Honest, Replies
<1>8. Honestly([call EXCEPT ![p] = d])
  BY <1>1, <1>2, <1>7, OneHonest
<1> QED BY <1>4, <1>8

(* CommitDone: the repaired log is the answer.                             *)
LEMMA CommitDoneHonest ==
  ASSUME IInv, AnswerInv, CommitDone
  PROVE  Honestly(call')
<1> DEFINE p == Head(chain).who
           src == call[p].src
<1>1. /\ chain # <<>> /\ Head(chain).op = "commit" /\ src.rev = Revision /\ ~NeedsRepair(src)
      /\ call[p].aborted => call' = Waking(Rejected(call, p))
      /\ ~call[p].aborted /\ ~call[p].attached => call' = Again(call, p)
      /\ ~call[p].aborted /\ call[p].attached /\ call[p].op = "prepare" =>
           call' = To(call, p, "held")
      /\ ~call[p].aborted /\ call[p].attached /\ call[p].op = "load" =>
           Drop(p, Answer(call, p, src.events))
  BY DEF CommitDone, Stage, Running, Commits
<1>2. /\ p \in Callers /\ TypeOK /\ call[p].op \in {"prepare", "load"} /\ Faithful(src)
      /\ Honestly(call)
  BY <1>1, CommitIs, CallersHonest
<1> HIDE DEF src
<1>3. src.events = disk /\ ~OpenTurn(disk) /\ disk \in Logs
  BY <1>1, <1>2, SourceIs DEF TypeOK
<1> HIDE DEF p
<1>4. Honestly(Answer(call, p, src.events))
  BY <1>2, <1>3, BeginsSelf, StoreAnswers
<1>5. "held" \in Places \ {"flushing", "answered", "check"}
  BY DEF Places
<1>6. CASE call[p].aborted
  BY <1>1, <1>2, <1>6, MovesHonest, RemovedHonest
<1>7. CASE ~call[p].aborted /\ ~call[p].attached
  BY <1>1, <1>2, <1>7, MovesHonest
<1>8. CASE ~call[p].aborted /\ call[p].attached /\ call[p].op = "prepare"
  BY <1>1, <1>2, <1>5, <1>8, MovesHonest
<1>9. CASE ~call[p].aborted /\ call[p].attached /\ call[p].op = "load"
  BY <1>1, <1>2, <1>4, <1>9, DropHonest
<1> QED BY <1>2, <1>6, <1>7, <1>8, <1>9

(* A commit at the head that does not answer its caller.                   *)
LEMMA CommitStaysHonest ==
  ASSUME IInv, AnswerInv, CommitStarts \/ CommitOutdated \/ CommitRepaired \/ CommitRepairFails
  PROVE  Honestly(call')
<1>1. chain # <<>> /\ Head(chain).op = "commit"
  BY DEF CommitStarts, CommitOutdated, CommitRepaired, CommitRepairFails, Stage, Running
<1>2. Head(chain).who \in Callers /\ TypeOK /\ Honestly(call)
  BY <1>1, CommitIs, CallersHonest
<1>3. \/ call' = call
      \/ LET p == Head(chain).who IN Drop(p, Rejected(call, p)) \/ Drop(p, Again(call, p))
  BY DEF CommitStarts, CommitOutdated, CommitRepaired, CommitRepairFails
<1> QED BY <1>2, <1>3, MovesHonest, DropHonest

(* ReadDone: the preparation is read from the store.                       *)
LEMMA ReadDoneHonest ==
  ASSUME IInv, StoredInv, AnswerInv, ReadDone
  PROVE  Honestly(call')
<1>1. TypeOK /\ Honestly(call) /\ \A q \in Callers : call[q] \in CallStates /\ Honest(call[q])
  BY CallersHonest DEF IInv
<1>2. CASE Exists
  <2>1. /\ DOMAIN call' = Callers /\ call' = [q \in Callers |-> call'[q]]
        /\ \A q \in Callers :
             call'[q] \in {call[q], [call[q] EXCEPT !.at = "joined", !.src = Prepared]}
    BY <1>2 DEF ReadDone
  <2>2. \A q \in Callers : LET d == [call[q] EXCEPT !.at = "joined", !.src = Prepared] IN
          d \in CallStates /\ Mute(call[q], d)
    BY <1>1, PreparedSource DEF CallStates, Places, Mute, Replies
  <2>3. ASSUME NEW q \in Callers
        PROVE  call'[q] \in CallStates /\ Honest(call'[q])
    <3> DEFINE d == [call[q] EXCEPT !.at = "joined", !.src = Prepared]
    <3>1. d \in CallStates /\ Mute(call[q], d) /\ call'[q] \in {call[q], d}
      BY <2>1, <2>2
    <3> HIDE DEF d
    <3>2. Honest(d)
      BY <1>1, <3>1, MuteHonest
    <3> QED BY <1>1, <3>1, <3>2
  <2> QED BY <2>1, <2>3 DEF Honestly
<1>3. CASE ~Exists
  <2>1. /\ DOMAIN call' = Callers /\ call' = [q \in Callers |-> call'[q]]
        /\ \A q \in Callers :
             \/ call'[q] = call[q]
             \/ call'[q] = Rejected(call, q)[q]
             \/ /\ call[q].op = "inspect" /\ store # NoOne
                /\ call'[q] = Answer(call, q, Live.log)[q]
    BY <1>3 DEF ReadDone
  <2>2. \A q \in Callers : Honestly(Rejected(call, q))
    BY <1>1, MovesHonest
  <2>3. \A q \in Callers : call[q].op = "inspect" /\ store # NoOne =>
          Honestly(Answer(call, q, Live.log))
    <3> SUFFICES ASSUME NEW q \in Callers, call[q].op = "inspect", store # NoOne
                 PROVE  Honestly(Answer(call, q, Live.log))
      OBVIOUS
    <3>1. Answer(call, q, Live.log) = [call EXCEPT ![q] = [call[q] EXCEPT !.at = "answered",
            !.src = [NoSource EXCEPT !.events = Live.log], !.life = store]]
      BY <1>1 DEF Answer, Honestly
    <3> QED BY <3>1, LiveAnswers
  <2>4. \A q \in Callers : call'[q] \in CallStates /\ Honest(call'[q])
    BY <1>1, <2>1, <2>2, <2>3 DEF Honestly
  <2> QED BY <2>1, <2>4 DEF Honestly
<1> QED BY <1>2, <1>3

(* InspectChecked: the preparation is still what is stored.                *)
LEMMA InspectCheckedHonest ==
  ASSUME IInv, StoredInv, FreshInv, AnswerInv, InspectChecked
  PROVE  Honestly(call')
<1> DEFINE p == Head(chain).who
           src == call[p].src
<1>1. chain # <<>> /\ Head(chain).op = "check" /\ Head(chain) = chain[1]
  BY FirstIs DEF InspectChecked, Running
<1>2. /\ p \in Callers /\ call[p].at = "check" /\ TypeOK /\ Honestly(call)
      /\ call \in [Callers -> CallStates]
  BY <1>1, FirstIs, NowIs, CallersHonest DEF Fits, IInv, TypeOK
<1>3. Faithful(src) /\ src.rev # <<>> /\ call[p].op \in {"prepare", "load", "inspect"}
  BY <1>2 DEF IInv, Preparation, Sound
<1>4. call[p].op = "inspect"
  BY <1>2 DEF AnswerInv, Honest
<1>5. CASE store # NoOne
  <2>1. call' = Answer(call, p, Live.log)
    BY <1>5 DEF InspectChecked
  <2>2. call' = [call EXCEPT ![p] = [call[p] EXCEPT !.at = "answered",
                  !.src = [NoSource EXCEPT !.events = Live.log], !.life = store]]
    BY <1>2, <2>1 DEF Answer
  <2> QED BY <1>2, <1>4, <1>5, <2>2, LiveAnswers
<1>6. CASE store = NoOne /\ (src.rev = Revision \/ (entry.phase \notin {"none", "ready"}
                                                    /\ entry.src = src))
  <2>1. call' = Answer(call, p, src.events)
    BY <1>6 DEF InspectChecked, Current
  <2>2. src.rev = Revision
    <3>1. CASE entry.phase \notin {"none", "ready"} /\ entry.src = src
      <4>1. entry.phase \in {"committing", "reserved"}
        BY <1>3, <3>1 DEF IInv, TypeOK, Preparation, Phases
      <4>2. Fresh(entry.src)
        BY <1>1, <4>1 DEF FreshInv
      <4> QED BY <3>1, <4>2 DEF Fresh
    <3> QED BY <1>6, <3>1
  <2> HIDE DEF src
  <2>3. src.events = Stored \o ClosersOf(Stored)
    BY <1>2, <1>3, <2>2, SourceIs
  <2>4. /\ Stored \in Logs /\ ClosersOf(Stored) \in Logs /\ disk \in Logs /\ Begins(disk, Stored)
    BY <1>2, Typed, PreparedSource
  <2>5. src.events \in Logs /\ Begins(disk, src.events)
    <3> DEFINE s == Stored
               k == ClosersOf(Stored)
    <3>1. s \in Logs /\ k \in Logs /\ Begins(disk, s) /\ src.events = s \o k
      BY <2>3, <2>4
    <3> HIDE DEF s, k
    <3>2. s \o k \in Logs
      BY <3>1, ConcatProperties DEF Logs
    <3> QED BY <2>4, <3>1, <3>2, BeginsGrows
  <2> QED BY <1>2, <1>4, <2>1, <2>5, StoreAnswers
<1>7. CASE \/ \E c : c = Again(call, p) /\ call' = c
           \/ call' = RemovedFor(Again(call, p))
  BY <1>2, <1>7, MovesHonest, RemovedHonest
<1> QED BY <1>5, <1>6, <1>7 DEF InspectChecked, Current

(* A write at the head answers nobody.                                     *)
LEMMA WritesHonest ==
  ASSUME IInv, AnswerInv,
         WriteStarts \/ AdoptRepairs \/ AdoptDone \/ WriteRefused \/ WriteDone
  PROVE  Honestly(call')
<1>1. /\ TypeOK /\ Honestly(call) /\ IsWrite
      /\ chain # <<>> /\ (Head(chain).op = "append" => Who \in Callers)
  BY CallersHonest, AppendIs
     DEF IInv, WriteStarts, AdoptRepairs, AdoptDone, WriteRefused, WriteDone, IsWrite
<1>2. CASE Rejects
  BY <1>1, <1>2, MovesHonest DEF Rejects
<1>3. CASE call' = call \/ call' = RemovedFor(call)
  BY <1>1, <1>3, RemovedHonest
<1>4. CASE Head(chain).op = "append" /\ call' = RemovedFor(Returned(call, Who))
  BY <1>1, <1>4, MovesHonest, RemovedHonest
<1> QED BY <1>2, <1>3, <1>4
        DEF WriteStarts, AdoptRepairs, AdoptDone, WriteRefused, Requeued, WriteDone

(* Whoever was answered was answered honestly, whatever the step.          *)
LEMMA StepHonest ==
  ASSUME IInv, StoredInv, FreshInv, AnswerInv, [Next]_vars
  PROVE  Honestly(call')
<1>1. TypeOK /\ Honestly(call)
  BY CallersHonest DEF IInv
<1>2. CASE call' = call
  BY <1>1, <1>2
<1>3. CASE Evict
  BY <1>1, <1>3, RemovedHonest DEF Evict
<1>4. CASE Crash
  <2>1. call' = [q \in Callers |-> Idle]
    BY <1>4 DEF Crash
  <2>2. Idle \in CallStates /\ \A q \in Callers : Mute(call[q], Idle)
    BY IdleCaller DEF Idle, Mute, Replies
  <2>3. \A q \in Callers : Honest(Idle)
    BY <1>1, <2>2, MuteHonest DEF Honestly
  <2> QED BY <2>1, <2>2, <2>3 DEF Honestly
<1>5. CASE ChainSteps
  <2>1. CASE CommitStartsRepair \/ ClaimTracked \/ AdoptLivePrefix \/ CreateNew \/ Released
    BY <1>2, <2>1 DEF CommitStartsRepair, ClaimTracked, AdoptLivePrefix, CreateNew, Released
  <2> QED BY <1>5, <2>1, ReadDoneHonest, CommitStaysHonest, CommitDoneHonest,
             InspectCheckedHonest, WritesHonest DEF ChainSteps
<1>6. ASSUME NEW l \in 1..Lives, LifeSteps(l)
      PROVE  Honestly(call')
  BY <1>2, <1>6 DEF LifeSteps, QueueBatch, QueueRelease, RetireFails
<1>7. ASSUME NEW seeded \in BOOLEAN, Create(seeded)
      PROVE  Honestly(call')
  BY <1>2, <1>7 DEF Create
<1>8. CASE Emit \/ Dispose \/ Reload \/ Foreign \/ UNCHANGED vars
  BY <1>2, <1>8 DEF Emit, Dispose, Reload, Foreign, vars
<1> QED BY <1>3, <1>4, <1>5, <1>6, <1>7, <1>8, BeginHonest, CallersStayHonest, HolderHonest,
           AbortHonest, CommitStaysHonest, WritesHonest DEF Next

-----------------------------------------------------------------------------
(* What is stored only grows.                                              *)
LEMMA ReloadGrows ==
  ASSUME IInv, StoredInv, Reload
  PROVE  Begins(disk, disk')
<1>1. TypeOK /\ disk \in Logs
  BY DEF IInv, TypeOK
<1>2. CASE UNCHANGED storage
  BY <1>1, <1>2, BeginsSelf DEF storage
<1>3. CASE state.owner # NoOne /\ sess[state.owner].init = "ok"
           /\ disk' = disk \o Unwritten(state.owner)
  <2> DEFINE g == sess[state.owner].log
  <2>1. state.owner \in 1..Lives /\ state.cursor \in Nat /\ g \in Logs
    BY <1>1, <1>3, Typed DEF TypeOK, States, NoOne
  <2>2. Unwritten(state.owner) = SubSeq(g, state.cursor + 1, Len(g))
    BY DEF Unwritten
  <2>3. CASE g = <<>>
    <3>1. Len(g) = 0 /\ state.cursor + 1 > 0
      BY <2>1, <2>3
    <3>2. SubSeq(g, state.cursor + 1, Len(g)) = <<>>
      BY <2>1, <3>1, SubSeqEmpty
    <3>3. disk' = disk
      BY <1>1, <1>3, <2>2, <3>2, ConcatEmptySeq DEF Logs
    <3> QED BY <1>1, <3>3, BeginsSelf
  <2>4. CASE g # <<>>
    <3>1. state.cursor = Len(disk) /\ Begins(disk, g)
      BY <1>3, <2>1, <2>4 DEF StoredInv
    <3>2. disk' = g
      BY <1>1, <1>3, <2>1, <2>2, <3>1, BeginsRest
    <3> QED BY <3>1, <3>2
  <2> QED BY <2>3, <2>4
<1> QED BY <1>2, <1>3 DEF Reload

(* Foreign: another process repairs the stored log and extends it.         *)
LEMMA ForeignGrows ==
  ASSUME IInv, Foreign
  PROVE  Begins(disk, disk')
<1> DEFINE s == Stored
           k == ClosersOf(Stored)
           n == <<Ev("note", NoOne)>>
           t == Prepared.events
<1>1. s \in Logs /\ k \in Logs /\ disk \in Logs /\ Begins(disk, s) /\ t = s \o k
  BY Typed, PreparedSource DEF IInv
<1>2. n \in Logs /\ Ev("note", NoOne) \in LogEvents
  BY DEF Ev, Logs, LogEvents, NoOne
<1>3. disk' = Append(t, Ev("note", NoOne))
  BY DEF Foreign
<1> HIDE DEF s, k, t
<1>4. t \in Logs /\ Begins(disk, t)
  BY <1>1, ConcatProperties, BeginsGrows DEF Logs
<1>5. disk' = t \o n
  BY <1>2, <1>3, <1>4, AppendIsConcat DEF Logs
<1> HIDE DEF n
<1> QED BY <1>1, <1>2, <1>4, <1>5, BeginsGrows

(* A repair cuts only what is torn, and appends.                           *)
LEMMA RepairsGrow ==
  ASSUME IInv, StoredInv, FreshInv, CommitRepaired \/ AdoptRepairs
  PROVE  Begins(disk, disk')
<1>1. TypeOK
  BY DEF IInv
<1>2. CASE AdoptRepairs
  BY <1>1, <1>2, PreparedSource, RepairWrites DEF AdoptRepairs
<1>3. CASE CommitRepaired
  <2>1. chain # <<>> /\ Head(chain).op = "commit" /\ Head(chain).stage = "repairing"
    BY <1>3 DEF CommitRepaired, Stage, Running
  <2>2. Head(chain) = chain[1]
    BY <2>1, FirstIs
  <2> DEFINE p == Head(chain).who
  <2>3. Faithful(call[p].src) /\ call[p].src.rev = Revision
    BY <2>1, <2>2, CommitIs DEF FreshInv, Fresh, Repairs
  <2>4. call[p].src.closers = ClosersOf(Stored) /\ WriteRepair(call[p].src.closers)
    BY <1>1, <1>3, <2>3, SourceIs DEF CommitRepaired
  <2> QED BY <1>1, <2>4, RepairWrites
<1> QED BY <1>2, <1>3

(* AdoptLivePrefix: a torn frame is cut, what it holds is kept.            *)
LEMMA AdoptionGrows ==
  ASSUME IInv, AdoptLivePrefix
  PROVE  Begins(disk, disk')
<1>1. disk \in Logs /\ Stored \in Logs /\ Begins(disk, Stored) /\ Stored \o <<>> = Stored
  BY Typed, ConcatEmptySeq DEF IInv, Logs
<1>2. (UNCHANGED storage) \/ WriteRepair(<<>>)
  BY DEF AdoptLivePrefix, AdoptionClosers
<1> QED BY <1>1, <1>2, BeginsSelf DEF storage, WriteRepair

(* No step takes anything back that is stored.                             *)
LEMMA StepGrows ==
  ASSUME IInv, StoredInv, FreshInv, [Next]_vars
  PROVE  Begins(disk, disk')
<1>1. disk \in Logs
  BY DEF IInv, TypeOK
<1>2. CASE disk' = disk
  BY <1>1, <1>2, BeginsSelf
<1>3. CASE WriteDone
  BY <1>1, <1>3, WrittenIs, BeginsSelf, BeginsGrows
<1>4. CASE ChainSteps
  <2>1. CASE \/ ReadDone \/ CommitStarts \/ CommitOutdated \/ CommitDone \/ CommitStartsRepair
             \/ InspectChecked \/ WriteStarts \/ AdoptDone \/ ClaimTracked \/ CreateNew
             \/ Released
    BY <1>2, <2>1
       DEF ReadDone, CommitStarts, CommitOutdated, CommitDone, CommitStartsRepair,
           InspectChecked, WriteStarts, AdoptDone, ClaimTracked, CreateNew, Released, storage
  <2> QED BY <1>3, <1>4, <2>1, RepairsGrow, AdoptionGrows DEF ChainSteps
<1>5. ASSUME NEW p \in Callers,
             \/ \E op \in Calls : Begin(p, op)
             \/ CallerSteps(p) \/ HolderSteps(p) \/ Abort(p)
      PROVE  Begins(disk, disk')
  BY <1>2, <1>5 DEF CallerSteps, Begin, AwaitRetirement, MeetLive, LoadLive, FlushRejected, Join,
       Reserve, InspectJoined, Abort, HolderSteps, AttachPrepared, ReleaseReservation, storage
<1>6. ASSUME NEW l \in 1..Lives, LifeSteps(l)
      PROVE  Begins(disk, disk')
  BY <1>2, <1>6 DEF LifeSteps, QueueBatch, QueueRelease, RetireFails, storage
<1>7. ASSUME NEW seeded \in BOOLEAN, Create(seeded)
      PROVE  Begins(disk, disk')
  BY <1>2, <1>7 DEF Create, storage
<1>8. CASE \/ CommitRepairFails \/ WriteRefused \/ Emit \/ Dispose \/ Evict
           \/ UNCHANGED vars
  BY <1>2, <1>8 DEF CommitRepairFails, WriteRefused, Emit, Dispose, Evict, storage, vars
<1> QED BY <1>4, <1>5, <1>6, <1>7, <1>8, ReloadGrows, ForeignGrows, CrashLeaves DEF Next

-----------------------------------------------------------------------------
(* What Sessions do while somebody waits for their answer.                 *)

(* A published Session stays published, its log grows by its own events,   *)
(* and when its initialization succeeds its log covers what is stored.     *)
Goes(l) ==
  sess[l].stage # "unborn" =>
    /\ sess'[l].stage # "unborn"
    /\ sess'[l].stage \in {"live", "retiring"} =>
         /\ sess[l].stage \in {"live", "retiring"}
         /\ \/ sess'[l].log = sess[l].log
            \/ \E e \in LogEvents : e.by = l /\ sess'[l].log = Append(sess[l].log, e)
    /\ sess'[l].init = "ok" /\ sess[l].init # "ok" =>
         /\ sess[l].stage \in {"live", "retiring"} /\ Begins(disk', sess[l].log)

(* A Session that goes on as it was.                                       *)
LEMMA OneGoes ==
  ASSUME IInv, NEW n \in 1..Lives, \A k \in 1..Lives : k # n => sess'[k] = sess[k],
         sess[n].stage # "unborn" => Goes(n)
  PROVE  \A l \in 1..Lives : Goes(l)
  BY DEF Goes

(* The initialization of a Session is settled.                             *)
LEMMA SettledGoes ==
  ASSUME IInv, NEW n \in 1..Lives, sess[n].stage \in {"live", "retiring"},
         NEW init \in {"ok", "failed"}, sess' = [sess EXCEPT ![n].init = init],
         init = "ok" => Begins(disk', sess[n].log)
  PROVE  \A l \in 1..Lives : Goes(l)
<1>1. /\ sess'[n].init = init /\ sess'[n].stage = sess[n].stage /\ sess'[n].log = sess[n].log
      /\ \A k \in 1..Lives : k # n => sess'[k] = sess[k]
  BY DEF IInv, TypeOK, Sessions
<1>2. Goes(n)
  BY <1>1 DEF Goes
<1> QED BY <1>1, <1>2, OneGoes

(* A Session claims what it was published with.                            *)
LEMMA ClaimGoes ==
  ASSUME IInv, Running("created"), Begins(disk', Events), disk' \in Logs,
         Claim(Who, Len(disk'), Events)
  PROVE  \A l \in 1..Lives : Goes(l)
<1>1. /\ Who \in 1..Lives /\ sess[Who].stage \in {"live", "retiring"} /\ Events \in Logs
      /\ Begins(Events, sess[Who].log) /\ sess[Who].log \in Logs
  BY CreatedIs DEF Sessions
<1>2. CASE sess' = sess
  BY <1>2 DEF Goes
<1>3. CASE sess' = [sess EXCEPT ![Who].init = "ok"]
  <2>1. Begins(disk', sess[Who].log)
    BY <1>1, BeginsMeets
  <2> QED BY <1>1, <1>3, <2>1, SettledGoes
<1> QED BY <1>2, <1>3 DEF Claim

(* Collision: the new Session is refused.                                  *)
LEMMA CollisionGoes ==
  ASSUME IInv, Running("created"), Collision(Who)
  PROVE  \A l \in 1..Lives : Goes(l)
  BY CreatedIs, SettledGoes DEF Collision

(* ClaimTracked: the new Session claims a known id, or is refused it.      *)
LEMMA ClaimTrackedGoes ==
  ASSUME IInv, ClaimTracked
  PROVE  \A l \in 1..Lives : Goes(l)
<1>1. /\ Running("created") /\ state.known /\ UNCHANGED storage /\ TypeOK
  BY DEF ClaimTracked, IInv
<1>2. CASE sess' = sess
  BY <1>2 DEF Goes
<1>3. CASE Collision(Who)
  BY <1>1, <1>3, CollisionGoes
<1>4. CASE /\ state.owner = NoOne
           /\ state.cursor = 0 \/ IsPrefix(SubSeq(Stored, 1, state.cursor), Events)
           /\ Claim(Who, state.cursor, Events)
  <2>1. /\ disk \in Logs /\ ~tear.torn /\ state.cursor = Len(disk) /\ Events \in Logs
        /\ Stored = disk /\ disk' = disk
    BY <1>1, <1>4, CreatedIs, Typed DEF IInv, Ownership, storage
  <2>2. SubSeq(Stored, 1, state.cursor) = disk
    BY <2>1, SubSeqFull DEF Logs
  <2>3. Begins(disk, Events)
    <3>1. CASE state.cursor = 0
      <4>1. disk = <<>>
        BY <3>1, <2>1, EmptySeq DEF Logs
      <4> QED BY <4>1, <2>1, BeginsSelf
    <3>2. CASE state.cursor # 0
      BY <3>2, <1>4, <2>1, <2>2, BeginsIsPrefix
    <3> QED BY <3>1, <3>2
  <2> QED BY <1>1, <1>4, <2>1, <2>3, ClaimGoes
<1> QED BY <1>2, <1>3, <1>4 DEF ClaimTracked

(* AdoptLivePrefix: the Session begins with the stored log, or fails.      *)
LEMMA AdoptLivePrefixGoes ==
  ASSUME IInv, AdoptLivePrefix
  PROVE  \A l \in 1..Lives : Goes(l)
<1>1. /\ Running("created") /\ TypeOK
  BY DEF AdoptLivePrefix, IInv
<1>2. CASE Collision(Who)
  BY <1>1, <1>2, CollisionGoes
<1>3. CASE /\ IsPrefix(Stored, Events) /\ Claim(Who, Len(Stored), Events)
           /\ IF tear.torn THEN WriteRepair(<<>>) ELSE UNCHANGED storage
  <2>1. Stored \in Logs /\ Events \in Logs /\ (~tear.torn => Stored = disk)
        /\ Stored \o <<>> = Stored
    BY <1>1, Typed, CreatedIs, ConcatEmptySeq DEF Logs
  <2>2. Begins(Stored, Events)
    BY <1>3, <2>1, BeginsIsPrefix
  <2>3. disk' = Stored
    BY <1>3, <2>1 DEF WriteRepair, storage
  <2>4. Begins(disk', Events) /\ disk' \in Logs /\ Claim(Who, Len(disk'), Events)
    BY <1>3, <2>1, <2>2, <2>3
  <2> QED BY <1>1, <2>4, ClaimGoes
<1> QED BY <1>2, <1>3 DEF AdoptLivePrefix, AdoptionClosers

(* CreateNew: nothing is stored yet.                                       *)
LEMMA CreateNewGoes ==
  ASSUME IInv, CreateNew
  PROVE  \A l \in 1..Lives : Goes(l)
<1>1. Running("created") /\ disk = <<>> /\ disk' = disk
  BY DEF CreateNew, Exists, storage
<1>2. CASE Collision(Who)
  BY <1>1, <1>2, CollisionGoes
<1>3. CASE Claim(Who, 0, Events)
  <2>1. disk' \in Logs /\ Begins(disk', Events) /\ Len(disk') = 0
    BY <1>1, CreatedIs, BeginsSelf DEF IInv, TypeOK
  <2> QED BY <1>1, <1>3, <2>1, ClaimGoes
<1> QED BY <1>2, <1>3 DEF CreateNew

(* A Session is refused the id.                                            *)
LEMMA RejectsGoes ==
  ASSUME IInv, IsWrite, Rejects
  PROVE  \A l \in 1..Lives : Goes(l)
<1>1. CASE Head(chain).op = "append"
  BY <1>1 DEF Rejects, Goes
<1>2. CASE Head(chain).op \in {"batch", "suffix"}
  <2>1. /\ Who \in 1..Lives /\ sess[Who].stage \in {"live", "retiring"}
        /\ sess[Who].init = IF Head(chain).op = "suffix" THEN "pending" ELSE "ok"
        /\ sess \in [1..Lives -> Sessions]
    BY <1>2, WriterIs DEF IsWrite, IInv, TypeOK
  <2> DEFINE s == [sess[Who] EXCEPT
                     !.init = IF Head(chain).op = "suffix" THEN "failed" ELSE @,
                     !.stage = IF Head(chain).op = "batch" /\ @ = "retiring"
                               THEN "stuck" ELSE @]
  <2>4. s.log = sess[Who].log /\ s.stage \in {sess[Who].stage, "stuck"}
        /\ s.init = IF Head(chain).op = "suffix" THEN "failed" ELSE sess[Who].init
    BY <2>1 DEF Sessions
  <2>5. sess' = [sess EXCEPT ![Who] = s]
    BY <1>2, <2>1 DEF Rejects, Sessions
  <2> HIDE DEF s
  <2>2. sess'[Who] = s /\ \A k \in 1..Lives : k # Who => sess'[k] = sess[k]
    BY <2>1, <2>5
  <2>3. Goes(Who)
    BY <2>1, <2>2, <2>4 DEF Goes
  <2> QED BY <2>1, <2>2, <2>3, OneGoes
<1> QED BY <1>1, <1>2 DEF IsWrite

(* WriteDone: a suffix that is stored settles its Session.                 *)
LEMMA WriteDoneGoes ==
  ASSUME IInv, WriteDone
  PROVE  \A l \in 1..Lives : Goes(l)
<1>1. CASE Head(chain).op # "suffix"
  BY <1>1 DEF WriteDone, Goes
<1>2. CASE Head(chain).op = "suffix"
  <2>1. /\ Who \in 1..Lives /\ sess[Who].stage \in {"live", "retiring"}
        /\ Begins(disk', sess[Who].log) /\ sess' = [sess EXCEPT ![Who].init = "ok"]
    BY <1>2, WriterIs, WrittenIs DEF WriteDone, IsWrite
  <2> QED BY <2>1, SettledGoes
<1> QED BY <1>1, <1>2

(* Emit: the log of the live Session grows.                                *)
LEMMA EmitGoes ==
  ASSUME IInv, Emit
  PROVE  \A l \in 1..Lives : Goes(l)
<1>1. /\ store \in 1..Lives /\ sess[store].stage = "live" /\ sess \in [1..Lives -> Sessions]
      /\ store \in Nat
  BY LiveLog, CoordinatorAssumption DEF Emit, IInv, TypeOK, Lineage
<1>2. PICK e : e = Ev(IF OpenTurn(sess[store].log) THEN "close" ELSE "open", store)
  OBVIOUS
<1>3. e \in LogEvents /\ e.by = store
  BY <1>1, <1>2 DEF Ev, LogEvents
<1>4. sess' = [sess EXCEPT ![store].log = Append(sess[store].log, e)]
  BY <1>2 DEF Emit
<1>5. /\ sess'[store].stage = "live" /\ sess'[store].init = sess[store].init
      /\ sess'[store].log = Append(sess[store].log, e)
      /\ \A k \in 1..Lives : k # store => sess'[k] = sess[k]
  BY <1>1, <1>4 DEF Sessions
<1>6. Goes(store)
  BY <1>1, <1>3, <1>5 DEF Goes
<1> QED BY <1>1, <1>5, <1>6, OneGoes

(* The live Session is disposed, released, or its retirement fails.        *)
LEMMA EndsGoes ==
  ASSUME IInv, Dispose \/ Released \/ \E l \in 1..Lives : RetireFails(l)
  PROVE  \A l \in 1..Lives : Goes(l)
<1>1. sess \in [1..Lives -> Sessions] /\ TypeOK
  BY DEF IInv, TypeOK
<1>2. CASE Dispose
  <2>1. store \in 1..Lives /\ sess[store].stage = "live"
    BY <1>1, <1>2, LiveLog DEF Dispose, IInv, Lineage
  <2>2. /\ sess'[store].stage = "retiring" /\ sess'[store].init = sess[store].init
        /\ sess'[store].log = sess[store].log
        /\ \A k \in 1..Lives : k # store => sess'[k] = sess[k]
    BY <1>1, <1>2, <2>1 DEF Dispose, Sessions
  <2>3. Goes(store)
    BY <2>1, <2>2 DEF Goes
  <2> QED BY <2>1, <2>2, <2>3, OneGoes
<1>3. CASE Released
  <2>1. Who \in 1..Lives
    BY <1>3, FirstIs, NowIs DEF Released, Running, Fits, Who
  <2>2. /\ sess'[Who].stage = "gone" /\ sess'[Who].init = sess[Who].init
        /\ \A k \in 1..Lives : k # Who => sess'[k] = sess[k]
    BY <1>1, <1>3, <2>1 DEF Released, Sessions
  <2>3. Goes(Who)
    BY <2>1, <2>2 DEF Goes
  <2> QED BY <2>1, <2>2, <2>3, OneGoes
<1>4. ASSUME NEW n \in 1..Lives, RetireFails(n)
      PROVE  \A l \in 1..Lives : Goes(l)
  <2>1. /\ sess'[n].stage = "stuck" /\ sess'[n].init = sess[n].init
        /\ \A k \in 1..Lives : k # n => sess'[k] = sess[k]
    BY <1>1, <1>4 DEF RetireFails, Sessions
  <2>2. Goes(n)
    BY <2>1 DEF Goes
  <2> QED BY <2>1, <2>2, OneGoes
<1> QED BY <1>2, <1>3, <1>4

(* Reload, Crash: Sessions are gone; a reloaded live one starts over.      *)
LEMMA UpsetGoes ==
  ASSUME IInv, Reload \/ Crash
  PROVE  \A l \in 1..Lives : Goes(l)
<1>1. sess \in [1..Lives -> Sessions]
  BY DEF IInv, TypeOK
<1>2. CASE Reload
  <2>1. sess' = [l \in 1..Lives |->
         IF l = store THEN [sess[l] EXCEPT !.init = "pending"]
         ELSE IF sess[l].stage = "unborn" THEN sess[l]
         ELSE [sess[l] EXCEPT !.stage = "gone", !.log = <<>>]]
    BY <1>2 DEF Reload
  <2>2. ASSUME NEW l \in 1..Lives, sess[l].stage # "unborn"
        PROVE  \/ /\ sess'[l].stage = sess[l].stage /\ sess'[l].log = sess[l].log
                  /\ sess'[l].init = "pending"
               \/ sess'[l].stage = "gone" /\ sess'[l].init = sess[l].init
    BY <1>1, <2>1, <2>2 DEF Sessions
  <2>3. ASSUME NEW l \in 1..Lives
        PROVE  sess[l].stage = "live" \/ l # store
    BY <2>3, CoordinatorAssumption DEF IInv, Lineage, NoOne
  <2> QED BY <2>2, <2>3 DEF Goes
<1>3. CASE Crash
  <2>1. sess' = [l \in 1..Lives |->
           IF sess[l].stage = "unborn" THEN sess[l] ELSE [Unborn EXCEPT !.stage = "gone"]]
    BY <1>3 DEF Crash
  <2>2. ASSUME NEW l \in 1..Lives, sess[l].stage # "unborn"
        PROVE  sess'[l].stage = "gone" /\ sess'[l].init = "none"
    BY <2>1, <2>2 DEF Unborn
  <2> QED BY <2>2 DEF Goes
<1> QED BY <1>2, <1>3

(* A Session is born: nobody was promised anything of it.                  *)
LEMMA BirthGoes ==
  ASSUME IInv, NEW s, CanBeBorn, sess' = [sess EXCEPT ![NextLife] = s]
  PROVE  \A l \in 1..Lives : Goes(l)
<1>1. NextLife \in 1..Lives /\ sess[NextLife].stage = "unborn"
  BY NextLifeIs
<1>2. \A k \in 1..Lives : k # NextLife => sess'[k] = sess[k]
  BY DEF IInv, TypeOK
<1> QED BY <1>1, <1>2, OneGoes

(* Whatever Sessions do, nobody who waits for one is misled.               *)
LEMMA StepGoes ==
  ASSUME IInv, [Next]_vars
  PROVE  \A l \in 1..Lives : Goes(l)
<1>1. CASE sess' = sess
  BY <1>1 DEF Goes
<1>2. CASE ChainSteps
  <2>1. CASE \/ ReadDone \/ CommitStarts \/ CommitOutdated \/ CommitDone \/ CommitStartsRepair
             \/ CommitRepaired \/ InspectChecked \/ AdoptRepairs
    BY <1>1, <2>1
       DEF ReadDone, CommitStarts, CommitOutdated, CommitDone, CommitStartsRepair,
           CommitRepaired, InspectChecked, AdoptRepairs
  <2>2. CASE WriteStarts \/ AdoptDone
    <3>1. IsWrite /\ (Rejects \/ sess' = sess)
      BY <2>2 DEF WriteStarts, AdoptDone
    <3> QED BY <1>1, <3>1, RejectsGoes
  <2> QED BY <1>2, <2>1, <2>2, WriteDoneGoes, ClaimTrackedGoes, AdoptLivePrefixGoes,
             CreateNewGoes, EndsGoes DEF ChainSteps
<1>3. CASE WriteRefused
  BY <1>1, <1>3, RejectsGoes DEF WriteRefused, Requeued
<1>4. ASSUME NEW p \in Callers,
             \/ \E op \in Calls : Begin(p, op)
             \/ CallerSteps(p) \/ Abort(p)
      PROVE  \A l \in 1..Lives : Goes(l)
  BY <1>1, <1>4 DEF CallerSteps, Begin, AwaitRetirement, MeetLive, LoadLive, FlushRejected, Join,
       Reserve, InspectJoined, Abort
<1>5. ASSUME NEW p \in Callers, HolderSteps(p)
      PROVE  \A l \in 1..Lives : Goes(l)
  <2>1. (CanBeBorn /\ \E s : sess' = [sess EXCEPT ![NextLife] = s]) \/ sess' = sess
    BY <1>5 DEF HolderSteps, AttachPrepared, ReleaseReservation
  <2> QED BY <1>1, <2>1, BirthGoes
<1>6. ASSUME NEW l \in 1..Lives, LifeSteps(l)
      PROVE  \A k \in 1..Lives : Goes(k)
  <2>1. CASE QueueBatch(l) \/ QueueRelease(l)
    BY <1>1, <2>1 DEF QueueBatch, QueueRelease
  <2> QED BY <1>6, <2>1, EndsGoes DEF LifeSteps
<1>7. ASSUME NEW seeded \in BOOLEAN, Create(seeded)
      PROVE  \A l \in 1..Lives : Goes(l)
  <2>1. CanBeBorn /\ \E s : sess' = [sess EXCEPT ![NextLife] = s]
    BY <1>7 DEF Create
  <2> QED BY <2>1, BirthGoes
<1>8. CASE CommitRepairFails \/ Evict \/ Foreign \/ UNCHANGED vars
  BY <1>1, <1>8 DEF CommitRepairFails, Evict, Foreign, vars
<1> QED BY <1>2, <1>3, <1>4, <1>5, <1>6, <1>7, <1>8, EmitGoes, EndsGoes, UpsetGoes DEF Next

-----------------------------------------------------------------------------
(* The answers, in every state.                                            *)

(* An initialization that succeeds has stored what an answer could miss.   *)
LEMMA AwaitedCovers ==
  ASSUME IInv, NEW c \in CallStates, Awaited(c), Begins(c.base, disk),
         disk' \in Logs, Begins(disk, disk'),
         sess[c.life].stage \in {"live", "retiring"}, Begins(disk', sess[c.life].log)
  PROVE  Covered(c)
<1> DEFINE g == sess[c.life].log
           b == c.base
           e == c.src.events
<1>1. g \in Logs /\ b \in Logs /\ e \in Logs /\ disk \in Logs
  BY CoordinatorAssumption DEF Awaited, NoOne, CallStates, Sources, IInv, TypeOK, Sessions
<1>2. /\ Begins(disk', g) /\ Begins(e, g) /\ Begins(b, disk)
      /\ \A i \in 1..Len(b) : b[i].by = c.life => i <= Len(e)
      /\ \A i \in 1..Len(g) : i > Len(e) => g[i].by = c.life
  BY DEF Awaited
<1> HIDE DEF g, b, e
<1>3. Begins(b, g)
  BY <1>1, <1>2, BeginsMeets
<1>4. Len(b) \in Nat /\ Len(g) \in Nat /\ Len(e) \in Nat
  BY <1>1, LenProperties DEF Logs
<1>5. Len(b) <= Len(e)
  <2> SUFFICES ASSUME Len(b) > Len(e) PROVE FALSE
    BY <1>4
  <2>1. Len(b) \in 1..Len(b) /\ Len(b) \in 1..Len(g)
    BY <1>3, <1>4 DEF Begins
  <2>2. b[Len(b)] = g[Len(b)]
    BY <1>3, <2>1 DEF Begins
  <2>3. Len(b) <= Len(e)
    BY <1>2, <2>1, <2>2
  <2> QED BY <1>4, <2>3
<1>6. Begins(b, e)
  BY <1>2, <1>3, <1>4, <1>5 DEF Begins
<1> QED BY <1>6 DEF Covered, b, e

(* What is awaited of a Session whose log grows is awaited still.          *)
LEMMA AwaitedStays ==
  ASSUME TypeOK, NEW c \in CallStates, NEW g \in Logs, NEW h,
         Begins(c.src.events, g), \A i \in 1..Len(g) : i > Len(c.src.events) => g[i].by = c.life,
         \/ h = g
         \/ \E e \in LogEvents : e.by = c.life /\ h = Append(g, e)
  PROVE  /\ Begins(c.src.events, h)
         /\ \A i \in 1..Len(h) : i > Len(c.src.events) => h[i].by = c.life
<1> DEFINE s == c.src.events
<1>1. s \in Logs
  BY DEF CallStates, Sources
<1> HIDE DEF s
<1>2. Begins(s, g) /\ \A i \in 1..Len(g) : i > Len(s) => g[i].by = c.life
  BY DEF s
<1>3. ASSUME NEW e \in LogEvents, e.by = c.life, h = Append(g, e)
      PROVE  Begins(s, h) /\ \A i \in 1..Len(h) : i > Len(s) => h[i].by = c.life
  <2>1. <<e>> \in Logs /\ h = g \o <<e>>
    BY <1>3, AppendIsConcat DEF Logs
  <2>2. Begins(s, h)
    BY <1>1, <1>2, <2>1, BeginsGrows
  <2>3. Len(h) = Len(g) + 1 /\ h[Len(g) + 1] = e /\ Len(g) \in Nat
        /\ \A i \in 1..Len(g) : h[i] = g[i]
    BY <1>3 DEF Logs
  <2>4. \A i \in 1..Len(h) : i \in 1..Len(g) \/ i = Len(g) + 1
    BY <2>3
  <2> QED BY <1>2, <1>3, <2>2, <2>3, <2>4
<1> QED BY <1>2, <1>3 DEF s

(* A caller that rests stays honest while the store and Sessions go on.    *)
LEMMA RestHonest ==
  ASSUME IInv, IInv', Begins(disk, disk'), \A l \in 1..Lives : Goes(l)
  PROVE  \A c \in CallStates : Honest(c) => Honest(c)'
<1> SUFFICES ASSUME NEW c \in CallStates, Honest(c) PROVE Honest(c)'
  OBVIOUS
<1>1. /\ disk \in Logs /\ disk' \in Logs /\ c.base \in Logs /\ TypeOK
      /\ c.life \in 0..Lives
  BY DEF IInv, TypeOK, CallStates
<1>2. Begins(c.base, disk')
  BY <1>1, BeginsMeets DEF Honest
<1>3. c.life # NoOne => c.life \in 1..Lives
  BY <1>1, CoordinatorAssumption DEF NoOne
<1>4. c.life # NoOne /\ sess[c.life].stage # "unborn" => sess'[c.life].stage # "unborn"
  BY <1>3 DEF Goes
<1>5. ASSUME Awaited(c), sess[c.life].stage # "unborn"
      PROVE  Covered(c) \/ Awaited(c)'
  <2>1. c.life \in 1..Lives /\ Goes(c.life) /\ sess[c.life].init # "ok"
        /\ sess[c.life].log \in Logs
    BY <1>3, <1>5, Typed DEF Awaited, IInv
  <2>2. CASE sess'[c.life].init = "ok"
    <3>1. sess[c.life].stage \in {"live", "retiring"} /\ Begins(disk', sess[c.life].log)
      BY <1>5, <2>1, <2>2 DEF Goes
    <3> QED BY <1>1, <1>5, <3>1, AwaitedCovers DEF Honest
  <2>3. CASE sess'[c.life].init # "ok"
    <3>1. CASE sess'[c.life].stage \in {"live", "retiring"}
      <4>1. /\ sess[c.life].stage \in {"live", "retiring"}
            /\ \/ sess'[c.life].log = sess[c.life].log
               \/ \E e \in LogEvents :
                    e.by = c.life /\ sess'[c.life].log = Append(sess[c.life].log, e)
        BY <1>5, <2>1, <3>1 DEF Goes
      <4>2. /\ Begins(c.src.events, sess'[c.life].log)
            /\ \A i \in 1..Len(sess'[c.life].log) :
                 i > Len(c.src.events) => sess'[c.life].log[i].by = c.life
        BY <1>1, <1>5, <2>1, <4>1, AwaitedStays DEF Awaited
      <4> QED BY <1>5, <2>3, <4>2 DEF Awaited
    <3>2. CASE sess'[c.life].stage \notin {"live", "retiring"}
      BY <1>5, <2>3, <3>2 DEF Awaited
    <3> QED BY <3>1, <3>2
  <2> QED BY <2>2, <2>3
<1>6. Covered(c) => Covered(c)'
  BY DEF Covered
<1> QED BY <1>2, <1>4, <1>5, <1>6 DEF Honest, Replies, Awaited

(* Nobody has been answered before the first call.                         *)
LEMMA InitHonest == Init => AnswerInv
<1> SUFFICES ASSUME Init PROVE AnswerInv
  OBVIOUS
<1>1. \A p \in Callers : call[p] = Idle
  BY DEF Init
<1>2. Idle.base = <<>> /\ Idle.at = "idle" /\ disk = <<>>
  BY DEF Init, Idle
<1>3. <<>> \in Logs
  BY BareSource
<1>4. Begins(<<>>, disk)
  BY <1>2, <1>3, BeginsSelf
<1> QED BY <1>1, <1>2, <1>4 DEF AnswerInv, Honest, Replies

(* The answers, together with what they are taken from.                    *)
LEMMA AnswersHold == Spec => [](IInv /\ StoredInv /\ FreshInv /\ AnswerInv)
<1>1. Init => IInv /\ StoredInv /\ FreshInv /\ AnswerInv
  BY InitEstablishes, InitStored, InitFresh, InitHonest
<1>2. IInv /\ StoredInv /\ FreshInv /\ AnswerInv /\ [Next]_vars
        => (IInv /\ StoredInv /\ FreshInv /\ AnswerInv)'
  <2> SUFFICES ASSUME IInv, StoredInv, FreshInv, AnswerInv, [Next]_vars
               PROVE  (IInv /\ StoredInv /\ FreshInv /\ AnswerInv)'
    OBVIOUS
  <2>1. IInv' /\ StoredInv' /\ FreshInv'
    BY StepKeeps, StepStored, StepFresh
  <2>2. Begins(disk, disk') /\ \A l \in 1..Lives : Goes(l)
    BY StepGrows, StepGoes
  <2>3. \A c \in CallStates : Honest(c) => Honest(c)'
    BY <2>1, <2>2, RestHonest
  <2>4. Honestly(call')
    BY StepHonest
  <2>5. \A p \in Callers : Honest(call[p])'
    BY <2>3, <2>4 DEF Honestly
  <2> QED BY <2>1, <2>5 DEF AnswerInv
<1> QED BY <1>1, <1>2, PTL DEF Spec

(* An answer covers what was durable when it was asked for: what is stored *)
(* only grows, a preparation is answered from only while it is fresh, and  *)
(* what a live Session lacks of the store makes its initialization fail    *)
(* (coordinator load, inspect; preparations inspect).                      *)
THEOREM AnswersAlwaysCover == Spec => []AnswersCover
<1>1. IInv /\ AnswerInv => AnswersCover
  <2> SUFFICES ASSUME IInv, AnswerInv, NEW p \in Callers, call[p].at = "answered"
               PROVE  /\ (call[p].life # NoOne => sess[call[p].life].init = "ok")
                         => IsPrefix(call[p].base, call[p].src.events)
                      /\ call[p].op = "load" => ~OpenTurn(call[p].src.events)
    BY DEF AnswersCover
  <2>1. Honest(call[p]) /\ call[p].base \in Logs /\ call[p].src.events \in Logs
    BY Typed DEF AnswerInv, IInv
  <2>2. Covered(call[p]) => IsPrefix(call[p].base, call[p].src.events)
    BY <2>1, BeginsIsPrefix DEF Covered
  <2> QED BY <2>1, <2>2 DEF Honest, Replies, Awaited
<1> QED BY <1>1, AnswersHold, PTL

=============================================================================
