------------------------ MODULE SessionLifecycleProofs ------------------------
(***************************************************************************)
(* Proofs about the publication of sessions and agents, for any number of  *)
(* transactions, listeners and events: whatever listeners append, unload   *)
(* or detach on the stack of a dispatch, every listener sees an attached   *)
(* Session's events in order, creations and disposals pair up, and the two *)
(* registries agree.                                                       *)
(***************************************************************************)
EXTENDS Services, Sequences, SequenceTheorems, TLAPS

Ids == Publication!Txs
Agents == Publication!Agents
Nobody == Publication!Nobody
Edges == Publication!Edges

Entries == [tx : Ids \cup {Nobody}, announced : BOOLEAN, announcing : BOOLEAN,
            appending : BOOLEAN, leaving : BOOLEAN]
Early == {"new", "loading", "loaded", "setup", "ready"}
Transactions ==
  [stage : Early \cup {"publishing", "live", "unwinding", "ended"},
   disp : {"none", "stopping", "done"}, owned : BOOLEAN, cancelled : BOOLEAN]
Frames == [edge : Edges \cup {"leave"}, tx : Ids, to : 1..(Listeners + 1), seq : Nat]

LifeTypes ==
  /\ reg \in [session : Entries, agent : Entries]
  /\ tx \in [Ids -> Transactions]
  /\ frames \in Seq(Frames)
  /\ sessionLog \in [Ids -> Nat]
  /\ seen \in [1..Listeners -> [Ids -> [Edges -> Nat]]]
  /\ factory \in {"active", "closing", "gone"} /\ waiter \in {"none", "waiting", "released"}

(* What a frame relies on, of the registries, the transactions, the logs   *)
(* and what was seen.                                                      *)
View == [reg |-> reg, tx |-> tx, log |-> sessionLog, seen |-> seen]

(* A frame f in progress above d others, the lowest of which is b: what it *)
(* dispatches is registered until it returns, or no longer.                *)
Fits(f, d, b, w) ==
  /\ f.edge = "+session" =>
       /\ f.tx = w.reg.session.tx /\ w.reg.session.announcing
       /\ f.tx \in Agents => d = 0 /\ f.tx = w.reg.agent.tx /\ ~w.reg.agent.announced
  /\ f.edge = "event" =>
       f.tx = w.reg.session.tx /\ w.reg.session.appending /\ f.seq = w.log[f.tx]
  /\ f.edge = "+agent" => f.tx = w.reg.agent.tx /\ w.reg.agent.announced /\ d = 0
  /\ f.edge = "-session" => w.reg.session.tx # f.tx /\ w.seen[1][f.tx]["+session"] # 0
  /\ f.edge = "-agent" =>
       /\ w.reg.session.tx = f.tx /\ w.reg.agent.tx # f.tx
       /\ d = 1 /\ b.edge = "leave" /\ b.tx = f.tx
  /\ f.edge = "leave" =>
       /\ d = 0 /\ f.tx \in Agents /\ w.tx[f.tx].disp = "stopping"
       /\ w.reg.agent.tx # f.tx

Bottom(s) == s[Len(s)]
Distinct(s) ==
  \A i, j \in DOMAIN s : s[i].edge = s[j].edge /\ s[i].tx = s[j].tx => i = j
Stacked(s, w) ==
  /\ \A i \in DOMAIN s : Fits(s[i], Len(s) - i, Bottom(s), w)
  /\ Distinct(s)

(* A frame is in progress, and k has still to hear of it.                  *)
On(s, edge, t) == \E i \in DOMAIN s : s[i].edge = edge /\ s[i].tx = t
Awaits(s, k, edge, t) ==
  \E i \in DOMAIN s : s[i].edge = edge /\ s[i].tx = t /\ s[i].to <= k
One(b) == IF b THEN 1 ELSE 0
Was(edge, t) == seen[1][t][edge] # 0

(* The entries and the transactions that made them.                        *)
Registered ==
  /\ reg.agent.tx # Nobody => reg.agent.tx = reg.session.tx /\ reg.agent.tx \in Agents
  /\ reg.session.tx # Nobody => reg.session.announced
  /\ reg.session.leaving => reg.session.tx \in Plains
  /\ factory = "gone" => reg.session.tx \notin Agents

Transacted ==
  /\ \A t \in Plains :
       /\ tx[t].stage \in {"new", "live", "ended"} /\ tx[t].disp = "none"
       /\ tx[t].stage = "live" => reg.session.tx = t /\ ~reg.session.leaving
  /\ \A t \in Agents :
       /\ reg.session.tx = t =>
            tx[t].stage \in {"publishing", "live", "unwinding"} /\ tx[t].disp # "done"
       /\ tx[t].stage = "publishing" =>
            frames # <<>> /\ Bottom(frames).tx = t
              /\ Bottom(frames).edge \in {"+session", "+agent"}
       /\ tx[t].stage \in {"publishing", "live"} /\ tx[t].disp # "done"
              /\ ~On(frames, "leave", t) => reg.agent.tx = t
  /\ \A t \in Ids : tx[t].stage \in Early =>
       reg.session.tx # t /\ \A k \in 1..Listeners, e \in Edges : seen[k][t][e] = 0

(* Who waits for the id to drain hears of the disposal that drains it.     *)
Awaited ==
  waiter = "waiting" /\ reg.session.tx = Nobody /\ reg.agent.tx = Nobody =>
    frames # <<>> /\ frames[1].edge = "-session" /\ frames[1].to = 1

(* What a listener has seen, but for the dispatches that have still to     *)
(* reach it.                                                               *)
HeardBy(k, t) ==
  LET s == seen[k][t] IN
  /\ s["event"] + One(Awaits(frames, k, "event", t)) = sessionLog[t]
  /\ Awaits(frames, k, "+session", t) => s["+session"] = 0
  /\ Awaits(frames, k, "+agent", t) => s["+agent"] = 0
  /\ s["+session"] <= 1 /\ s["+agent"] <= 1
  /\ reg.agent.tx = t /\ ~reg.agent.announced => s["+agent"] = 0
  /\ s["-session"] + One(Awaits(frames, k, "-session", t))
       = One(Was("+session", t) /\ reg.session.tx # t)
  /\ s["-agent"] + One(Awaits(frames, k, "-agent", t))
       = One(Was("+agent", t) /\ reg.agent.tx # t)
Heard ==
  /\ \A t \in Ids, k \in 1..Listeners : HeardBy(k, t)
  /\ \A t \in Ids :
       /\ reg.session.tx = t /\ ~Awaits(frames, 1, "+session", t) => Was("+session", t)
       /\ reg.agent.tx = t /\ reg.agent.announced /\ ~Awaits(frames, 1, "+agent", t) =>
            Was("+agent", t)

LifeInv == LifeTypes /\ Stacked(frames, View) /\ Registered /\ Transacted /\ Awaited /\ Heard
-----------------------------------------------------------------------------
(* Stacks.                                                                 *)

(* What the instance assumes.                                              *)
LEMMA Assumed ==
  Listeners \in Nat \ {0} /\ Agents \cap Plains = {} /\ Nobody \notin Ids
BY PublicationAssumption
   DEF PublicationAssumption, Publication!LifecycleAssumption, Ids, Agents, Nobody

(* What is left when the innermost frame returns.                          *)
LEMMA Pops ==
  ASSUME NEW s \in Seq(Frames), s # <<>>, Distinct(s)
  PROVE  /\ Tail(s) \in Seq(Frames) /\ Distinct(Tail(s))
         /\ Tail(s) # <<>> => Bottom(Tail(s)) = Bottom(s)
         /\ Len(s) = 1 => Tail(s) = <<>>
         /\ Len(Tail(s)) = Len(s) - 1
         /\ \A i \in DOMAIN Tail(s) : i + 1 \in DOMAIN s /\ i + 1 # 1 /\ Tail(s)[i] = s[i + 1]
         /\ \A k, edge, t : Awaits(Tail(s), k, edge, t)
              <=> Awaits(s, k, edge, t) /\ ~(s[1].edge = edge /\ s[1].tx = t)
         /\ \A edge, t : On(Tail(s), edge, t)
              <=> On(s, edge, t) /\ ~(s[1].edge = edge /\ s[1].tx = t)
<1>1. /\ Tail(s) \in Seq(Frames) /\ Len(Tail(s)) = Len(s) - 1
      /\ \A i \in 1..Len(Tail(s)) : Tail(s)[i] = s[i + 1]
      /\ Len(s) \in Nat /\ DOMAIN s = 1..Len(s) /\ DOMAIN Tail(s) = 1..Len(Tail(s))
      /\ Tail(s) = <<>> <=> Len(Tail(s)) = 0
      /\ Len(s) # 0
  BY HeadTailProperties, LenProperties, EmptySeq
<1> DEFINE r == Tail(s)
<1> HIDE DEF r
<1>2. /\ r \in Seq(Frames) /\ DOMAIN r = 1..(Len(s) - 1) /\ DOMAIN s = 1..Len(s)
      /\ Len(r) = Len(s) - 1 /\ Len(s) \in Nat \ {0} /\ (r = <<>> <=> Len(s) = 1)
      /\ \A i \in DOMAIN r : i \in Nat /\ i + 1 \in DOMAIN s /\ i + 1 # 1 /\ r[i] = s[i + 1]
  BY <1>1 DEF r
<1>3. \A i \in DOMAIN s : i # 1 => i - 1 \in DOMAIN r /\ r[i - 1] = s[i] /\ i \in Nat
  <2> SUFFICES ASSUME NEW i \in DOMAIN s, i # 1
               PROVE  i - 1 \in DOMAIN r /\ r[i - 1] = s[i] /\ i \in Nat
    OBVIOUS
  <2>1. i - 1 \in DOMAIN r /\ (i - 1) + 1 = i /\ i \in Nat
    BY <1>2
  <2> QED BY <2>1, <1>2
<1>4. Distinct(r)
  <2> SUFFICES ASSUME NEW i \in DOMAIN r, NEW j \in DOMAIN r,
                      r[i].edge = r[j].edge, r[i].tx = r[j].tx
               PROVE  i = j
    BY DEF Distinct
  <2>1. i + 1 = j + 1
    BY <1>2 DEF Distinct
  <2> QED BY <2>1, <1>2
<1>5. r # <<>> => Bottom(r) = Bottom(s)
  <2>1. r # <<>> => Len(r) \in DOMAIN r /\ Len(r) + 1 = Len(s)
    BY <1>2
  <2> QED BY <2>1, <1>2 DEF Bottom
<1>6. \A k, edge, t : Awaits(r, k, edge, t)
              <=> Awaits(s, k, edge, t) /\ ~(s[1].edge = edge /\ s[1].tx = t)
  <2> TAKE k, edge, t
  <2>1. ASSUME Awaits(r, k, edge, t)
        PROVE  Awaits(s, k, edge, t) /\ ~(s[1].edge = edge /\ s[1].tx = t)
    <3>1. PICK i \in DOMAIN r : r[i].edge = edge /\ r[i].tx = t /\ r[i].to <= k
      BY <2>1 DEF Awaits
    <3>2. i + 1 \in DOMAIN s /\ i + 1 # 1 /\ s[i + 1] = r[i] /\ 1 \in DOMAIN s
      BY <1>2
    <3> QED BY <3>1, <3>2 DEF Awaits, Distinct
  <2>2. ASSUME Awaits(s, k, edge, t), ~(s[1].edge = edge /\ s[1].tx = t)
        PROVE  Awaits(r, k, edge, t)
    <3>1. PICK i \in DOMAIN s : s[i].edge = edge /\ s[i].tx = t /\ s[i].to <= k
      BY <2>2 DEF Awaits
    <3> QED BY <3>1, <2>2, <1>3 DEF Awaits
  <2> QED BY <2>1, <2>2
<1>7. \A edge, t : On(r, edge, t) <=> On(s, edge, t) /\ ~(s[1].edge = edge /\ s[1].tx = t)
  <2> TAKE edge, t
  <2>1. ASSUME On(r, edge, t)
        PROVE  On(s, edge, t) /\ ~(s[1].edge = edge /\ s[1].tx = t)
    <3>1. PICK i \in DOMAIN r : r[i].edge = edge /\ r[i].tx = t
      BY <2>1 DEF On
    <3>2. i + 1 \in DOMAIN s /\ i + 1 # 1 /\ s[i + 1] = r[i] /\ 1 \in DOMAIN s
      BY <1>2
    <3> QED BY <3>1, <3>2 DEF On, Distinct
  <2>2. ASSUME On(s, edge, t), ~(s[1].edge = edge /\ s[1].tx = t)
        PROVE  On(r, edge, t)
    <3>1. PICK i \in DOMAIN s : s[i].edge = edge /\ s[i].tx = t
      BY <2>2 DEF On
    <3> QED BY <3>1, <2>2, <1>3 DEF On
  <2> QED BY <2>1, <2>2
<1>8. Len(s) = 1 => r = <<>>
  BY <1>2
<1>9. /\ r \in Seq(Frames) /\ Distinct(r) /\ (r # <<>> => Bottom(r) = Bottom(s))
      /\ (Len(s) = 1 => r = <<>>) /\ Len(r) = Len(s) - 1
      /\ \A i \in DOMAIN r : i + 1 \in DOMAIN s /\ i + 1 # 1 /\ r[i] = s[i + 1]
  BY <1>2, <1>4, <1>5, <1>8
<1> QED BY <1>6, <1>7, <1>9 DEF r

(* The frames below the innermost one still fit.                           *)
LEMMA PopFits ==
  ASSUME NEW s \in Seq(Frames), s # <<>>, Distinct(s), NEW w,
         \A i \in DOMAIN s : i # 1 => Fits(s[i], Len(s) - i, Bottom(s), w)
  PROVE  Stacked(Tail(s), w)
<1> DEFINE r == Tail(s)
<1>1. /\ r \in Seq(Frames) /\ Distinct(r) /\ (r # <<>> => Bottom(r) = Bottom(s))
      /\ Len(r) = Len(s) - 1 /\ Len(s) \in Nat
      /\ \A i \in DOMAIN r : i + 1 \in DOMAIN s /\ i + 1 # 1 /\ r[i] = s[i + 1]
  BY Pops, LenProperties
<1>2. \A i \in DOMAIN r : r # <<>> /\ i \in Nat
  <2>1. DOMAIN r = 1..Len(r) /\ Len(r) \in Nat
    BY <1>1, LenProperties
  <2>2. r = <<>> => DOMAIN r = {}
    BY <2>1
  <2> QED BY <2>1, <2>2
<1> HIDE DEF r
<1>3. \A i \in DOMAIN r : Fits(r[i], Len(r) - i, Bottom(r), w)
  <2> TAKE i \in DOMAIN r
  <2>1. Len(s) - (i + 1) = Len(r) - i
    BY <1>1, <1>2
  <2>2. Fits(s[i + 1], Len(s) - (i + 1), Bottom(s), w)
    BY <1>1
  <2> QED BY <2>1, <2>2, <1>1, <1>2
<1> QED BY <1>1, <1>3 DEF r, Stacked

(* The stack when a dispatch begins.                                       *)
LEMMA Pushes ==
  ASSUME NEW s \in Seq(Frames), NEW f \in Frames, Distinct(s), ~On(s, f.edge, f.tx)
  PROVE  LET r == <<f>> \o s IN
         /\ r \in Seq(Frames) /\ Distinct(r) /\ r # <<>> /\ r[1] = f /\ Len(r) = Len(s) + 1
         /\ Bottom(r) = IF s = <<>> THEN f ELSE Bottom(s)
         /\ \A i \in DOMAIN r : i = 1 \/ (i - 1 \in DOMAIN s /\ r[i] = s[i - 1] /\ i \in Nat)
         /\ \A k, edge, t : Awaits(r, k, edge, t)
              <=> Awaits(s, k, edge, t) \/ (f.edge = edge /\ f.tx = t /\ f.to <= k)
         /\ \A edge, t : On(r, edge, t) <=> On(s, edge, t) \/ (f.edge = edge /\ f.tx = t)
<1> DEFINE r == <<f>> \o s
<1>1. <<f>> \in Seq(Frames) /\ Len(<<f>>) = 1 /\ <<f>>[1] = f
  OBVIOUS
<1>2. /\ r \in Seq(Frames) /\ Len(r) = 1 + Len(s)
      /\ \A i \in 1..(1 + Len(s)) : r[i] = IF i <= 1 THEN <<f>>[i] ELSE s[i - 1]
  BY <1>1, ConcatProperties
<1>3. /\ Len(s) \in Nat /\ DOMAIN s = 1..Len(s) /\ DOMAIN r = 1..(1 + Len(s))
      /\ s = <<>> <=> Len(s) = 0
  BY <1>2, LenProperties, EmptySeq
<1> HIDE DEF r
<1>4. r[1] = f /\ 1 \in DOMAIN r
  BY <1>1, <1>2, <1>3
<1>5. \A i \in DOMAIN r : i = 1 \/ (i # 1 /\ i - 1 \in DOMAIN s /\ r[i] = s[i - 1] /\ i \in Nat)
  BY <1>2, <1>3
<1>6. \A i \in DOMAIN s : i + 1 \in DOMAIN r /\ r[i + 1] = s[i]
  <2> TAKE i \in DOMAIN s
  <2>1. i + 1 \in 1..(1 + Len(s)) /\ ~(i + 1 <= 1) /\ (i + 1) - 1 = i
    BY <1>3
  <2> QED BY <2>1, <1>2, <1>3
<1>7. Distinct(r)
  <2> SUFFICES ASSUME NEW i \in DOMAIN r, NEW j \in DOMAIN r,
                      r[i].edge = r[j].edge, r[i].tx = r[j].tx
               PROVE  i = j
    BY DEF Distinct
  <2>1. CASE i = 1 \/ j = 1
    BY <2>1, <1>4, <1>5 DEF On
  <2>2. CASE i # 1 /\ j # 1
    <3>1. i - 1 = j - 1 /\ i \in Nat /\ j \in Nat
      BY <2>2, <1>5 DEF Distinct
    <3> QED BY <3>1
  <2> QED BY <2>1, <2>2
<1>8. Bottom(r) = IF s = <<>> THEN f ELSE Bottom(s)
  <2>1. CASE s = <<>>
    BY <2>1, <1>2, <1>3, <1>4 DEF Bottom
  <2>2. CASE s # <<>>
    <3>1. Len(s) \in DOMAIN s /\ Len(r) = Len(s) + 1
      BY <2>2, <1>2, <1>3
    <3> QED BY <2>2, <3>1, <1>6 DEF Bottom
  <2> QED BY <2>1, <2>2
<1>9. \A k, edge, t : Awaits(r, k, edge, t)
              <=> Awaits(s, k, edge, t) \/ (f.edge = edge /\ f.tx = t /\ f.to <= k)
  BY <1>4, <1>5, <1>6 DEF Awaits
<1>10. \A edge, t : On(r, edge, t) <=> On(s, edge, t) \/ (f.edge = edge /\ f.tx = t)
  BY <1>4, <1>5, <1>6 DEF On
<1>11. r # <<>> /\ Len(r) = Len(s) + 1
  BY <1>2, <1>3, EmptySeq
<1> QED BY <1>2, <1>4, <1>5, <1>7, <1>8, <1>9, <1>10, <1>11 DEF r

(* A frame that fits above the others may begin.                           *)
LEMMA PushFits ==
  ASSUME NEW s \in Seq(Frames), NEW f \in Frames, ~On(s, f.edge, f.tx), NEW w, Stacked(s, w),
         Fits(f, Len(s), IF s = <<>> THEN f ELSE Bottom(s), w)
  PROVE  Stacked(<<f>> \o s, w)
<1> DEFINE r == <<f>> \o s
<1>1. /\ r \in Seq(Frames) /\ Distinct(r) /\ r # <<>> /\ r[1] = f /\ Len(r) = Len(s) + 1
      /\ Bottom(r) = IF s = <<>> THEN f ELSE Bottom(s)
      /\ \A i \in DOMAIN r : i = 1 \/ (i - 1 \in DOMAIN s /\ r[i] = s[i - 1] /\ i \in Nat)
      /\ Len(s) \in Nat
  BY Pushes, LenProperties DEF Stacked
<1> HIDE DEF r
<1>2. \A i \in DOMAIN r : Fits(r[i], Len(r) - i, Bottom(r), w)
  <2> TAKE i \in DOMAIN r
  <2>1. CASE i = 1
    <3>1. Len(r) - 1 = Len(s)
      BY <1>1
    <3> QED BY <3>1, <2>1, <1>1
  <2>2. CASE i # 1
    <3>1. i - 1 \in DOMAIN s /\ r[i] = s[i - 1] /\ Len(r) - i = Len(s) - (i - 1)
      BY <2>2, <1>1
    <3>2. s # <<>>
      BY <3>1
    <3> QED BY <3>1, <3>2, <1>1 DEF Stacked
  <2> QED BY <2>1, <2>2
<1> QED BY <1>1, <1>2 DEF r, Stacked

(* The innermost dispatch reaches its next listener.                       *)
LEMMA Steps ==
  ASSUME NEW s \in Seq(Frames), s # <<>>, Distinct(s), s[1].to <= Listeners
  PROVE  LET r == [s EXCEPT ![1].to = s[1].to + 1] IN
         /\ r \in Seq(Frames) /\ Distinct(r) /\ r # <<>> /\ Len(r) = Len(s)
         /\ r[1] = [s[1] EXCEPT !.to = s[1].to + 1]
         /\ DOMAIN r = DOMAIN s
         /\ Bottom(r).edge = Bottom(s).edge /\ Bottom(r).tx = Bottom(s).tx
         /\ \A i \in DOMAIN s : /\ r[i].edge = s[i].edge /\ r[i].tx = s[i].tx /\ r[i].seq = s[i].seq
                                /\ i # 1 => r[i] = s[i]
         /\ \A edge, t : \A k \in 1..Listeners : Awaits(r, k, edge, t)
              <=> Awaits(s, k, edge, t)
                    /\ ~(s[1].edge = edge /\ s[1].tx = t /\ s[1].to = k)
         /\ \A edge, t : On(r, edge, t) <=> On(s, edge, t)
<1> DEFINE r == [s EXCEPT ![1].to = s[1].to + 1]
<1>1. /\ Len(s) \in Nat \ {0} /\ DOMAIN s = 1..Len(s) /\ 1 \in DOMAIN s
      /\ \A i \in DOMAIN s : s[i] \in Frames
  BY EmptySeq, LenProperties, ElementOfSeq
<1>2. s[1].to + 1 \in 1..(Listeners + 1)
  <2>1. s[1].to \in 1..(Listeners + 1)
    BY <1>1 DEF Frames
  <2> QED BY <2>1, Assumed
<1>3. [s[1] EXCEPT !.to = s[1].to + 1] \in Frames
  BY <1>1, <1>2 DEF Frames
<1>4. r = [s EXCEPT ![1] = [s[1] EXCEPT !.to = s[1].to + 1]]
  OBVIOUS
<1>5. /\ r \in Seq(Frames) /\ Len(r) = Len(s)
      /\ \A i \in 1..Len(s) : r[i] = IF i = 1 THEN [s[1] EXCEPT !.to = s[1].to + 1] ELSE s[i]
  <2> DEFINE g == [s[1] EXCEPT !.to = s[1].to + 1]
  <2> HIDE DEF g
  <2>1. g \in Frames /\ r = [s EXCEPT ![1] = g]
    BY <1>3, <1>4 DEF g
  <2>2. /\ [s EXCEPT ![1] = g] \in Seq(Frames) /\ Len([s EXCEPT ![1] = g]) = Len(s)
        /\ \A j \in 1..Len(s) : [s EXCEPT ![1] = g][j] = IF j = 1 THEN g ELSE s[j]
    BY <2>1, <1>1, ExceptSeq
  <2> QED BY <2>1, <2>2 DEF g
<1> HIDE DEF r
<1>6. /\ r[1] = [s[1] EXCEPT !.to = s[1].to + 1] /\ DOMAIN r = DOMAIN s /\ r # <<>>
      /\ r[1].to = s[1].to + 1 /\ r[1].edge = s[1].edge /\ r[1].tx = s[1].tx /\ r[1].seq = s[1].seq
  BY <1>1, <1>5, LenProperties, EmptySeq DEF Frames
<1>7. \A i \in DOMAIN s : /\ r[i].edge = s[i].edge /\ r[i].tx = s[i].tx /\ r[i].seq = s[i].seq
                          /\ i # 1 => r[i] = s[i]
  BY <1>1, <1>5, <1>6
<1>8. Distinct(r)
  BY <1>6, <1>7 DEF Distinct
<1>9. Bottom(r).edge = Bottom(s).edge /\ Bottom(r).tx = Bottom(s).tx
  BY <1>1, <1>5, <1>7 DEF Bottom
<1>10. \A edge, t : \A k \in 1..Listeners : Awaits(r, k, edge, t)
              <=> Awaits(s, k, edge, t)
                    /\ ~(s[1].edge = edge /\ s[1].tx = t /\ s[1].to = k)
  <2> TAKE edge, t
  <2> TAKE k \in 1..Listeners
  <2>0. s[1].to \in Int /\ k \in Int
    BY <1>1 DEF Frames
  <2>1. ASSUME Awaits(r, k, edge, t)
        PROVE  Awaits(s, k, edge, t) /\ ~(s[1].edge = edge /\ s[1].tx = t /\ s[1].to = k)
    <3>1. PICK i \in DOMAIN r : r[i].edge = edge /\ r[i].tx = t /\ r[i].to <= k
      BY <2>1 DEF Awaits
    <3>2. CASE i = 1
      <4>1. s[1].to <= k /\ s[1].to # k
        BY <2>0, <3>1, <3>2, <1>6
      <4> QED BY <4>1, <3>1, <3>2, <1>1, <1>6 DEF Awaits
    <3>3. CASE i # 1
      BY <3>1, <3>3, <1>1, <1>6, <1>7 DEF Awaits, Distinct
    <3> QED BY <3>2, <3>3
  <2>2. ASSUME Awaits(s, k, edge, t), ~(s[1].edge = edge /\ s[1].tx = t /\ s[1].to = k)
        PROVE  Awaits(r, k, edge, t)
    <3>1. PICK i \in DOMAIN s : s[i].edge = edge /\ s[i].tx = t /\ s[i].to <= k
      BY <2>2 DEF Awaits
    <3>2. CASE i = 1
      <4>1. r[1].to <= k
        BY <2>0, <2>2, <3>1, <3>2, <1>6
      <4> QED BY <4>1, <3>1, <3>2, <1>1, <1>6 DEF Awaits
    <3>3. CASE i # 1
      BY <3>1, <3>3, <1>6, <1>7 DEF Awaits
    <3> QED BY <3>2, <3>3
  <2> QED BY <2>1, <2>2
<1>11. \A edge, t : On(r, edge, t) <=> On(s, edge, t)
  BY <1>6, <1>7 DEF On
<1> QED BY <1>5, <1>6, <1>7, <1>8, <1>9, <1>10, <1>11 DEF r

-----------------------------------------------------------------------------
(* Steps of the transactions alone.                                        *)

Stages == Early \cup {"publishing", "live", "unwinding", "ended"}

(* The components of the view.                                             *)
LEMMA ViewIs ==
  /\ View.reg = reg /\ View.tx = tx /\ View.log = sessionLog /\ View.seen = seen
  /\ (View').reg = reg' /\ (View').tx = tx' /\ (View').log = sessionLog' /\ (View').seen = seen'
BY DEF View

(* How a transaction may go on by itself.                                  *)
Moves(t, a, b) ==
  /\ b.stage # a.stage =>
       \/ a.stage \in Early /\ b.stage \in Early \cup {"unwinding", "ended"}
       \/ a.stage = "unwinding" /\ a.disp = "done" /\ b.stage = "ended"
  /\ b.disp # a.disp => t \in Agents /\ a.disp = "none" /\ b.disp = "stopping"
  /\ t \in Plains => b.stage \in {"new", "live", "ended"}

(* A step of transactions alone, which leaves registries, stack, logs and  *)
(* listeners, keeps the invariant (an await of create, resume, dispose).   *)
LEMMA QuietKeeps ==
  ASSUME LifeInv, tx' \in [Ids -> Transactions], \A t \in Ids : Moves(t, tx[t], tx'[t]),
         UNCHANGED <<reg, frames, sessionLog, seen>>,
         factory' \in {"active", "closing", "gone"}, waiter' \in {"none", "waiting", "released"},
         factory' = "gone" => factory = "gone" \/ reg.session.tx \notin Agents,
         waiter' = "waiting" =>
           waiter = "waiting" \/ reg.session.tx # Nobody \/ reg.agent.tx # Nobody
  PROVE  LifeInv'
<1>1. LifeTypes'
  BY DEF LifeInv, LifeTypes
<1>2. Stacked(frames, View)'
  <2>1. ASSUME NEW f \in Frames, NEW d, NEW b, Fits(f, d, b, View)
        PROVE  Fits(f, d, b, View')
    <3>1. f.tx \in Ids /\ Moves(f.tx, tx[f.tx], tx'[f.tx])
      BY <2>1 DEF Frames
    <3>2. tx[f.tx].disp = "stopping" => tx'[f.tx].disp = "stopping"
      BY <3>1 DEF Moves
    <3> QED BY <2>1, <3>2, ViewIs DEF Fits
  <2>2. \A i \in DOMAIN frames : frames[i] \in Frames
    BY ElementOfSeq, LenProperties DEF LifeInv, LifeTypes
  <2>3. ASSUME NEW i \in DOMAIN frames
        PROVE  Fits(frames[i], Len(frames) - i, Bottom(frames), View')
    BY <2>1, <2>2 DEF LifeInv, Stacked
  <2>4. Distinct(frames)
    BY DEF LifeInv, Stacked
  <2> QED BY <2>3, <2>4 DEF Stacked
<1>3. Registered' /\ Awaited' /\ Heard'
  BY DEF LifeInv, Registered, Awaited, Heard, HeardBy, Was
<1>4. Transacted'
  <2>1. ASSUME NEW t \in Plains
        PROVE  /\ tx'[t].stage \in {"new", "live", "ended"} /\ tx'[t].disp = "none"
               /\ tx'[t].stage = "live" => reg.session.tx = t /\ ~reg.session.leaving
    <3>1. t \in Ids /\ t \notin Agents
      BY Assumed DEF Ids, Agents, Publication!Txs
    <3> QED BY <3>1 DEF Moves, LifeInv, Transacted, Early
  <2>2. ASSUME NEW t \in Agents
        PROVE  /\ reg.session.tx = t =>
                    tx'[t].stage \in {"publishing", "live", "unwinding"} /\ tx'[t].disp # "done"
               /\ tx'[t].stage = "publishing" =>
                    frames # <<>> /\ Bottom(frames).tx = t
                      /\ Bottom(frames).edge \in {"+session", "+agent"}
               /\ tx'[t].stage \in {"publishing", "live"} /\ tx'[t].disp # "done"
                      /\ ~On(frames, "leave", t) => reg.agent.tx = t
    <3>1. t \in Ids
      BY DEF Ids, Agents, Publication!Txs
    <3> QED BY <3>1 DEF Moves, LifeInv, Transacted, Early
  <2>3. ASSUME NEW t \in Ids, tx'[t].stage \in Early
        PROVE  reg.session.tx # t /\ \A k \in 1..Listeners, e \in Edges : seen[k][t][e] = 0
    BY <2>3 DEF Moves, LifeInv, Transacted, Early
  <2> QED BY <2>1, <2>2, <2>3 DEF Transacted
<1> QED BY <1>1, <1>2, <1>3, <1>4 DEF LifeInv

(* The values a transaction takes.                                         *)
LEMMA Becoming ==
  ASSUME LifeTypes, NEW t \in Ids
  PROVE  /\ tx[t] \in Transactions
         /\ \A s \in Stages : LET b == [tx[t] EXCEPT !.stage = s] IN
              b \in Transactions /\ b.stage = s /\ b.disp = tx[t].disp
         /\ LET b == Publication!Disposing(t) IN
              /\ b \in Transactions /\ b.stage = tx[t].stage
              /\ b.disp = IF tx[t].disp = "none" THEN "stopping" ELSE tx[t].disp
         /\ LET b == Publication!Unwinding(t) IN
              /\ b \in Transactions /\ b.stage = "unwinding"
              /\ b.disp = IF tx[t].disp = "none" THEN "stopping" ELSE tx[t].disp
         /\ LET b == Publication!Over(t) IN
              b \in Transactions /\ b.stage = "ended" /\ b.disp = tx[t].disp
         /\ LET b == [tx[t] EXCEPT !.cancelled = TRUE] IN
              b \in Transactions /\ b.stage = tx[t].stage /\ b.disp = tx[t].disp
         /\ LET b == [tx[t] EXCEPT !.owned = FALSE] IN
              b \in Transactions /\ b.stage = tx[t].stage /\ b.disp = tx[t].disp
<1>1. tx[t] \in Transactions
  BY DEF LifeTypes
<1>2. /\ tx[t].stage \in Stages /\ tx[t].disp \in {"none", "stopping", "done"}
      /\ tx[t].owned \in BOOLEAN /\ tx[t].cancelled \in BOOLEAN
  BY <1>1 DEF Transactions, Stages
<1>3. \A s \in Stages : LET b == [tx[t] EXCEPT !.stage = s] IN
              b \in Transactions /\ b.stage = s /\ b.disp = tx[t].disp
  BY <1>1, <1>2 DEF Transactions, Stages
<1>4. LET b == Publication!Disposing(t) IN
              /\ b \in Transactions /\ b.stage = tx[t].stage
              /\ b.disp = IF tx[t].disp = "none" THEN "stopping" ELSE tx[t].disp
  BY <1>1, <1>2 DEF Transactions, Publication!Disposing
<1>5. LET b == Publication!Unwinding(t) IN
              /\ b \in Transactions /\ b.stage = "unwinding"
              /\ b.disp = IF tx[t].disp = "none" THEN "stopping" ELSE tx[t].disp
  BY <1>1, <1>2, <1>4 DEF Transactions, Publication!Unwinding
<1>6. LET b == Publication!Over(t) IN
              b \in Transactions /\ b.stage = "ended" /\ b.disp = tx[t].disp
  BY <1>1, <1>2 DEF Transactions, Publication!Over
<1>7. LET b == [tx[t] EXCEPT !.cancelled = TRUE] IN
              b \in Transactions /\ b.stage = tx[t].stage /\ b.disp = tx[t].disp
  BY <1>1, <1>2 DEF Transactions
<1>8. LET b == [tx[t] EXCEPT !.owned = FALSE] IN
              b \in Transactions /\ b.stage = tx[t].stage /\ b.disp = tx[t].disp
  BY <1>1, <1>2 DEF Transactions
<1> QED BY <1>1, <1>3, <1>4, <1>5, <1>6, <1>7, <1>8

(* One transaction goes on by itself.                                      *)
LEMMA OneMoves ==
  ASSUME LifeInv, NEW t \in Ids, NEW b \in Transactions, tx' = [tx EXCEPT ![t] = b],
         Moves(t, tx[t], b), UNCHANGED <<reg, frames, sessionLog, seen, factory, waiter>>
  PROVE  LifeInv'
<1>1. tx \in [Ids -> Transactions] /\ tx' \in [Ids -> Transactions]
  BY DEF LifeInv, LifeTypes
<1>2. \A u \in Ids : Moves(u, tx[u], tx'[u])
  <2> TAKE u \in Ids
  <2>1. CASE u = t
    BY <1>1, <2>1
  <2>2. CASE u # t
    <3>1. tx'[u] = tx[u]
      BY <1>1, <2>2
    <3>2. u \in Plains => tx[u].stage \in {"new", "live", "ended"}
      BY DEF LifeInv, Transacted
    <3> QED BY <3>1, <3>2 DEF Moves
  <2> QED BY <2>1, <2>2
<1>3. factory \in {"active", "closing", "gone"} /\ waiter \in {"none", "waiting", "released"}
  BY DEF LifeInv, LifeTypes
<1>4. factory' = "gone" => factory = "gone" \/ reg.session.tx \notin Agents
  OBVIOUS
<1>5. waiter' = "waiting" => waiter = "waiting" \/ reg.session.tx # Nobody \/ reg.agent.tx # Nobody
  OBVIOUS
<1> QED BY <1>1, <1>2, <1>3, <1>4, <1>5, QuietKeeps

(* The asynchronous steps of a transaction keep it (create, resume, prepare).*)
LEMMA FactoryTransactionKeeps ==
  ASSUME LifeInv, NEW t \in Ids,
         \/ Publication!CreateAgent(t) \/ Publication!Resume(t) \/ Publication!Load(t)
         \/ Publication!PrepareLoaded(t) \/ Publication!Setup(t) \/ Publication!Unwound(t)
  PROVE  LifeInv'
<1>1. /\ LifeTypes /\ tx[t] \in Transactions /\ tx \in [Ids -> Transactions]
      /\ tx[t].stage \in Early \cup {"unwinding"} => t \notin Plains \/ tx[t].stage = "new"
  BY Becoming DEF LifeInv, LifeTypes, Transacted, Early
<1>2. UNCHANGED <<reg, frames, sessionLog, seen, factory, waiter>>
  BY DEF Publication!CreateAgent, Publication!Resume, Publication!Load,
     Publication!PrepareLoaded, Publication!Setup, Publication!Unwound
<1>3. t \in CreatedAgents \cup Resumed => t \in Agents /\ t \notin Plains
  BY Assumed DEF Agents, Publication!Agents
<1>4. CASE Publication!CreateAgent(t) \/ Publication!Resume(t) \/ Publication!Unwound(t)
            \/ (tx[t].stage = "loading" /\ tx' = [tx EXCEPT ![t].stage = "loaded"])
            \/ (tx[t].stage = "loaded" /\ tx' = [tx EXCEPT ![t].stage = "setup"])
            \/ (tx[t].stage = "setup" /\ tx' = [tx EXCEPT ![t].stage = "ready"])
  <2>1. PICK s \in Stages :
             /\ tx' = [tx EXCEPT ![t].stage = s]
             /\ \/ /\ tx[t].stage \in Early /\ s \in Early \cup {"ended"}
                   /\ t \notin Plains
                \/ tx[t].stage = "unwinding" /\ tx[t].disp = "done" /\ s = "ended"
    BY <1>1, <1>3, <1>4 DEF Publication!CreateAgent, Publication!Resume, Publication!Unwound,
       Stages, Early
  <2> DEFINE b == [tx[t] EXCEPT !.stage = s]
  <2>2. b \in Transactions /\ b.stage = s /\ b.disp = tx[t].disp
    BY <1>1, Becoming
  <2>3. tx' = [tx EXCEPT ![t] = b]
    BY <2>1
  <2> HIDE DEF b
  <2>4. Moves(t, tx[t], b)
    BY <2>1, <2>2, <1>1 DEF Moves, Early
  <2> QED BY <2>2, <2>3, <2>4, <1>2, OneMoves
<1>5. CASE /\ tx[t].stage \in {"loading", "loaded"}
           /\ tx' = [tx EXCEPT ![t] = Publication!Over(t)]
  <2> DEFINE b == Publication!Over(t)
  <2>1. b \in Transactions /\ b.stage = "ended" /\ b.disp = tx[t].disp
    BY <1>1, Becoming
  <2> HIDE DEF b
  <2>2. Moves(t, tx[t], b)
    BY <2>1, <1>5 DEF Moves, Early
  <2> QED BY <2>1, <2>2, <1>2, <1>5, OneMoves DEF b
<1>6. CASE tx[t].stage = "setup" /\ tx' = [tx EXCEPT ![t] = Publication!Unwinding(t)]
  <2> DEFINE b == Publication!Unwinding(t)
  <2>1. /\ b \in Transactions /\ b.stage = "unwinding"
        /\ b.disp = IF tx[t].disp = "none" THEN "stopping" ELSE tx[t].disp
    BY <1>1, Becoming
  <2> HIDE DEF b
  <2>2. t \in Agents /\ t \notin Plains
    BY <1>1, <1>6 DEF Early, Ids, Agents, Publication!Txs
  <2>3. Moves(t, tx[t], b)
    BY <2>1, <2>2, <1>6 DEF Moves, Early
  <2> QED BY <2>1, <2>3, <1>2, <1>6, OneMoves DEF b
<1>7. CASE Publication!Load(t)
  <2>1. \/ tx[t].stage = "loading" /\ tx' = [tx EXCEPT ![t] = Publication!Over(t)]
        \/ tx[t].stage = "loading" /\ tx' = [tx EXCEPT ![t].stage = "loaded"]
    BY <1>7 DEF Publication!Load
  <2> QED BY <2>1, <1>4, <1>5
<1>8. CASE Publication!PrepareLoaded(t)
  <2>1. \/ tx[t].stage = "loaded" /\ tx' = [tx EXCEPT ![t] = Publication!Over(t)]
        \/ tx[t].stage = "loaded" /\ tx' = [tx EXCEPT ![t].stage = "setup"]
    BY <1>1, <1>8 DEF Publication!PrepareLoaded
  <2> QED BY <2>1, <1>4, <1>5
<1>9. CASE Publication!Setup(t)
  <2>1. \/ tx[t].stage = "setup" /\ tx' = [tx EXCEPT ![t] = Publication!Unwinding(t)]
        \/ tx[t].stage = "setup" /\ tx' = [tx EXCEPT ![t].stage = "ready"]
    BY <1>9 DEF Publication!Setup
  <2> QED BY <2>1, <1>4, <1>6
<1> QED BY <1>4, <1>7, <1>8, <1>9

(* Aborts and unloads are heard; nothing else happens at once.             *)
LEMMA WithdrawalKeeps ==
  ASSUME LifeInv, NEW t \in Ids,
         \/ Publication!CallerAborts(t) \/ Publication!OwnerUnloads(t)
         \/ Publication!HandleDisposes(t)
  PROVE  LifeInv'
<1>1. /\ LifeTypes /\ tx[t] \in Transactions /\ tx \in [Ids -> Transactions]
      /\ t \in Plains => tx[t].stage \in {"new", "live", "ended"}
  BY Becoming DEF LifeInv, LifeTypes, Transacted
<1>2. UNCHANGED <<reg, frames, sessionLog, seen, factory, waiter>> /\ t \in Agents
  BY DEF Publication!CallerAborts, Publication!OwnerUnloads, Publication!HandleDisposes, Agents
<1>3. PICK b \in Transactions :
        /\ tx' = [tx EXCEPT ![t] = b]
        /\ b.stage = tx[t].stage
        /\ b.disp = tx[t].disp \/ (tx[t].disp = "none" /\ b.disp = "stopping")
  <2>1. CASE tx' = [tx EXCEPT ![t] = Publication!Disposing(t)]
    BY <2>1, <1>1, Becoming
  <2>2. CASE tx' = [tx EXCEPT ![t].cancelled = TRUE]
    <3>1. tx' = [tx EXCEPT ![t] = [tx[t] EXCEPT !.cancelled = TRUE]]
      BY <2>2
    <3> QED BY <3>1, <1>1, Becoming
  <2>3. CASE tx' = [tx EXCEPT ![t].owned = FALSE]
    <3>1. tx' = [tx EXCEPT ![t] = [tx[t] EXCEPT !.owned = FALSE]]
      BY <2>3
    <3> QED BY <3>1, <1>1, Becoming
  <2>4. \/ tx' = [tx EXCEPT ![t] = Publication!Disposing(t)]
        \/ tx' = [tx EXCEPT ![t].cancelled = TRUE]
        \/ tx' = [tx EXCEPT ![t].owned = FALSE]
    <3>1. CASE Publication!CallerAborts(t)
      BY <3>1 DEF Publication!CallerAborts
    <3>2. CASE Publication!OwnerUnloads(t)
      BY <3>2, <1>1 DEF Publication!OwnerUnloads
    <3>3. CASE Publication!HandleDisposes(t)
      BY <3>3 DEF Publication!HandleDisposes
    <3> QED BY <3>1, <3>2, <3>3
  <2> QED BY <2>1, <2>2, <2>3, <2>4
<1>4. Moves(t, tx[t], b)
  BY <1>1, <1>2, <1>3 DEF Moves
<1> QED BY <1>2, <1>3, <1>4, OneMoves

(* The factory's ownership and the configured start.                       *)
LEMMA FactoryKeeps ==
  ASSUME LifeInv,
         \/ Publication!FactoryCloses \/ Publication!FactoryGone \/ Publication!ConfiguredStart
  PROVE  LifeInv'
<1>1. /\ LifeTypes /\ tx \in [Ids -> Transactions]
      /\ factory \in {"active", "closing", "gone"} /\ waiter \in {"none", "waiting", "released"}
      /\ \A t \in Plains : tx[t].stage \in {"new", "live", "ended"}
  BY DEF LifeInv, LifeTypes, Transacted
<1>2. CASE Publication!FactoryCloses
  <2>1. /\ tx' = [t \in Ids |-> IF Publication!Prepared(t) THEN Publication!Disposing(t) ELSE tx[t]]
        /\ UNCHANGED <<reg, frames, sessionLog, seen, waiter>> /\ factory' = "closing"
    BY <1>2 DEF Publication!FactoryCloses, Ids
  <2>2. ASSUME NEW t \in Ids
        PROVE  tx'[t] \in Transactions /\ Moves(t, tx[t], tx'[t])
    <3>1. CASE Publication!Prepared(t)
      <4>1. t \in Agents
        BY <3>1 DEF Publication!Prepared, Agents
      <4>2. tx'[t] = Publication!Disposing(t)
        BY <2>1, <3>1
      <4>3. /\ tx'[t] \in Transactions /\ tx'[t].stage = tx[t].stage
            /\ tx'[t].disp = IF tx[t].disp = "none" THEN "stopping" ELSE tx[t].disp
        BY <4>2, <1>1, Becoming
      <4> QED BY <4>1, <4>3, <1>1 DEF Moves
    <3>2. CASE ~Publication!Prepared(t)
      <4>1. tx'[t] = tx[t]
        BY <2>1, <3>2
      <4> QED BY <4>1, <1>1 DEF Moves
    <3> QED BY <3>1, <3>2
  <2>3. tx' \in [Ids -> Transactions]
    BY <2>1, <2>2
  <2>4. factory' # "gone" /\ factory' \in {"active", "closing", "gone"} /\ waiter' = waiter
    BY <2>1
  <2> QED BY <2>1, <2>2, <2>3, <2>4, <1>1, QuietKeeps
<1>3. CASE Publication!FactoryGone \/ Publication!ConfiguredStart
  <2>1. UNCHANGED <<reg, tx, frames, sessionLog, seen>>
    BY <1>3 DEF Publication!FactoryGone, Publication!ConfiguredStart
  <2>2. \A t \in Ids : Moves(t, tx[t], tx'[t])
    BY <2>1, <1>1 DEF Moves
  <2>3. factory' = "gone" => factory = "gone" \/ reg.session.tx \notin Agents
    BY <1>3 DEF Publication!FactoryGone, Publication!ConfiguredStart, Publication!Settled,
       LifeInv, Transacted, Agents
  <2>4. waiter' = "waiting" =>
          waiter = "waiting" \/ reg.session.tx # Nobody \/ reg.agent.tx # Nobody
    BY <1>3 DEF Publication!FactoryGone, Publication!ConfiguredStart, Publication!Free,
       Nobody
  <2>5. factory' \in {"active", "closing", "gone"} /\ waiter' \in {"none", "waiting", "released"}
    BY <1>1, <1>3 DEF Publication!FactoryGone, Publication!ConfiguredStart
  <2> QED BY <2>1, <2>2, <2>3, <2>4, <2>5, <1>1, QuietKeeps
<1> QED BY <1>2, <1>3

-----------------------------------------------------------------------------
(* Steps of a dispatch.                                                    *)

(* What the types say of the entries, the stack and its innermost frame.   *)
LEMMA Typed ==
  ASSUME LifeInv
  PROVE  /\ reg \in [session : Entries, agent : Entries]
         /\ reg.session \in Entries /\ reg.agent \in Entries
         /\ reg.session.tx \in Ids \cup {Nobody} /\ reg.agent.tx \in Ids \cup {Nobody}
         /\ \A i \in DOMAIN frames : frames[i] \in Frames
         /\ frames = <<>> \/ (1 \in DOMAIN frames /\ frames[1] \in Frames)
         /\ frames \in Seq(Frames) /\ Len(frames) \in Nat /\ Distinct(frames)
         /\ tx \in [Ids -> Transactions] /\ sessionLog \in [Ids -> Nat]
         /\ seen \in [1..Listeners -> [Ids -> [Edges -> Nat]]]
         /\ 1 \in 1..Listeners /\ Nobody \notin Ids
         /\ Agents \subseteq Ids /\ Plains \subseteq Ids /\ Agents \cap Plains = {}
<1>1. /\ reg \in [session : Entries, agent : Entries] /\ frames \in Seq(Frames)
      /\ tx \in [Ids -> Transactions] /\ sessionLog \in [Ids -> Nat]
      /\ seen \in [1..Listeners -> [Ids -> [Edges -> Nat]]] /\ Distinct(frames)
  BY DEF LifeInv, LifeTypes, Stacked
<1>2. reg.session \in Entries /\ reg.agent \in Entries
  BY <1>1
<1>3. reg.session.tx \in Ids \cup {Nobody} /\ reg.agent.tx \in Ids \cup {Nobody}
  BY <1>2 DEF Entries
<1>4. /\ Len(frames) \in Nat /\ DOMAIN frames = 1..Len(frames)
      /\ frames = <<>> <=> Len(frames) = 0
      /\ \A i \in DOMAIN frames : frames[i] \in Frames
  BY <1>1, LenProperties, ElementOfSeq, EmptySeq
<1>5. frames = <<>> \/ (1 \in DOMAIN frames /\ frames[1] \in Frames)
  <2>1. Len(frames) # 0 => 1 \in 1..Len(frames)
    BY <1>4
  <2> QED BY <2>1, <1>4
<1>6. 1 \in 1..Listeners /\ Nobody \notin Ids /\ Agents \cap Plains = {}
  BY Assumed
<1>7. Agents \subseteq Ids /\ Plains \subseteq Ids
  BY DEF Ids, Agents, Publication!Txs
<1> QED BY <1>1, <1>2, <1>3, <1>4, <1>5, <1>6, <1>7

(* The innermost frame fits, and alone if what it announces is an agent's. *)
LEMMA TopFits ==
  ASSUME LifeInv, frames # <<>>
  PROVE  /\ Fits(frames[1], Len(frames) - 1, Bottom(frames), View)
         /\ Len(frames) - 1 = 0 => Tail(frames) = <<>> /\ Bottom(frames) = frames[1]
<1>1. 1 \in DOMAIN frames /\ Len(frames) \in Nat
  BY Typed
<1>2. Len(frames) - 1 = 0 => Len(frames) = 1
  BY <1>1
<1>3. frames \in Seq(Frames) /\ Distinct(frames)
  BY Typed
<1>4. Len(frames) = 1 => Tail(frames) = <<>>
  BY <1>3, Pops
<1> QED BY <1>1, <1>2, <1>4 DEF LifeInv, Stacked, Bottom

(* A frame alone on the stack is all that is in progress.                  *)
LEMMA LoneFrame ==
  ASSUME LifeInv, frames # <<>>, Len(frames) - 1 = 0
  PROVE  /\ \A i \in DOMAIN frames : i = 1
         /\ \A edge, t : On(frames, edge, t) <=> edge = frames[1].edge /\ t = frames[1].tx
         /\ \A k, edge, t : Awaits(frames, k, edge, t)
              <=> edge = frames[1].edge /\ t = frames[1].tx /\ frames[1].to <= k
<1>1. frames \in Seq(Frames) /\ Len(frames) \in Nat /\ 1 \in DOMAIN frames
  BY Typed
<1>2. DOMAIN frames = 1..Len(frames)
  BY <1>1, LenProperties
<1>3. \A i \in DOMAIN frames : i = 1
  <2>1. Len(frames) = 1
    BY <1>1
  <2>2. DOMAIN frames = 1..1
    BY <1>2, <2>1
  <2> QED BY <2>2
<1> QED BY <1>1, <1>3 DEF On, Awaits

(* An empty stack dispatches nothing.                                      *)
LEMMA NoFrames ==
  /\ \A k, e, t : ~Awaits(<<>>, k, e, t)
  /\ \A e, t : ~On(<<>>, e, t)
  /\ \A w : Stacked(<<>>, w)
  /\ <<>> \in Seq(Frames)
<1>1. DOMAIN <<>> = {} /\ <<>> \in Seq(Frames)
  BY EmptySeq
<1> QED BY <1>1 DEF Awaits, On, Stacked, Distinct

(* A dispatch returns and nothing is entered or removed: what was seen is  *)
(* all that was to be seen.                                                *)
LEMMA PopHeard ==
  ASSUME LifeInv, frames # <<>>, frames' = Tail(frames),
         \/ frames[1].to > Listeners
         \/ frames[1].to > 1 /\ frames[1].edge \in {"+session", "+agent"}
         \/ frames[1].edge = "leave",
         UNCHANGED <<sessionLog, seen>>,
         reg'.session.tx = reg.session.tx, reg'.agent.tx = reg.agent.tx,
         reg'.agent.announced = reg.agent.announced
  PROVE  Heard'
<1>1. frames \in Seq(Frames) /\ Distinct(frames) /\ frames[1] \in Frames
  BY Typed
<1>2. \A k, e, t : Awaits(frames', k, e, t)
         <=> Awaits(frames, k, e, t) /\ ~(frames[1].edge = e /\ frames[1].tx = t)
  BY <1>1, Pops
<1>3. \A i \in DOMAIN frames :
         frames[i].edge = frames[1].edge /\ frames[i].tx = frames[1].tx => i = 1
  <2>1. 1 \in DOMAIN frames
    BY Typed
  <2> QED BY <1>1, <2>1 DEF Distinct
<1>4. ASSUME NEW k \in 1..Listeners, NEW e, NEW t, e \in Edges,
             k = 1 \/ e \notin {"+session", "+agent"}
      PROVE  Awaits(frames', k, e, t) <=> Awaits(frames, k, e, t)
  <2>1. frames[1].edge = e => ~(frames[1].to <= k)
    <3>1. frames[1].to \in Int /\ k \in Int /\ Listeners \in Int /\ k <= Listeners
      BY <1>1, Assumed DEF Frames
    <3>2. e # "leave"
      BY <1>4 DEF Edges, Publication!Edges
    <3> QED BY <3>1, <3>2, <1>4
  <2>2. ASSUME Awaits(frames, k, e, t), frames[1].edge = e, frames[1].tx = t
        PROVE  FALSE
    BY <2>1, <2>2, <1>3 DEF Awaits
  <2> QED BY <2>2, <1>2
<1>5. /\ \A t \in Ids, k \in 1..Listeners : HeardBy(k, t)
      /\ \A t \in Ids :
       /\ reg.session.tx = t /\ ~Awaits(frames, 1, "+session", t) => Was("+session", t)
       /\ reg.agent.tx = t /\ reg.agent.announced /\ ~Awaits(frames, 1, "+agent", t) =>
            Was("+agent", t)
  BY DEF LifeInv, Heard
<1>6. {"+session", "+agent", "event", "-agent", "-session"} = Edges /\ 1 \in 1..Listeners
  BY Typed DEF Edges, Publication!Edges
<1>7. ASSUME NEW t \in Ids, NEW k \in 1..Listeners
      PROVE  HeardBy(k, t)'
  <2>1. /\ Awaits(frames', k, "event", t) <=> Awaits(frames, k, "event", t)
        /\ Awaits(frames', k, "-session", t) <=> Awaits(frames, k, "-session", t)
        /\ Awaits(frames', k, "-agent", t) <=> Awaits(frames, k, "-agent", t)
        /\ Awaits(frames', k, "+session", t) => Awaits(frames, k, "+session", t)
        /\ Awaits(frames', k, "+agent", t) => Awaits(frames, k, "+agent", t)
    BY <1>2, <1>4, <1>6
  <2>2. HeardBy(k, t) /\ seen' = seen /\ sessionLog' = sessionLog
    BY <1>5
  <2>3. \A e : Was(e, t)' <=> Was(e, t)
    BY <2>2 DEF Was
  <2> QED BY <2>1, <2>2, <2>3 DEF HeardBy, One
<1>8. ASSUME NEW t \in Ids
      PROVE  /\ reg'.session.tx = t /\ ~Awaits(frames', 1, "+session", t) => Was("+session", t)'
             /\ reg'.agent.tx = t /\ reg'.agent.announced /\ ~Awaits(frames', 1, "+agent", t) =>
                  Was("+agent", t)'
  <2>1. /\ Awaits(frames', 1, "+session", t) <=> Awaits(frames, 1, "+session", t)
        /\ Awaits(frames', 1, "+agent", t) <=> Awaits(frames, 1, "+agent", t)
    BY <1>4, <1>6
  <2> QED BY <2>1, <1>5 DEF Was
<1> QED BY <1>7, <1>8 DEF Heard

(* A dispatch returns: whatever else keeps the frames of other dispatches  *)
(* keeps the stack.                                                        *)
LEMMA PopStacked ==
  ASSUME LifeInv, frames # <<>>, frames' = Tail(frames),
         \A f \in Frames : \A d, b : Fits(f, d, b, View)
           /\ ~(f.edge = frames[1].edge /\ f.tx = frames[1].tx) => Fits(f, d, b, View')
  PROVE  Stacked(frames, View)' /\ frames' \in Seq(Frames)
<1>1. frames \in Seq(Frames) /\ Distinct(frames) /\ 1 \in DOMAIN frames
      /\ \A i \in DOMAIN frames : frames[i] \in Frames
  BY Typed
<1>2. ASSUME NEW i \in DOMAIN frames, i # 1
      PROVE  Fits(frames[i], Len(frames) - i, Bottom(frames), View')
  <2>1. Fits(frames[i], Len(frames) - i, Bottom(frames), View)
    BY DEF LifeInv, Stacked
  <2>2. ~(frames[i].edge = frames[1].edge /\ frames[i].tx = frames[1].tx)
    BY <1>1, <1>2 DEF Distinct
  <2> QED BY <2>1, <2>2, <1>1
<1>3. Stacked(Tail(frames), View')
  BY <1>1, <1>2, PopFits
<1>4. Tail(frames) \in Seq(Frames)
  BY <1>1, Pops
<1> QED BY <1>3, <1>4

(* Which transactions may be publishing: the one announced at the bottom.  *)
LEMMA PublishingIs ==
  ASSUME LifeInv, NEW u \in Agents, tx[u].stage = "publishing"
  PROVE  reg.session.tx = u /\ reg.agent.tx = u /\ frames # <<>>
         /\ Bottom(frames).tx = u /\ Bottom(frames).edge \in {"+session", "+agent"}
         /\ \A v \in Ids : ~On(frames, "leave", v)
<1>1. frames # <<>> /\ Bottom(frames).tx = u /\ Bottom(frames).edge \in {"+session", "+agent"}
  BY DEF LifeInv, Transacted
<1>2. Len(frames) \in Nat \ {0} /\ DOMAIN frames = 1..Len(frames) /\ frames \in Seq(Frames)
  BY Typed, <1>1, EmptySeq, LenProperties
<1>3. Fits(Bottom(frames), Len(frames) - Len(frames), Bottom(frames), View)
  BY <1>2 DEF LifeInv, Stacked, Bottom
<1>4. reg.session.tx = u /\ reg.agent.tx = u
  <2>1. u \in Ids /\ Nobody \notin Ids
    BY Typed
  <2> QED BY <1>1, <1>3, <2>1, ViewIs DEF Fits, LifeInv, Registered
<1>5. ASSUME NEW v \in Ids, On(frames, "leave", v)
      PROVE  FALSE
  <2>1. PICK i \in DOMAIN frames : frames[i].edge = "leave"
    BY <1>5 DEF On
  <2>2. Len(frames) - i = 0
    BY <2>1 DEF LifeInv, Stacked, Fits
  <2>3. i = Len(frames)
    BY <2>2, <1>2
  <2> QED BY <2>1, <2>3, <1>1 DEF Bottom
<1> QED BY <1>1, <1>4, <1>5

(* The Session's entry keeps its transaction, or a plain one ends.         *)
LEMMA EndsKeeps ==
  ASSUME LifeInv,
         reg'.agent.tx = reg.agent.tx, reg'.session.tx = reg.session.tx,
         reg.session.announced => reg'.session.announced,
         tx' = tx \/ \E u \in Plains : tx' = [tx EXCEPT ![u].stage = "ended"],
         reg'.session.leaving => reg.session.leaving
           \/ (reg.session.tx \in Plains /\ tx'[reg.session.tx].stage = "ended"),
         UNCHANGED <<seen, factory>>,
         \A u \in Ids : On(frames', "leave", u) <=> On(frames, "leave", u),
         \A u \in Agents : tx[u].stage = "publishing" =>
           frames' # <<>> /\ Bottom(frames').tx = u
             /\ Bottom(frames').edge \in {"+session", "+agent"}
  PROVE  Registered' /\ Transacted' /\ tx' \in [Ids -> Transactions]
<1>1. /\ tx \in [Ids -> Transactions] /\ Agents \subseteq Ids /\ Plains \subseteq Ids
      /\ Agents \cap Plains = {}
  BY Typed
<1>2. tx' \in [Ids -> Transactions] /\ \A t \in Ids :
        /\ tx'[t].disp = tx[t].disp
        /\ tx'[t].stage = tx[t].stage \/ (t \in Plains /\ tx'[t].stage = "ended")
  <2>1. CASE tx' = tx
    BY <2>1, <1>1
  <2>2. CASE \E u \in Plains : tx' = [tx EXCEPT ![u].stage = "ended"]
    <3>1. PICK u \in Plains : tx' = [tx EXCEPT ![u].stage = "ended"]
      BY <2>2
    <3>2. tx[u] \in Transactions
      BY <1>1
    <3>3. LET b == [tx[u] EXCEPT !.stage = "ended"] IN
            b \in Transactions /\ b.stage = "ended" /\ b.disp = tx[u].disp
      BY <3>2 DEF Transactions
    <3>4. tx' = [tx EXCEPT ![u] = [tx[u] EXCEPT !.stage = "ended"]]
      BY <3>1
    <3> DEFINE b == [tx[u] EXCEPT !.stage = "ended"]
    <3> HIDE DEF b
    <3>5. /\ tx' = [tx EXCEPT ![u] = b] /\ b \in Transactions
          /\ b.stage = "ended" /\ b.disp = tx[u].disp
      BY <3>3, <3>4 DEF b
    <3> QED BY <3>5, <1>1
  <2> QED BY <2>1, <2>2
<1>3. Registered'
  BY DEF LifeInv, Registered
<1>4. Transacted'
  <2>1. ASSUME NEW t \in Plains
        PROVE  /\ tx'[t].stage \in {"new", "live", "ended"} /\ tx'[t].disp = "none"
               /\ tx'[t].stage = "live" => reg'.session.tx = t /\ ~reg'.session.leaving
    BY <1>1, <1>2 DEF LifeInv, Transacted
  <2>2. ASSUME NEW t \in Agents
        PROVE  /\ reg'.session.tx = t =>
                    tx'[t].stage \in {"publishing", "live", "unwinding"} /\ tx'[t].disp # "done"
               /\ tx'[t].stage = "publishing" =>
                    frames' # <<>> /\ Bottom(frames').tx = t
                      /\ Bottom(frames').edge \in {"+session", "+agent"}
               /\ tx'[t].stage \in {"publishing", "live"} /\ tx'[t].disp # "done"
                      /\ ~On(frames', "leave", t) => reg'.agent.tx = t
    <3>1. tx'[t].disp = tx[t].disp /\ tx'[t].stage = tx[t].stage /\ t \in Ids
      BY <1>1, <1>2
    <3> QED BY <3>1 DEF LifeInv, Transacted
  <2>3. ASSUME NEW t \in Ids, tx'[t].stage \in Early
        PROVE  /\ reg'.session.tx # t
               /\ \A k \in 1..Listeners, e \in Edges : seen'[k][t][e] = 0
    BY <2>3, <1>2 DEF LifeInv, Transacted, Early
  <2> QED BY <2>1, <2>2, <2>3 DEF Transacted
<1> QED BY <1>2, <1>3, <1>4

(* What the return of a dispatch does to the Session's entry: the flag of  *)
(* that dispatch goes, the others stay.                                    *)
Returned(f) ==
  /\ reg'.agent = reg.agent /\ reg'.session.tx = reg.session.tx
  /\ reg.session.announced => reg'.session.announced
  /\ f.edge # "+session" => reg'.session.announcing = reg.session.announcing
  /\ f.edge # "event" => reg'.session.appending = reg.session.appending

(* The last dispatch in progress has reached every listener, or its        *)
(* announcement was vetoed: its return keeps the invariant.                *)
LEMMA SettleKeeps ==
  ASSUME LifeInv, frames # <<>>, frames' = Tail(frames),
         frames[1].edge \in {"+session", "event", "-session", "-agent"},
         frames[1].to > Listeners \/ (frames[1].edge = "+session" /\ frames[1].to > 1),
         frames[1].edge = "+session" => frames[1].tx \in Plains,
         reg' \in [session : Entries, agent : Entries], Returned(frames[1]),
         tx' = tx \/ \E u \in Plains : tx' = [tx EXCEPT ![u].stage = "ended"],
         reg'.session.leaving => reg.session.leaving
           \/ (reg.session.tx \in Plains /\ tx'[reg.session.tx].stage = "ended"),
         UNCHANGED <<sessionLog, seen, factory, waiter>>
  PROVE  LifeInv'
<1> DEFINE t == frames[1].tx
<1>1. /\ frames \in Seq(Frames) /\ Distinct(frames) /\ frames[1] \in Frames /\ t \in Ids
      /\ Nobody \notin Ids /\ Agents \cap Plains = {} /\ Agents \subseteq Ids
      /\ Fits(frames[1], Len(frames) - 1, Bottom(frames), View)
  BY Typed, TopFits DEF Frames
<1>2. Heard'
  BY PopHeard DEF Returned
<1>3. \A e, u : On(frames', e, u)
         <=> On(frames, e, u) /\ ~(frames[1].edge = e /\ frames[1].tx = u)
  BY <1>1, Pops
<1>4. \A u \in Agents : tx[u].stage = "publishing" =>
           frames' # <<>> /\ Bottom(frames').tx = u
             /\ Bottom(frames').edge \in {"+session", "+agent"}
  <2> SUFFICES ASSUME NEW u \in Agents, tx[u].stage = "publishing"
               PROVE  frames' # <<>> /\ Bottom(frames').tx = u
                        /\ Bottom(frames').edge \in {"+session", "+agent"}
    OBVIOUS
  <2>1. Bottom(frames).tx = u /\ Bottom(frames).edge \in {"+session", "+agent"}
    BY PublishingIs
  <2>2. Bottom(frames) # frames[1]
    BY <2>1, <1>1
  <2>3. Len(frames) # 1
    BY <2>2 DEF Bottom
  <2>4. frames' # <<>>
    <3>1. Len(Tail(frames)) = Len(frames) - 1 /\ Len(frames) \in Nat
      BY <1>1, Pops, Typed
    <3>2. Len(Tail(frames)) # 0
      BY <2>3, <3>1
    <3> QED BY <3>2, EmptySeq
  <2> QED BY <2>1, <2>4, <1>1, Pops
<1>5. /\ Registered' /\ Transacted' /\ tx' \in [Ids -> Transactions]
  <2>1. \A u \in Ids : On(frames', "leave", u) <=> On(frames, "leave", u)
    BY <1>3
  <2>2. /\ reg'.agent = reg.agent /\ reg'.session.tx = reg.session.tx
        /\ reg.session.announced => reg'.session.announced
    BY DEF Returned
  <2> QED BY <2>1, <2>2, <1>4, EndsKeeps
<1>6. Stacked(frames, View)' /\ frames' \in Seq(Frames)
  <2> SUFFICES ASSUME NEW f \in Frames, NEW d, NEW b, Fits(f, d, b, View),
                      ~(f.edge = frames[1].edge /\ f.tx = frames[1].tx)
               PROVE  Fits(f, d, b, View')
    BY PopStacked
  <2>1. /\ frames[1].edge = "+session" => t = reg.session.tx
        /\ frames[1].edge = "event" => t = reg.session.tx
    BY <1>1, ViewIs DEF Fits
  <2>2. tx'[f.tx].disp = tx[f.tx].disp
    <3>1. CASE tx' = tx
      BY <3>1
    <3>2. CASE \E u \in Plains : tx' = [tx EXCEPT ![u].stage = "ended"]
      <4>1. tx \in [Ids -> Transactions] /\ f.tx \in Ids /\ Plains \subseteq Ids
        BY Typed DEF Frames
      <4>2. PICK u \in Plains : tx' = [tx EXCEPT ![u].stage = "ended"]
        BY <3>2
      <4>3. tx[u] \in Transactions /\ u \in Ids
        BY <4>1
      <4>4. [tx[u] EXCEPT !.stage = "ended"].disp = tx[u].disp
        BY <4>3 DEF Transactions
      <4> QED BY <4>1, <4>2, <4>3, <4>4
    <3> QED BY <3>1, <3>2
  <2>3. f.edge = "+session" => reg'.session.announcing
    BY <2>1, ViewIs DEF Fits, Returned
  <2>4. f.edge = "event" => reg'.session.appending
    BY <2>1, ViewIs DEF Fits, Returned
  <2> QED BY <2>2, <2>3, <2>4, ViewIs DEF Fits, Returned
<1>7. Awaited'
  <2> SUFFICES ASSUME waiter' = "waiting", reg'.session.tx = Nobody, reg'.agent.tx = Nobody
               PROVE  FALSE
    BY DEF Awaited
  <2>1. frames[1].edge = "-session" /\ frames[1].to = 1
    BY DEF LifeInv, Awaited, Returned
  <2> QED BY <2>1, Assumed
<1>8. LifeTypes'
  BY <1>5, <1>6 DEF LifeInv, LifeTypes
<1> QED BY <1>2, <1>5, <1>6, <1>7, <1>8 DEF LifeInv

(* Publication of an agent ends: all is live, or all is to be unwound.     *)
LEMMA PublicationEnds ==
  ASSUME LifeInv, frames # <<>>, frames' = Tail(frames),
         frames[1].edge \in {"+session", "+agent"}, frames[1].to > 1,
         NEW t \in Agents, frames[1].tx = t,
         NEW b \in Transactions, tx' = [tx EXCEPT ![t] = b],
         b.stage \in {"live", "unwinding"},
         b.disp = tx[t].disp \/ b.disp = "stopping",
         b.stage = "live" => frames[1].edge = "+agent",
         reg' \in [session : Entries, agent : Entries],
         reg'.session.tx = reg.session.tx, reg'.agent.tx = reg.agent.tx,
         reg.session.announced => reg'.session.announced,
         reg'.session.leaving => reg.session.leaving,
         reg'.agent.announced = reg.agent.announced,
         UNCHANGED <<sessionLog, seen, factory, waiter>>
  PROVE  LifeInv'
<1>1. /\ Nobody \notin Ids /\ Agents \cap Plains = {} /\ Agents \subseteq Ids
      /\ tx \in [Ids -> Transactions] /\ t \in Ids
      /\ Fits(frames[1], Len(frames) - 1, Bottom(frames), View)
  BY Typed, TopFits
<1>2. frames' = <<>> /\ Bottom(frames) = frames[1]
  <2>1. Len(frames) - 1 = 0
    BY <1>1 DEF Fits
  <2> QED BY <2>1, TopFits
<1>3. reg.session.tx = t /\ (frames[1].edge = "+agent" => reg.agent.tx = t)
  BY <1>1, ViewIs DEF Fits, LifeInv, Registered
<1>4. Heard'
  BY PopHeard
<1>5. tx' \in [Ids -> Transactions] /\ tx'[t] = b /\ \A u \in Ids : u # t => tx'[u] = tx[u]
  BY <1>1
<1>6. \A u \in Ids : ~On(frames, "leave", u) /\ ~On(frames', "leave", u)
  <2>1. \A u \in Ids : ~On(frames', "leave", u)
    BY <1>2, NoFrames
  <2>2. frames \in Seq(Frames) /\ Distinct(frames)
    BY Typed
  <2> QED BY <2>1, <2>2, Pops
<1>7. Registered'
  BY DEF LifeInv, Registered
<1>8. Transacted'
  <2>1. ASSUME NEW u \in Plains
        PROVE  /\ tx'[u].stage \in {"new", "live", "ended"} /\ tx'[u].disp = "none"
               /\ tx'[u].stage = "live" => reg'.session.tx = u /\ ~reg'.session.leaving
    <3>1. u # t /\ u \in Ids
      BY <1>1, Typed
    <3> QED BY <3>1, <1>5 DEF LifeInv, Transacted
  <2>2. ASSUME NEW u \in Agents
        PROVE  /\ reg'.session.tx = u =>
                    tx'[u].stage \in {"publishing", "live", "unwinding"} /\ tx'[u].disp # "done"
               /\ tx'[u].stage = "publishing" =>
                    frames' # <<>> /\ Bottom(frames').tx = u
                      /\ Bottom(frames').edge \in {"+session", "+agent"}
               /\ tx'[u].stage \in {"publishing", "live"} /\ tx'[u].disp # "done"
                      /\ ~On(frames', "leave", u) => reg'.agent.tx = u
    <3>1. CASE u = t
      BY <3>1, <1>3, <1>5 DEF LifeInv, Transacted
    <3>2. CASE u # t
      <4>1. tx'[u] = tx[u] /\ u \in Ids
        BY <3>2, <1>1, <1>5
      <4>2. tx[u].stage # "publishing"
        BY <3>2, <1>2, PublishingIs
      <4> QED BY <4>1, <4>2, <1>6 DEF LifeInv, Transacted
    <3> QED BY <3>1, <3>2
  <2>3. ASSUME NEW u \in Ids, tx'[u].stage \in Early
        PROVE  /\ reg'.session.tx # u
               /\ \A k \in 1..Listeners, e \in Edges : seen'[k][u][e] = 0
    <3>1. tx[u].stage \in Early
      BY <2>3, <1>5 DEF Early
    <3> QED BY <3>1 DEF LifeInv, Transacted
  <2> QED BY <2>1, <2>2, <2>3 DEF Transacted
<1>9. Awaited'
  <2>1. reg'.session.tx # Nobody
    BY <1>3, <1>1
  <2> QED BY <2>1 DEF Awaited
<1>10. Stacked(frames, View)' /\ frames' \in Seq(Frames)
  BY <1>2, NoFrames
<1>11. LifeTypes'
  BY <1>5, <1>10 DEF LifeInv, LifeTypes
<1> QED BY <1>4, <1>7, <1>8, <1>9, <1>10, <1>11 DEF LifeInv

(* The Session leaves the store: rest is what remains of the stack, none   *)
(* of it about the entry, and its disposal begins above that.              *)
LEMMA DetachKeeps ==
  ASSUME LifeInv, NEW t \in Ids, reg.session.tx = t, reg.agent.tx = Nobody,
         NEW rest \in Seq(Frames), Stacked(rest, View),
         \A e, u : On(rest, e, u) => e \in {"-session", "leave"},
         \A k \in 1..Listeners, u \in Ids :
           /\ ~Awaits(frames, k, "event", u)
           /\ \A e \in {"-session", "-agent"} : Awaits(rest, k, e, u) <=> Awaits(frames, k, e, u),
         ~Awaits(frames, 1, "+session", t),
         reg' = [reg EXCEPT !.session = Publication!NoEntry],
         frames' = <<Publication!Frame("-session", t)>> \o rest,
         tx' \in [Ids -> Transactions],
         \A u \in Ids : /\ tx'[u].stage = tx[u].stage
                             \/ (u = t /\ u \in Plains /\ tx'[u].stage = "ended")
                        /\ tx'[u].disp = tx[u].disp
                             \/ (u = t /\ tx'[u].disp = "done" /\ ~On(rest, "leave", u)),
         t \in Agents => tx'[t].disp = "done",
         t \in Plains => tx'[t].stage = "ended" /\ tx'[t].disp = "none",
         \A u \in Ids : u # t => (On(rest, "leave", u) <=> On(frames, "leave", u)),
         UNCHANGED <<sessionLog, seen, factory, waiter>>
  PROVE  LifeInv'
<1> DEFINE g == Publication!Frame("-session", t)
<1>1. /\ Nobody \notin Ids /\ Agents \cap Plains = {}
      /\ Agents \subseteq Ids /\ Plains \subseteq Ids
      /\ tx \in [Ids -> Transactions] /\ reg \in [session : Entries, agent : Entries]
      /\ Ids = Agents \cup Plains /\ 1 \in 1..Listeners
      /\ seen \in [1..Listeners -> [Ids -> [Edges -> Nat]]]
  BY Typed DEF Ids, Agents, Publication!Txs
<1>2. /\ g \in Frames /\ g.edge = "-session" /\ g.tx = t /\ g.to = 1
  <2>1. 1 \in 1..(Listeners + 1)
    BY Assumed
  <2> QED BY <2>1 DEF Publication!Frame, Frames, Edges, Publication!Edges
<1>3. /\ Publication!NoEntry \in Entries
      /\ LET e == Publication!NoEntry IN e.tx = Nobody /\ ~e.leaving /\ ~e.announced
  BY DEF Publication!NoEntry, Entries, Nobody
<1>4. /\ reg' \in [session : Entries, agent : Entries]
      /\ reg'.session.tx = Nobody /\ ~reg'.session.leaving /\ reg'.agent = reg.agent
  BY <1>1, <1>3
<1>5. ~On(rest, "-session", t)
  <2>1. ASSUME NEW i \in DOMAIN rest, rest[i].edge = "-session", rest[i].tx = t
        PROVE  FALSE
    <3>1. Fits(rest[i], Len(rest) - i, Bottom(rest), View)
      BY DEF Stacked
    <3> QED BY <3>1, <2>1, ViewIs DEF Fits
  <2> QED BY <2>1 DEF On
<1> HIDE DEF g
<1>6. /\ frames' \in Seq(Frames) /\ frames' # <<>> /\ frames'[1] = g
      /\ \A k, edge, u : Awaits(frames', k, edge, u)
           <=> Awaits(rest, k, edge, u) \/ (edge = "-session" /\ u = t /\ 1 <= k)
      /\ \A edge, u : On(frames', edge, u)
           <=> On(rest, edge, u) \/ (edge = "-session" /\ u = t)
  <2>1. Distinct(rest) /\ frames' = <<g>> \o rest /\ ~On(rest, g.edge, g.tx)
    BY <1>2, <1>5 DEF Stacked, g
  <2> QED BY <2>1, <1>2, Pushes
<1>7. Was("+session", t)
  BY DEF LifeInv, Heard
<1>8. Stacked(frames, View)'
  <2>1. \A i \in DOMAIN rest : /\ rest[i] \in Frames
                               /\ Fits(rest[i], Len(rest) - i, Bottom(rest), View)
                               /\ rest[i].edge \in {"-session", "leave"}
                               /\ (rest[i].edge = "leave" => On(rest, "leave", rest[i].tx))
    <3> TAKE i \in DOMAIN rest
    <3>1. rest[i] \in Frames
      BY ElementOfSeq, LenProperties
    <3>2. On(rest, rest[i].edge, rest[i].tx)
      BY DEF On
    <3> QED BY <3>1, <3>2 DEF Stacked
  <2>2. ASSUME NEW i \in DOMAIN rest
        PROVE  Fits(rest[i], Len(rest) - i, Bottom(rest), View')
    <3>1. rest[i].tx \in Ids
      BY <2>1 DEF Frames
    <3>2. rest[i].edge = "leave" => tx'[rest[i].tx].disp = tx[rest[i].tx].disp
      BY <2>1, <3>1
    <3>3. rest[i].tx # Nobody
      BY <3>1, <1>1
    <3> QED BY <2>1, <3>2, <3>3, <1>4, ViewIs DEF Fits
  <2>3. Stacked(rest, View')
    BY <2>2 DEF Stacked
  <2>4. \A d, b : Fits(g, d, b, View')
    BY <1>1, <1>2, <1>4, <1>7, ViewIs DEF Fits, Was
  <2>5. frames' = <<g>> \o rest /\ ~On(rest, g.edge, g.tx)
    BY <1>2, <1>5 DEF g
  <2>6. Stacked(<<g>> \o rest, View')
    BY <2>3, <2>4, <2>5, <1>2, PushFits
  <2> QED BY <2>5, <2>6
<1>9. Registered'
  BY <1>1, <1>4 DEF Registered
<1>10. Awaited'
  BY <1>2, <1>6 DEF Awaited
<1>11. Transacted'
  <2>1. ASSUME NEW u \in Plains
        PROVE  /\ tx'[u].stage \in {"new", "live", "ended"} /\ tx'[u].disp = "none"
               /\ tx'[u].stage = "live" => reg'.session.tx = u /\ ~reg'.session.leaving
    <3>1. tx[u].stage \in {"new", "live", "ended"} /\ tx[u].disp = "none"
          /\ (tx[u].stage = "live" => u = t)
      BY DEF LifeInv, Transacted
    <3> QED BY <3>1, <1>1
  <2>2. ASSUME NEW u \in Agents
        PROVE  /\ tx'[u].stage # "publishing"
               /\ ~(tx'[u].stage = "live" /\ tx'[u].disp # "done" /\ ~On(frames', "leave", u))
    <3>1. u \in Ids /\ u \notin Plains /\ u # Nobody
      BY <1>1
    <3>2. tx'[u].stage = tx[u].stage
      BY <3>1
    <3>3. tx[u].stage # "publishing"
      BY <3>1, PublishingIs
    <3>4. tx[u].stage = "live" => tx[u].disp = "done" \/ On(frames, "leave", u)
      BY <3>1 DEF LifeInv, Transacted
    <3>5. u # t => tx'[u].disp = tx[u].disp /\ (On(frames', "leave", u) <=> On(frames, "leave", u))
      BY <3>1, <1>6
    <3> QED BY <3>1, <3>2, <3>3, <3>4, <3>5
  <2>3. ASSUME NEW u \in Ids, tx'[u].stage \in Early
        PROVE  /\ reg'.session.tx # u
               /\ \A k \in 1..Listeners, e \in Edges : seen'[k][u][e] = 0
    <3>1. tx[u].stage \in Early
      BY <2>3 DEF Early
    <3> QED BY <3>1, <1>1, <1>4 DEF LifeInv, Transacted
  <2>4. \A u \in Agents : reg'.session.tx # u
    BY <1>1, <1>4
  <2> QED BY <2>1, <2>2, <2>3, <2>4 DEF Transacted
<1>12. Heard'
  <2>1. ASSUME NEW u \in Ids, NEW k \in 1..Listeners
        PROVE  HeardBy(k, u)'
    <3>1. HeardBy(k, u) /\ seen' = seen /\ sessionLog' = sessionLog /\ 1 <= k
      BY Assumed DEF LifeInv, Heard
    <3>2. \A e : Was(e, u)' <=> Was(e, u)
      BY <3>1 DEF Was
    <3>3. /\ ~Awaits(frames', k, "event", u) /\ ~Awaits(frames, k, "event", u)
          /\ ~Awaits(frames', k, "+session", u) /\ ~Awaits(frames', k, "+agent", u)
          /\ Awaits(frames', k, "-agent", u) <=> Awaits(frames, k, "-agent", u)
          /\ Awaits(frames', k, "-session", u) <=> Awaits(frames, k, "-session", u) \/ u = t
      <4>1. \A e : Awaits(rest, k, e, u) => On(rest, e, u)
        BY DEF Awaits, On
      <4>2. /\ ~Awaits(rest, k, "event", u) /\ ~Awaits(rest, k, "+session", u)
            /\ ~Awaits(rest, k, "+agent", u) /\ ~Awaits(frames, k, "event", u)
        BY <4>1
      <4>3. \A e \in {"-session", "-agent"} : Awaits(rest, k, e, u) <=> Awaits(frames, k, e, u)
        OBVIOUS
      <4>4. /\ Awaits(frames', k, "event", u) <=> Awaits(rest, k, "event", u)
            /\ Awaits(frames', k, "+session", u) <=> Awaits(rest, k, "+session", u)
            /\ Awaits(frames', k, "+agent", u) <=> Awaits(rest, k, "+agent", u)
            /\ Awaits(frames', k, "-agent", u) <=> Awaits(rest, k, "-agent", u)
            /\ Awaits(frames', k, "-session", u) <=> Awaits(rest, k, "-session", u) \/ u = t
        BY <3>1, <1>6
      <4> QED BY <4>2, <4>3, <4>4
    <3>4. u = t => Was("+session", u)
      BY <1>7
    <3>5. u # Nobody /\ seen[k][u]["-session"] \in Nat
      BY <1>1 DEF Edges, Publication!Edges
    <3>6. seen[k][u]["-session"] + One(Awaits(frames', k, "-session", u)) = One(Was("+session", u))
      <4>1. CASE u = t
        <5>1. seen[k][u]["-session"] + One(Awaits(frames, k, "-session", u)) = 0
          BY <3>1, <4>1 DEF HeardBy, One
        <5>2. seen[k][u]["-session"] = 0
          BY <5>1, <3>5 DEF One
        <5>3. One(Was("+session", u)) = 1
          BY <4>1, <3>4 DEF One
        <5>4. One(Awaits(frames', k, "-session", u)) = 1
          BY <4>1, <3>3 DEF One
        <5> QED BY <5>2, <5>3, <5>4
      <4>2. CASE u # t
        BY <3>1, <3>3, <4>2 DEF HeardBy, One
      <4> QED BY <4>1, <4>2
    <3>7. seen[k][u]["-agent"] + One(Awaits(frames', k, "-agent", u))
             = One(Was("+agent", u) /\ reg'.agent.tx # u)
      BY <3>1, <3>3, <1>4 DEF HeardBy, One
    <3>8. One(Was("+session", u)) = One(Was("+session", u) /\ reg'.session.tx # u)
      BY <1>4, <3>5 DEF One
    <3>9. /\ seen[k][u]["event"] + One(Awaits(frames', k, "event", u)) = sessionLog[u]
          /\ seen[k][u]["+session"] <= 1 /\ seen[k][u]["+agent"] <= 1
      BY <3>1, <3>3 DEF HeardBy, One
    <3> QED BY <3>1, <3>2, <3>3, <3>5, <3>6, <3>7, <3>8, <3>9, <1>4 DEF HeardBy, One
  <2>2. ASSUME NEW u \in Ids
        PROVE  reg'.session.tx # u /\ reg'.agent.tx # u
    BY <1>1, <1>4
  <2> QED BY <2>1, <2>2 DEF Heard
<1>13. LifeTypes'
  BY <1>4, <1>6 DEF LifeInv, LifeTypes
<1> QED BY <1>6, <1>8, <1>9, <1>10, <1>11, <1>12, <1>13 DEF LifeInv

(* A Session is entered and announced, with its agent or without one.      *)
LEMMA EnterKeeps ==
  ASSUME LifeInv, NEW t \in Ids, tx[t].stage \in Early, tx[t].disp = "none",
         reg.session.tx = Nobody,
         reg'.session = Publication!Announcing(Publication!Entered(t)),
         t \in Agents => reg'.agent = Publication!Entered(t) /\ frames = <<>> /\ factory # "gone",
         t \in Plains => reg'.agent = reg.agent,
         reg' = [session |-> reg'.session, agent |-> reg'.agent],
         frames' = <<Publication!Frame("+session", t)>> \o frames,
         tx' = [tx EXCEPT ![t].stage = IF t \in Plains THEN "live" ELSE "publishing"],
         UNCHANGED <<sessionLog, seen, factory, waiter>>
  PROVE  LifeInv'
<1> DEFINE g == Publication!Frame("+session", t)
<1>1. /\ Nobody \notin Ids /\ Agents \cap Plains = {}
      /\ Agents \subseteq Ids /\ Plains \subseteq Ids
      /\ tx \in [Ids -> Transactions] /\ reg \in [session : Entries, agent : Entries]
      /\ reg.agent \in Entries /\ frames \in Seq(Frames) /\ Distinct(frames)
      /\ Ids = Agents \cup Plains /\ 1 \in 1..Listeners
  BY Typed DEF Ids, Agents, Publication!Txs
<1>2. g \in Frames /\ g.edge = "+session" /\ g.tx = t /\ g.to = 1
  <2>1. 1 \in 1..(Listeners + 1)
    BY Assumed
  <2> QED BY <2>1 DEF Publication!Frame, Frames, Edges, Publication!Edges
<1>3. reg.agent.tx = Nobody
  BY DEF LifeInv, Registered
<1>4. LET e == Publication!Entered(t) IN e \in Entries /\ e.tx = t /\ ~e.announced /\ ~e.leaving
  BY DEF Publication!Entered, Publication!NoEntry, Entries
<1>5. LET e == Publication!Announcing(Publication!Entered(t)) IN
        e \in Entries /\ e.tx = t /\ e.announced /\ e.announcing /\ ~e.leaving
  BY <1>4 DEF Publication!Announcing, Entries
<1>6. /\ reg' \in [session : Entries, agent : Entries]
      /\ reg'.session.tx = t /\ reg'.session.announced /\ reg'.session.announcing
      /\ ~reg'.session.leaving
      /\ t \in Plains => reg'.agent.tx = Nobody
      /\ t \in Agents => reg'.agent.tx = t /\ ~reg'.agent.announced
  BY <1>1, <1>3, <1>4, <1>5
<1>7. ASSUME NEW k \in 1..Listeners, NEW e \in Edges
      PROVE  seen[k][t][e] = 0
  BY DEF LifeInv, Transacted
<1>8. \A i \in DOMAIN frames :
         /\ frames[i] \in Frames /\ Fits(frames[i], Len(frames) - i, Bottom(frames), View)
         /\ \/ frames[i].edge \in {"-session", "leave"} /\ frames[i].tx # t
            \/ frames[i].edge = "leave" /\ t \in Plains
  <2> TAKE i \in DOMAIN frames
  <2>1. frames[i] \in Frames /\ Fits(frames[i], Len(frames) - i, Bottom(frames), View)
    BY Typed DEF LifeInv, Stacked
  <2>2. frames[i].edge \in {"-session", "leave"}
    BY <2>1, <1>1, <1>3, ViewIs DEF Fits, Frames, Edges, Publication!Edges
  <2>3. frames[i].edge = "leave" => frames[i].tx \in Agents
    BY <2>1 DEF Fits
  <2>4. frames[i].edge = "-session" => frames[i].tx # t
    <3>1. "+session" \in Edges
      BY DEF Edges, Publication!Edges
    <3> QED BY <3>1, <2>1, <1>1, <1>7, ViewIs DEF Fits
  <2>5. t \in Agents => frames = <<>>
    OBVIOUS
  <2>6. frames # <<>>
    BY EmptySeq
  <2> QED BY <2>1, <2>2, <2>3, <2>4, <2>5, <2>6, <1>1
<1>9. \A e, u : On(frames, e, u) => e \in {"-session", "leave"}
  BY <1>8 DEF On
<1>10. tx' \in [Ids -> Transactions] /\ \A u \in Ids :
         /\ tx'[u].disp = tx[u].disp
         /\ IF u = t THEN tx'[u].stage = IF t \in Plains THEN "live" ELSE "publishing"
            ELSE tx'[u].stage = tx[u].stage
  <2> DEFINE b == [tx[t] EXCEPT !.stage = IF t \in Plains THEN "live" ELSE "publishing"]
  <2>1. b \in Transactions /\ b.disp = tx[t].disp
        /\ b.stage = IF t \in Plains THEN "live" ELSE "publishing"
    <3>1. tx[t] \in Transactions
      BY <1>1
    <3> QED BY <3>1 DEF Transactions
  <2>2. tx' = [tx EXCEPT ![t] = b]
    OBVIOUS
  <2> HIDE DEF b
  <2> QED BY <2>1, <2>2, <1>1
<1> HIDE DEF g
<1>11. /\ frames' \in Seq(Frames) /\ frames' # <<>>
       /\ Bottom(frames') = IF frames = <<>> THEN g ELSE Bottom(frames)
       /\ \A k, edge, u : Awaits(frames', k, edge, u)
            <=> Awaits(frames, k, edge, u) \/ (edge = "+session" /\ u = t /\ 1 <= k)
       /\ \A edge, u : On(frames', edge, u)
            <=> On(frames, edge, u) \/ (edge = "+session" /\ u = t)
  <2>1. frames' = <<g>> \o frames /\ ~On(frames, g.edge, g.tx)
    BY <1>2, <1>9 DEF g
  <2> QED BY <2>1, <1>1, <1>2, Pushes
<1>12. Stacked(frames, View)'
  <2>1. ASSUME NEW i \in DOMAIN frames
        PROVE  Fits(frames[i], Len(frames) - i, Bottom(frames), View')
    <3>1. frames[i].tx \in Ids
      BY <1>8 DEF Frames
    <3>2. tx'[frames[i].tx].disp = tx[frames[i].tx].disp
      BY <1>10, <3>1
    <3>3. frames[i].edge = "leave" => reg'.agent.tx # frames[i].tx
      BY <1>1, <1>6, <1>8, <3>1
    <3>4. frames[i].edge = "-session" => reg'.session.tx # frames[i].tx
      BY <1>6, <1>8
    <3> QED BY <1>8, <3>2, <3>3, <3>4, ViewIs DEF Fits
  <2>2. Stacked(frames, View')
    BY <2>1, <1>1 DEF Stacked
  <2>3. t \in Agents => Len(frames) = 0
    BY EmptySeq
  <2>4. \A b : Fits(g, Len(frames), b, View')
    BY <2>3, <1>2, <1>6, ViewIs DEF Fits
  <2>5. frames' = <<g>> \o frames /\ ~On(frames, g.edge, g.tx)
    BY <1>2, <1>9 DEF g
  <2>6. Stacked(<<g>> \o frames, View')
    BY <2>2, <2>4, <2>5, <1>1, <1>2, PushFits
  <2> QED BY <2>5, <2>6
<1>13. Registered'
  BY <1>1, <1>6 DEF Registered
<1>14. Awaited'
  <2>1. reg'.session.tx # Nobody
    BY <1>1, <1>6
  <2> QED BY <2>1 DEF Awaited
<1>15. Transacted'
  <2>1. ASSUME NEW u \in Plains
        PROVE  /\ tx'[u].stage \in {"new", "live", "ended"} /\ tx'[u].disp = "none"
               /\ tx'[u].stage = "live" => reg'.session.tx = u /\ ~reg'.session.leaving
    <3>1. tx[u].stage \in {"new", "live", "ended"} /\ tx[u].disp = "none"
          /\ (tx[u].stage = "live" => reg.session.tx = u)
      BY DEF LifeInv, Transacted
    <3> QED BY <3>1, <1>1, <1>6, <1>10
  <2>2. ASSUME NEW u \in Agents
        PROVE  /\ reg'.session.tx = u =>
                    tx'[u].stage \in {"publishing", "live", "unwinding"} /\ tx'[u].disp # "done"
               /\ tx'[u].stage = "publishing" =>
                    frames' # <<>> /\ Bottom(frames').tx = u
                      /\ Bottom(frames').edge \in {"+session", "+agent"}
               /\ tx'[u].stage \in {"publishing", "live"} /\ tx'[u].disp # "done"
                      /\ ~On(frames', "leave", u) => reg'.agent.tx = u
    <3>1. u \in Ids /\ u \notin Plains /\ u # Nobody
      BY <1>1
    <3>2. CASE u = t
      BY <3>1, <3>2, <1>2, <1>6, <1>10, <1>11
    <3>3. CASE u # t
      <4>1. tx'[u].stage = tx[u].stage /\ tx'[u].disp = tx[u].disp
        BY <3>1, <3>3, <1>10
      <4>2. tx[u].stage # "publishing"
        BY <3>1, PublishingIs
      <4>3. tx[u].stage = "live" => tx[u].disp = "done" \/ On(frames, "leave", u)
        BY <3>1, <1>3 DEF LifeInv, Transacted
      <4>4. On(frames, "leave", u) => On(frames', "leave", u)
        BY <1>11
      <4> QED BY <4>1, <4>2, <4>3, <4>4, <3>3, <1>6
    <3> QED BY <3>2, <3>3
  <2>3. ASSUME NEW u \in Ids, tx'[u].stage \in Early
        PROVE  /\ reg'.session.tx # u
               /\ \A k \in 1..Listeners, e \in Edges : seen'[k][u][e] = 0
    <3>1. tx[u].stage \in Early /\ u # t
      BY <2>3, <1>10 DEF Early
    <3> QED BY <3>1, <1>6 DEF LifeInv, Transacted
  <2> QED BY <2>1, <2>2, <2>3 DEF Transacted
<1>16. Heard'
  <2>0. {"+session", "+agent", "event", "-agent", "-session"} = Edges
    BY DEF Edges, Publication!Edges
  <2>1. ASSUME NEW u \in Ids, NEW k \in 1..Listeners
        PROVE  HeardBy(k, u)'
    <3>1. HeardBy(k, u) /\ seen' = seen /\ sessionLog' = sessionLog /\ 1 <= k /\ u # Nobody
      BY Assumed DEF LifeInv, Heard
    <3>2. \A e : Was(e, u)' <=> Was(e, u)
      BY <3>1 DEF Was
    <3>3. /\ Awaits(frames', k, "event", u) <=> Awaits(frames, k, "event", u)
          /\ Awaits(frames', k, "+agent", u) <=> Awaits(frames, k, "+agent", u)
          /\ Awaits(frames', k, "-agent", u) <=> Awaits(frames, k, "-agent", u)
          /\ Awaits(frames', k, "-session", u) <=> Awaits(frames, k, "-session", u)
          /\ Awaits(frames', k, "+session", u) <=> Awaits(frames, k, "+session", u) \/ u = t
      BY <3>1, <1>11
    <3>4. u = t => /\ seen[k][u]["+session"] = 0 /\ seen[k][u]["+agent"] = 0
                   /\ ~Was("+session", u) /\ ~Was("+agent", u)
      BY <2>0, <1>1, <1>7 DEF Was
    <3>5. /\ One(Was("+session", u) /\ reg'.session.tx # u)
               = One(Was("+session", u) /\ reg.session.tx # u)
          /\ One(Was("+agent", u) /\ reg'.agent.tx # u) = One(Was("+agent", u) /\ reg.agent.tx # u)
      BY <3>1, <3>4, <1>1, <1>3, <1>6 DEF One
    <3>6. reg'.agent.tx = u /\ ~reg'.agent.announced => seen[k][u]["+agent"] = 0
      BY <3>1, <3>4, <1>1, <1>6
    <3> QED BY <3>1, <3>2, <3>3, <3>4, <3>5, <3>6 DEF HeardBy, One
  <2>2. ASSUME NEW u \in Ids
        PROVE  /\ reg'.session.tx = u => Awaits(frames', 1, "+session", u)
               /\ reg'.agent.tx = u => ~reg'.agent.announced
    <3>1. u # Nobody
      BY <1>1
    <3> QED BY <3>1, <1>1, <1>6, <1>11
  <2> QED BY <2>1, <2>2 DEF Heard
<1>17. LifeTypes'
  BY <1>6, <1>10, <1>11 DEF LifeInv, LifeTypes
<1> QED BY <1>12, <1>13, <1>14, <1>15, <1>16, <1>17 DEF LifeInv

(* An event is appended; a Session's dispatches do not nest.               *)
LEMMA AppendKeeps ==
  ASSUME LifeInv, Publication!AppendEvent
  PROVE  LifeInv'
<1> DEFINE t == reg.session.tx
           g == [Publication!Frame("event", t) EXCEPT !.seq = sessionLog[t] + 1]
<1>1. /\ t # Nobody /\ ~reg.session.appending
      /\ sessionLog' = [sessionLog EXCEPT ![t] = sessionLog[t] + 1]
      /\ reg' = [reg EXCEPT !.session.appending = TRUE]
      /\ frames' = <<g>> \o frames
      /\ UNCHANGED <<tx, seen, factory, waiter>>
  BY DEF Publication!AppendEvent, Publication!MayAppend, Nobody
<1>2. /\ Nobody \notin Ids /\ t \in Ids /\ reg \in [session : Entries, agent : Entries]
      /\ reg.session \in Entries /\ frames \in Seq(Frames) /\ Distinct(frames)
      /\ sessionLog \in [Ids -> Nat] /\ 1 \in 1..Listeners
      /\ \A i \in DOMAIN frames : frames[i] \in Frames
  BY <1>1, Typed
<1>3. /\ g \in Frames /\ g.edge = "event" /\ g.tx = t /\ g.to = 1 /\ g.seq = sessionLog[t] + 1
  <2>1. 1 \in 1..(Listeners + 1) /\ sessionLog[t] + 1 \in Nat
    BY <1>2, Assumed
  <2> QED BY <2>1, <1>2 DEF Publication!Frame, Frames, Edges, Publication!Edges
<1>4. [reg.session EXCEPT !.appending = TRUE] \in Entries
  BY <1>2 DEF Entries
<1>5. /\ reg' \in [session : Entries, agent : Entries]
      /\ reg'.session.tx = t /\ reg'.session.announced = reg.session.announced
      /\ reg'.session.announcing = reg.session.announcing /\ reg'.session.appending
      /\ reg'.session.leaving = reg.session.leaving /\ reg'.agent = reg.agent
  <2>1. reg' = [reg EXCEPT !.session = [reg.session EXCEPT !.appending = TRUE]]
    BY <1>1
  <2>2. /\ reg' \in [session : Entries, agent : Entries] /\ reg'.agent = reg.agent
        /\ reg'.session = [reg.session EXCEPT !.appending = TRUE]
    BY <2>1, <1>2, <1>4
  <2> QED BY <2>2, <1>2 DEF Entries
<1> HIDE DEF g
<1>6. \A i \in DOMAIN frames : frames[i].edge # "event"
  <2> TAKE i \in DOMAIN frames
  <2>1. Fits(frames[i], Len(frames) - i, Bottom(frames), View)
    BY DEF LifeInv, Stacked
  <2> QED BY <2>1, <1>1, ViewIs DEF Fits
<1>7. \A u : ~On(frames, "event", u) /\ \A k : ~Awaits(frames, k, "event", u)
  BY <1>6 DEF On, Awaits
<1>8. /\ frames' \in Seq(Frames) /\ frames' # <<>>
      /\ Bottom(frames') = IF frames = <<>> THEN g ELSE Bottom(frames)
      /\ \A k, edge, u : Awaits(frames', k, edge, u)
            <=> Awaits(frames, k, edge, u) \/ (edge = "event" /\ u = t /\ 1 <= k)
      /\ \A edge, u : On(frames', edge, u)
            <=> On(frames, edge, u) \/ (edge = "event" /\ u = t)
  <2>1. frames' = <<g>> \o frames /\ ~On(frames, g.edge, g.tx)
    BY <1>1, <1>3, <1>7
  <2> QED BY <2>1, <1>2, <1>3, Pushes
<1>9. Stacked(frames, View)'
  <2>1. ASSUME NEW i \in DOMAIN frames
        PROVE  Fits(frames[i], Len(frames) - i, Bottom(frames), View')
    <3>1. Fits(frames[i], Len(frames) - i, Bottom(frames), View)
      BY DEF LifeInv, Stacked
    <3> QED BY <3>1, <1>1, <1>5, <1>6, ViewIs DEF Fits
  <2>2. Stacked(frames, View')
    BY <2>1, <1>2 DEF Stacked
  <2>3. sessionLog'[t] = sessionLog[t] + 1
    BY <1>1, <1>2
  <2>4. \A d, b : Fits(g, d, b, View')
    BY <2>3, <1>3, <1>5, ViewIs DEF Fits
  <2>5. ~On(frames, g.edge, g.tx)
    BY <1>3, <1>7
  <2>6. Stacked(<<g>> \o frames, View')
    BY <2>2, <2>4, <2>5, <1>2, <1>3, PushFits
  <2> QED BY <2>6, <1>1
<1>10. Registered' /\ Transacted' /\ tx' \in [Ids -> Transactions]
  <2>1. \A u \in Ids : On(frames', "leave", u) <=> On(frames, "leave", u)
    BY <1>8
  <2>2. \A u \in Agents : tx[u].stage = "publishing" =>
           frames' # <<>> /\ Bottom(frames').tx = u
             /\ Bottom(frames').edge \in {"+session", "+agent"}
    BY <1>8, PublishingIs
  <2> QED BY <2>1, <2>2, <1>1, <1>5, EndsKeeps
<1>11. Awaited'
  BY <1>1, <1>5 DEF Awaited
<1>12. Heard'
  <2>1. ASSUME NEW u \in Ids, NEW k \in 1..Listeners
        PROVE  HeardBy(k, u)'
    <3>1. HeardBy(k, u) /\ seen' = seen /\ 1 <= k
      BY <1>1, Assumed DEF LifeInv, Heard
    <3>2. \A e : Was(e, u)' <=> Was(e, u)
      BY <3>1 DEF Was
    <3>3. /\ Awaits(frames', k, "event", u) <=> u = t
          /\ Awaits(frames', k, "+session", u) <=> Awaits(frames, k, "+session", u)
          /\ Awaits(frames', k, "+agent", u) <=> Awaits(frames, k, "+agent", u)
          /\ Awaits(frames', k, "-agent", u) <=> Awaits(frames, k, "-agent", u)
          /\ Awaits(frames', k, "-session", u) <=> Awaits(frames, k, "-session", u)
      <4>1. Awaits(frames', k, "event", u) <=> Awaits(frames, k, "event", u) \/ u = t
        BY <3>1, <1>8
      <4>2. ~Awaits(frames, k, "event", u)
        BY <1>7
      <4>3. \A e : e # "event" => (Awaits(frames', k, e, u) <=> Awaits(frames, k, e, u))
        BY <1>8
      <4> QED BY <4>1, <4>2, <4>3
    <3>4. seen[k][u]["event"] + One(Awaits(frames', k, "event", u)) = sessionLog'[u]
      <4>1. seen[k][u]["event"] + 0 = sessionLog[u]
        BY <3>1, <1>7 DEF HeardBy, One
      <4>2. seen[k][u]["event"] \in Nat
        <5>1. seen \in [1..Listeners -> [Ids -> [Edges -> Nat]]]
          BY Typed
        <5>2. "event" \in Edges
          BY DEF Edges, Publication!Edges
        <5> QED BY <5>1, <5>2
      <4>3. seen[k][u]["event"] = sessionLog[u]
        BY <4>1, <4>2
      <4>4. CASE u = t
        <5>1. One(Awaits(frames', k, "event", u)) = 1 /\ sessionLog'[u] = sessionLog[u] + 1
          BY <4>4, <3>3, <1>1, <1>2 DEF One
        <5> QED BY <5>1, <4>3
      <4>5. CASE u # t
        <5>1. One(Awaits(frames', k, "event", u)) = 0 /\ sessionLog'[u] = sessionLog[u]
          BY <4>5, <3>3, <1>1, <1>2 DEF One
        <5> QED BY <5>1, <4>1
      <4> QED BY <4>4, <4>5
    <3>5. reg'.session.tx = reg.session.tx /\ reg'.agent = reg.agent
      BY <1>5
    <3> QED BY <3>1, <3>2, <3>3, <3>4, <3>5 DEF HeardBy, One
  <2>2. ASSUME NEW u \in Ids
        PROVE  /\ reg'.session.tx = u /\ ~Awaits(frames', 1, "+session", u) => Was("+session", u)'
               /\ reg'.agent.tx = u /\ reg'.agent.announced /\ ~Awaits(frames', 1, "+agent", u) =>
                    Was("+agent", u)'
    <3>1. /\ Awaits(frames', 1, "+session", u) <=> Awaits(frames, 1, "+session", u)
          /\ Awaits(frames', 1, "+agent", u) <=> Awaits(frames, 1, "+agent", u)
      BY <1>8
    <3>2. \A e : Was(e, u)' <=> Was(e, u)
      BY <1>1 DEF Was
    <3> QED BY <3>1, <3>2, <1>5 DEF LifeInv, Heard
  <2> QED BY <2>1, <2>2 DEF Heard
<1>13. LifeTypes'
  <2>1. sessionLog' \in [Ids -> Nat]
    <3>1. sessionLog[t] + 1 \in Nat
      BY <1>2
    <3> QED BY <3>1, <1>1, <1>2
  <2> QED BY <2>1, <1>1, <1>5, <1>8, <1>10 DEF LifeInv, LifeTypes
<1> QED BY <1>9, <1>10, <1>11, <1>12, <1>13 DEF LifeInv

(* The next listener sees what the innermost frame dispatches.             *)
LEMMA DeliverKeeps ==
  ASSUME LifeInv, Publication!Deliver
  PROVE  LifeInv'
<1> DEFINE t == frames[1].tx
           edge == frames[1].edge
           to == frames[1].to
<1>1. /\ frames # <<>> /\ edge # "leave" /\ to <= Listeners
      /\ seen' = [seen EXCEPT ![to][t][edge] = seen[to][t][edge] + 1]
      /\ waiter' = IF waiter = "waiting" /\ edge \in {"-session", "-agent"}
                        /\ reg.session.tx = Nobody /\ reg.agent.tx = Nobody
                   THEN "released" ELSE waiter
      /\ frames' = [frames EXCEPT ![1].to = to + 1]
      /\ UNCHANGED <<reg, tx, sessionLog, factory>>
  BY DEF Publication!Deliver, Publication!Idle, Publication!Top, Publication!Drains,
     Publication!Free, Nobody
<1>2. /\ frames \in Seq(Frames) /\ Distinct(frames) /\ frames[1] \in Frames
      /\ 1 \in DOMAIN frames /\ 1 \in 1..Listeners
      /\ seen \in [1..Listeners -> [Ids -> [Edges -> Nat]]]
      /\ \A i \in DOMAIN frames : frames[i] \in Frames
      /\ Fits(frames[1], Len(frames) - 1, Bottom(frames), View)
  BY <1>1, Typed, TopFits
<1>3. t \in Ids /\ edge \in Edges /\ to \in 1..Listeners
  <2>1. t \in Ids /\ edge \in Edges \cup {"leave"} /\ to \in 1..(Listeners + 1)
    BY <1>2 DEF Frames
  <2> QED BY <2>1, <1>1, Assumed
<1>4. /\ seen' \in [1..Listeners -> [Ids -> [Edges -> Nat]]]
      /\ \A k \in 1..Listeners, u \in Ids, e \in Edges :
           seen'[k][u][e] = IF k = to /\ u = t /\ e = edge THEN seen[k][u][e] + 1 ELSE seen[k][u][e]
  <2> DEFINE row == [seen[to][t] EXCEPT ![edge] = seen[to][t][edge] + 1]
             table == [seen[to] EXCEPT ![t] = row]
  <2>1. /\ seen[to] \in [Ids -> [Edges -> Nat]] /\ seen[to][t] \in [Edges -> Nat]
        /\ seen[to][t][edge] \in Nat
    BY <1>2, <1>3
  <2>2. row \in [Edges -> Nat] /\ \A e \in Edges :
          row[e] = IF e = edge THEN seen[to][t][e] + 1 ELSE seen[to][t][e]
    BY <1>3, <2>1
  <2>3. seen' = [seen EXCEPT ![to] = table]
    BY <1>1
  <2> HIDE DEF row
  <2>4. table \in [Ids -> [Edges -> Nat]]
        /\ \A u \in Ids : table[u] = IF u = t THEN row ELSE seen[to][u]
    BY <1>3, <2>1, <2>2
  <2> HIDE DEF table
  <2>5. seen' \in [1..Listeners -> [Ids -> [Edges -> Nat]]]
        /\ \A k \in 1..Listeners : seen'[k] = IF k = to THEN table ELSE seen[k]
    BY <1>2, <1>3, <2>3, <2>4
  <2> QED BY <2>2, <2>4, <2>5
<1>5. /\ frames' \in Seq(Frames) /\ Distinct(frames') /\ frames' # <<>>
      /\ Len(frames') = Len(frames)
      /\ DOMAIN frames' = DOMAIN frames
      /\ Bottom(frames').edge = Bottom(frames).edge /\ Bottom(frames').tx = Bottom(frames).tx
      /\ \A i \in DOMAIN frames : /\ frames'[i].edge = frames[i].edge
                                  /\ frames'[i].tx = frames[i].tx /\ frames'[i].seq = frames[i].seq
      /\ \A e, u : \A k \in 1..Listeners : Awaits(frames', k, e, u)
              <=> Awaits(frames, k, e, u) /\ ~(edge = e /\ t = u /\ to = k)
      /\ \A e, u : On(frames', e, u) <=> On(frames, e, u)
  <2> DEFINE r == [frames EXCEPT ![1].to = frames[1].to + 1]
  <2>1. /\ r \in Seq(Frames) /\ Distinct(r) /\ r # <<>> /\ Len(r) = Len(frames)
        /\ DOMAIN r = DOMAIN frames
        /\ Bottom(r).edge = Bottom(frames).edge /\ Bottom(r).tx = Bottom(frames).tx
        /\ \A i \in DOMAIN frames : /\ r[i].edge = frames[i].edge
                                    /\ r[i].tx = frames[i].tx /\ r[i].seq = frames[i].seq
        /\ \A e, u : \A k \in 1..Listeners : Awaits(r, k, e, u)
              <=> Awaits(frames, k, e, u)
                    /\ ~(frames[1].edge = e /\ frames[1].tx = u /\ frames[1].to = k)
        /\ \A e, u : On(r, e, u) <=> On(frames, e, u)
    <3>1. frames \in Seq(Frames) /\ frames # <<>> /\ Distinct(frames) /\ frames[1].to <= Listeners
      BY <1>1, <1>2
    <3> HIDE DEF t, edge, to
    <3> QED BY <3>1, Steps
  <2>2. frames' = r
    BY <1>1
  <2> HIDE DEF r
  <2> QED BY <2>1, <2>2
<1>6. Awaits(frames, to, edge, t)
  <2>1. to <= to
    BY <1>3
  <2> QED BY <2>1, <1>2 DEF Awaits
<1>7. /\ edge \in {"+session", "event"} => reg.session.tx = t
      /\ edge = "+agent" => reg.agent.tx = t
      /\ edge = "-session" => seen[1][t]["+session"] # 0
      /\ edge = "-agent" => reg.session.tx = t
  BY <1>2, ViewIs DEF Fits
<1>8. {"+session", "+agent", "event", "-agent", "-session"} = Edges
  BY DEF Edges, Publication!Edges
<1> HIDE DEF t, edge, to
<1>9. Stacked(frames, View)'
  <2> SUFFICES ASSUME NEW i \in DOMAIN frames
               PROVE  Fits(frames'[i], Len(frames') - i, Bottom(frames'), View')
    BY <1>5 DEF Stacked
  <2>1. Fits(frames[i], Len(frames) - i, Bottom(frames), View) /\ frames[i].tx \in Ids
    BY <1>2 DEF LifeInv, Stacked, Frames
  <2>2. \A u \in Ids : seen[1][u]["+session"] # 0 => seen'[1][u]["+session"] # 0
    <3> TAKE u \in Ids
    <3>1. "+session" \in Edges /\ 1 \in 1..Listeners
      BY <1>2, <1>8
    <3>2. seen[1][u]["+session"] \in Nat
      BY <3>1, <1>2
    <3>3. \/ seen'[1][u]["+session"] = seen[1][u]["+session"]
          \/ seen'[1][u]["+session"] = seen[1][u]["+session"] + 1
      BY <3>1, <1>4
    <3> QED BY <3>2, <3>3
  <2>3. ASSUME NEW f, NEW g, NEW d, NEW b, NEW c, Fits(f, d, b, View), f.tx \in Ids,
               g.edge = f.edge, g.tx = f.tx, g.seq = f.seq, c.edge = b.edge, c.tx = b.tx
        PROVE  Fits(g, d, c, View')
    BY <2>2, <2>3, <1>1, ViewIs DEF Fits
  <2>4. Len(frames') - i = Len(frames) - i
    BY <1>5
  <2> QED BY <2>1, <2>3, <2>4, <1>5
<1>10. Registered'
  BY <1>1 DEF LifeInv, Registered
<1>11. Transacted'
  <2>1. tx[t].stage \notin Early
    <3>1. edge = "+agent" => reg.session.tx = t
      BY <1>7, <1>3, Assumed DEF LifeInv, Registered
    <3> QED BY <3>1, <1>2, <1>3, <1>7, <1>8 DEF LifeInv, Transacted
  <2>2. ASSUME NEW u \in Ids, tx[u].stage \in Early
        PROVE  reg.session.tx # u /\ \A k \in 1..Listeners, e \in Edges : seen'[k][u][e] = 0
    BY <2>1, <2>2, <1>4 DEF LifeInv, Transacted
  <2> QED BY <2>2, <1>1, <1>5 DEF LifeInv, Transacted
<1>12. Awaited'
  BY <1>1 DEF LifeInv, Awaited, edge
<1>13. Heard'
  <2>1. ASSUME NEW u \in Ids, NEW k \in 1..Listeners
        PROVE  HeardBy(k, u)'
    <3>1. HeardBy(k, u)
      BY DEF LifeInv, Heard
    <3>2. \A e \in Edges : seen[k][u][e] \in Nat /\ seen[1][u][e] \in Nat
      BY <1>2
    <3>3. CASE ~(k = to /\ u = t)
      <4>1. \A e \in Edges : seen'[k][u][e] = seen[k][u][e]
        BY <3>3, <1>4
      <4>2. \A e : Awaits(frames', k, e, u) <=> Awaits(frames, k, e, u)
        BY <3>3, <1>5
      <4>3. /\ One(Was("+session", u)' /\ reg.session.tx # u)
                 = One(Was("+session", u) /\ reg.session.tx # u)
            /\ One(Was("+agent", u)' /\ reg.agent.tx # u)
                 = One(Was("+agent", u) /\ reg.agent.tx # u)
        <5>1. \A e \in Edges : u # t \/ e # edge => seen'[1][u][e] = seen[1][u][e]
          BY <1>2, <1>4
        <5> QED BY <5>1, <1>7, <1>8, <3>2, <1>2, <1>4 DEF One, Was
      <4> QED BY <4>1, <4>2, <4>3, <3>1, <1>1, <1>8 DEF HeardBy, One
    <3>4. CASE k = to /\ u = t
      <4>1. \A e \in Edges :
              seen'[k][u][e] = IF e = edge THEN seen[k][u][e] + 1 ELSE seen[k][u][e]
        BY <3>4, <1>4
      <4>2. \A e : /\ e # edge => (Awaits(frames', k, e, u) <=> Awaits(frames, k, e, u))
                   /\ e = edge => Awaits(frames, k, e, u) /\ ~Awaits(frames', k, e, u)
        BY <3>4, <1>5, <1>6
      <4>3. /\ One(Was("+session", u)' /\ reg.session.tx # u)
                 = One(Was("+session", u) /\ reg.session.tx # u)
            /\ One(Was("+agent", u)' /\ reg.agent.tx # u)
                 = One(Was("+agent", u) /\ reg.agent.tx # u)
        <5>1. \A e \in Edges : u # t \/ e # edge => seen'[1][u][e] = seen[1][u][e]
          BY <1>2, <1>4
        <5> QED BY <5>1, <1>7, <1>8, <3>2, <3>4, <1>2, <1>4 DEF One, Was
      <4>4. \A e \in {"event", "-session", "-agent"} :
              seen'[k][u][e] + One(Awaits(frames', k, e, u))
                = seen[k][u][e] + One(Awaits(frames, k, e, u))
        <5> TAKE e \in {"event", "-session", "-agent"}
        <5>1. CASE e = edge
          BY <5>1, <4>1, <4>2, <3>2, <1>8 DEF One
        <5>2. CASE e # edge
          BY <5>2, <4>1, <4>2, <1>8 DEF One
        <5> QED BY <5>1, <5>2
      <4>5. \A e \in {"+session", "+agent"} : seen'[k][u][e] <= 1
        BY <4>1, <4>2, <3>1, <3>2, <1>8 DEF HeardBy
      <4>6. \A e \in {"+session", "+agent"} : Awaits(frames', k, e, u) => seen'[k][u][e] = 0
        BY <4>1, <4>2, <3>1, <1>8 DEF HeardBy
      <4>7. reg.agent.tx = u /\ ~reg.agent.announced => seen'[k][u]["+agent"] = 0
        <5>1. edge = "+agent" => reg.agent.announced
          BY <1>2, ViewIs DEF Fits, edge
        <5> QED BY <5>1, <4>1, <3>1, <1>8 DEF HeardBy
      <4> QED BY <4>3, <4>4, <4>5, <4>6, <4>7, <3>1, <1>1 DEF HeardBy
    <3> QED BY <3>3, <3>4
  <2>2. ASSUME NEW u \in Ids, NEW e \in {"+session", "+agent"}, ~Awaits(frames', 1, e, u),
               ~Awaits(frames, 1, e, u) => Was(e, u)
        PROVE  Was(e, u)'
    <3>1. seen[1][u][e] \in Nat /\ e \in Edges
      BY <1>2, <1>8
    <3>2. CASE Awaits(frames, 1, e, u)
      <4>1. edge = e /\ t = u /\ to = 1
        BY <2>2, <3>2, <1>2, <1>5
      <4> QED BY <4>1, <3>1, <1>2, <1>4 DEF Was
    <3>3. CASE ~Awaits(frames, 1, e, u)
      BY <2>2, <3>3, <3>1, <1>2, <1>4 DEF Was
    <3> QED BY <3>2, <3>3
  <2>3. ASSUME NEW u \in Ids
        PROVE  /\ reg'.session.tx = u /\ ~Awaits(frames', 1, "+session", u) => Was("+session", u)'
               /\ reg'.agent.tx = u /\ reg'.agent.announced /\ ~Awaits(frames', 1, "+agent", u) =>
                    Was("+agent", u)'
    BY <2>2, <1>1 DEF LifeInv, Heard
  <2> QED BY <2>1, <2>3 DEF Heard
<1>14. LifeTypes'
  BY <1>1, <1>4, <1>5 DEF LifeInv, LifeTypes
<1> QED BY <1>9, <1>10, <1>11, <1>12, <1>13, <1>14 DEF LifeInv

(* While a Session without an agent is entered, only its own dispatches,   *)
(* disposals and a teardown that has left are in progress.                 *)
LEMMA PlainStack ==
  ASSUME LifeInv, reg.session.tx \in Plains
  PROVE  /\ reg.agent.tx = Nobody
         /\ \A i \in DOMAIN frames :
              \/ frames[i].edge \in {"-session", "leave"}
              \/ /\ frames[i].edge = "+session" /\ frames[i].tx = reg.session.tx
                 /\ reg.session.announcing
              \/ /\ frames[i].edge = "event" /\ frames[i].tx = reg.session.tx
                 /\ reg.session.appending
<1>1. /\ Agents \cap Plains = {} /\ Nobody \notin Ids /\ Plains \subseteq Ids
      /\ Len(frames) \in Nat /\ frames \in Seq(Frames)
  BY Typed
<1>2. reg.agent.tx = Nobody
  BY <1>1 DEF LifeInv, Registered
<1>3. ASSUME NEW i \in DOMAIN frames
      PROVE  \/ frames[i].edge \in {"-session", "leave"}
             \/ /\ frames[i].edge = "+session" /\ frames[i].tx = reg.session.tx
                /\ reg.session.announcing
             \/ /\ frames[i].edge = "event" /\ frames[i].tx = reg.session.tx
                /\ reg.session.appending
  <2>1. /\ frames[i] \in Frames /\ Fits(frames[i], Len(frames) - i, Bottom(frames), View)
        /\ i \in Nat /\ Len(frames) \in DOMAIN frames
    <3>1. DOMAIN frames = 1..Len(frames)
      BY <1>1, LenProperties
    <3> QED BY <3>1, <1>1, Typed DEF LifeInv, Stacked
  <2>2. frames[i].edge # "+agent"
    BY <2>1, <1>1, <1>2, ViewIs DEF Fits, Frames
  <2>3. frames[i].edge # "-agent"
    <3> SUFFICES ASSUME frames[i].edge = "-agent" PROVE FALSE
      OBVIOUS
    <3>1. reg.session.tx = frames[i].tx /\ Bottom(frames).edge = "leave"
          /\ Bottom(frames).tx = frames[i].tx
      BY <2>1, ViewIs DEF Fits
    <3>2. Fits(Bottom(frames), Len(frames) - Len(frames), Bottom(frames), View)
      BY <2>1 DEF LifeInv, Stacked, Bottom
    <3>3. Bottom(frames).tx \in Agents
      BY <3>1, <3>2 DEF Fits
    <3> QED BY <3>1, <3>3, <1>1
  <2> QED BY <2>1, <2>2, <2>3, ViewIs DEF Fits, Frames, Edges, Publication!Edges
<1> QED BY <1>2, <1>3

(* A plain Session leaves from above rest, when nothing is about it.       *)
LEMMA PlainLeaves ==
  ASSUME LifeInv, NEW t \in Plains, reg.session.tx = t,
         NEW rest, rest = frames \/ (frames # <<>> /\ rest = Tail(frames)),
         rest = frames => ~reg.session.announcing /\ ~reg.session.appending,
         rest # frames =>
           /\ frames[1].edge \in {"+session", "event"}
           /\ frames[1].edge = "+session" => ~reg.session.appending /\ frames[1].to > 1
           /\ frames[1].edge = "event" => ~reg.session.announcing /\ frames[1].to > Listeners,
         Publication!DetachNow(rest),
         tx' = [tx EXCEPT ![t].stage = "ended"],
         UNCHANGED <<sessionLog, seen, factory, waiter>>
  PROVE  LifeInv'
<1>1. /\ Nobody \notin Ids /\ Agents \cap Plains = {}
      /\ Agents \subseteq Ids /\ Plains \subseteq Ids
      /\ tx \in [Ids -> Transactions] /\ t \in Ids /\ t # Nobody
      /\ frames \in Seq(Frames) /\ Distinct(frames) /\ 1 \in 1..Listeners
      /\ \A i \in DOMAIN frames : frames[i] \in Frames
  BY Typed
<1>2. /\ reg.agent.tx = Nobody
      /\ \A i \in DOMAIN frames :
              \/ frames[i].edge \in {"-session", "leave"}
              \/ /\ frames[i].edge = "+session" /\ frames[i].tx = t
                 /\ reg.session.announcing
              \/ /\ frames[i].edge = "event" /\ frames[i].tx = t
                 /\ reg.session.appending
  BY PlainStack
<1>3. /\ reg' = [reg EXCEPT !.session = Publication!NoEntry]
      /\ frames' = <<Publication!Frame("-session", t)>> \o rest
  BY <1>1 DEF Publication!DetachNow, Publication!Disposal, LifeInv, Registered
<1>4. /\ tx' \in [Ids -> Transactions] /\ tx'[t].stage = "ended" /\ tx'[t].disp = "none"
      /\ \A u \in Ids : u # t => tx'[u] = tx[u]
  <2>1. tx[t] \in Transactions /\ tx[t].disp = "none"
    BY <1>1 DEF LifeInv, Transacted
  <2> DEFINE b == [tx[t] EXCEPT !.stage = "ended"]
  <2>2. b \in Transactions /\ b.stage = "ended" /\ b.disp = "none"
    BY <2>1 DEF Transactions
  <2>3. tx' = [tx EXCEPT ![t] = b]
    OBVIOUS
  <2> HIDE DEF b
  <2> QED BY <2>2, <2>3, <1>1
<1>5. /\ rest \in Seq(Frames) /\ Stacked(rest, View)
      /\ \A e, u : On(rest, e, u) => e \in {"-session", "leave"}
      /\ \A k \in 1..Listeners, u \in Ids :
           /\ ~Awaits(frames, k, "event", u)
           /\ \A e \in {"-session", "-agent"} : Awaits(rest, k, e, u) <=> Awaits(frames, k, e, u)
      /\ ~Awaits(frames, 1, "+session", t)
      /\ \A u \in Ids : On(rest, "leave", u) <=> On(frames, "leave", u)
  <2>1. CASE rest = frames
    <3>1. \A i \in DOMAIN frames : frames[i].edge \in {"-session", "leave"}
      BY <2>1, <1>2
    <3>2. /\ \A e, u : On(frames, e, u) => e \in {"-session", "leave"}
          /\ \A k, u : ~Awaits(frames, k, "event", u) /\ ~Awaits(frames, k, "+session", u)
      BY <3>1 DEF On, Awaits
    <3>3. Stacked(frames, View)
      BY DEF LifeInv
    <3> QED BY <2>1, <3>2, <3>3, <1>1
  <2>2. CASE rest # frames
    <3>1. /\ frames # <<>> /\ rest = Tail(frames) /\ 1 \in DOMAIN frames
          /\ frames[1].edge \in {"+session", "event"}
      BY <2>2, Typed
    <3>2. /\ rest \in Seq(Frames)
          /\ \A k, e, u : Awaits(rest, k, e, u)
              <=> Awaits(frames, k, e, u) /\ ~(frames[1].edge = e /\ frames[1].tx = u)
          /\ \A e, u : On(rest, e, u)
              <=> On(frames, e, u) /\ ~(frames[1].edge = e /\ frames[1].tx = u)
      BY <3>1, <1>1, Pops
    <3>3. Stacked(rest, View)
      <4>1. \A i \in DOMAIN frames : Fits(frames[i], Len(frames) - i, Bottom(frames), View)
        BY DEF LifeInv, Stacked
      <4> QED BY <3>1, <4>1, <1>1, PopFits
    <3>4. \A i \in DOMAIN frames : i # 1 => frames[i].edge \in {"-session", "leave"}
      <4> TAKE i \in DOMAIN frames
      <4> HAVE i # 1
      <4>1. frames[1].tx = t
        BY <3>1, <1>2
      <4>2. ~(frames[i].edge = frames[1].edge /\ frames[i].tx = t)
        BY <3>1, <4>1, <1>1 DEF Distinct
      <4> QED BY <2>2, <3>1, <4>2, <1>2
    <3>5. \A e, u : On(frames, e, u) =>
             e \in {"-session", "leave"} \/ (frames[1].edge = e /\ frames[1].tx = u)
      BY <3>1, <3>4 DEF On
    <3>6. \A k, u : /\ Awaits(frames, k, "event", u) =>
                         frames[1].edge = "event" /\ frames[1].to <= k
                    /\ Awaits(frames, k, "+session", u) =>
                         frames[1].edge = "+session" /\ frames[1].to <= k
      BY <3>1, <3>4 DEF Awaits
    <3>7. frames[1].to \in Int /\ Listeners \in Int
      BY <3>1, <1>1, Assumed DEF Frames
    <3>8. \A k \in 1..Listeners, u \in Ids : ~Awaits(frames, k, "event", u)
      BY <2>2, <3>6, <3>7
    <3>9. ~Awaits(frames, 1, "+session", t)
      BY <2>2, <3>6, <3>7
    <3>10. \A e, u : On(rest, e, u) => e \in {"-session", "leave"}
      BY <3>2, <3>5
    <3>11. \A k \in 1..Listeners, u \in Ids : \A e \in {"-session", "-agent"} :
             Awaits(rest, k, e, u) <=> Awaits(frames, k, e, u)
      BY <3>1, <3>2
    <3>12. \A u \in Ids : On(rest, "leave", u) <=> On(frames, "leave", u)
      BY <3>1, <3>2
    <3> QED BY <3>2, <3>3, <3>8, <3>9, <3>10, <3>11, <3>12
  <2> QED BY <2>1, <2>2
<1>6. \A u \in Ids : /\ tx'[u].stage = tx[u].stage
                             \/ (u = t /\ u \in Plains /\ tx'[u].stage = "ended")
                     /\ tx'[u].disp = tx[u].disp
  <2>1. tx[t].disp = "none"
    BY DEF LifeInv, Transacted
  <2> QED BY <2>1, <1>4
<1>7. \A u \in Ids : /\ tx'[u].stage = tx[u].stage
                             \/ (u = t /\ u \in Plains /\ tx'[u].stage = "ended")
                     /\ tx'[u].disp = tx[u].disp
                             \/ (u = t /\ tx'[u].disp = "done" /\ ~On(rest, "leave", u))
  BY <1>6
<1>8. /\ t \in Agents => tx'[t].disp = "done"
      /\ t \in Plains => tx'[t].stage = "ended" /\ tx'[t].disp = "none"
  BY <1>1, <1>4
<1>9. \A u \in Ids : u # t => (On(rest, "leave", u) <=> On(frames, "leave", u))
  BY <1>5
<1>10. /\ rest \in Seq(Frames) /\ Stacked(rest, View) /\ t \in Ids
       /\ \A e, u : On(rest, e, u) => e \in {"-session", "leave"}
  BY <1>1, <1>5
<1>11. \A k \in 1..Listeners, u \in Ids :
           /\ ~Awaits(frames, k, "event", u)
           /\ \A e \in {"-session", "-agent"} : Awaits(rest, k, e, u) <=> Awaits(frames, k, e, u)
  BY <1>5
<1>12. ~Awaits(frames, 1, "+session", t) /\ reg.agent.tx = Nobody /\ tx' \in [Ids -> Transactions]
  BY <1>2, <1>4, <1>5
<1> QED BY <1>3, <1>7, <1>8, <1>9, <1>10, <1>11, <1>12, DetachKeeps

(* A dispatch of the Session's entry returns, and may let it leave.        *)
LEMMA SettleSessionKeeps ==
  ASSUME LifeInv, frames # <<>>, frames[1].edge \in {"+session", "event"},
         frames[1].to > Listeners \/ (frames[1].edge = "+session" /\ frames[1].to > 1),
         frames[1].edge = "+session" => frames[1].tx \in Plains,
         NEW e \in Entries, e.tx = reg.session.tx,
         reg.session.announced => e.announced,
         frames[1].edge # "+session" => e.announcing = reg.session.announcing,
         frames[1].edge # "event" => e.appending = reg.session.appending,
         Publication!SettleSession(e, Tail(frames)),
         \/ tx' = tx /\ e.leaving = reg.session.leaving
         \/ frames[1].edge = "+session" /\ tx' = [tx EXCEPT ![frames[1].tx].stage = "ended"],
         UNCHANGED <<sessionLog, seen, factory, waiter>>
  PROVE  LifeInv'
<1> DEFINE t == reg.session.tx
<1>1. /\ Nobody \notin Ids /\ Agents \cap Plains = {} /\ Plains \subseteq Ids
      /\ reg \in [session : Entries, agent : Entries] /\ frames[1] \in Frames
      /\ tx \in [Ids -> Transactions] /\ frames[1].to \in Int /\ Listeners \in Nat \ {0}
  BY Typed, Assumed DEF Frames
<1>2. frames[1].tx = t
  BY TopFits, ViewIs DEF Fits
<1>3. e.leaving => t \in Plains /\ tx' = [tx EXCEPT ![t].stage = "ended"]
  <2>1. CASE tx' = tx /\ e.leaving = reg.session.leaving
    <3> SUFFICES ASSUME reg.session.leaving
                 PROVE  t \in Plains /\ tx' = [tx EXCEPT ![t].stage = "ended"]
      BY <2>1
    <3>1. t \in Plains
      BY DEF LifeInv, Registered
    <3>2. tx[t].stage = "ended" /\ tx[t] \in Transactions
      BY <3>1, <1>1 DEF LifeInv, Transacted, Early
    <3>3. [tx[t] EXCEPT !.stage = "ended"] = tx[t]
      BY <3>2 DEF Transactions
    <3>4. [tx EXCEPT ![t].stage = "ended"] = [tx EXCEPT ![t] = tx[t]]
      BY <3>3
    <3>5. [tx EXCEPT ![t] = tx[t]] = tx
      BY <1>1, <3>1
    <3> QED BY <2>1, <3>1, <3>4, <3>5
  <2>2. CASE frames[1].edge = "+session" /\ tx' = [tx EXCEPT ![frames[1].tx].stage = "ended"]
    BY <2>2, <1>2
  <2> QED BY <2>1, <2>2
<1>4. CASE e.leaving /\ ~e.announcing /\ ~e.appending
  <2>1. Publication!DetachNow(Tail(frames))
    BY <1>4 DEF Publication!SettleSession, Publication!MayLeave
  <2>2. Tail(frames) # frames
    <3>1. frames \in Seq(Frames) /\ Distinct(frames) /\ Len(frames) \in Nat
      BY Typed
    <3>2. Len(Tail(frames)) = Len(frames) - 1
      BY <3>1, Pops
    <3>3. \A n \in Nat : \A m : m = n - 1 => m # n
      OBVIOUS
    <3>4. Len(Tail(frames)) # Len(frames)
      BY <3>1, <3>2, <3>3, Zenon
    <3> QED BY <3>4
  <2>3. t \in Plains /\ tx' = [tx EXCEPT ![t].stage = "ended"]
    BY <1>3, <1>4
  <2>4. /\ frames[1].edge = "+session" => ~reg.session.appending /\ frames[1].to > 1
        /\ frames[1].edge = "event" => ~reg.session.announcing /\ frames[1].to > Listeners
    BY <1>1, <1>4
  <2> QED BY <2>1, <2>2, <2>3, <2>4, PlainLeaves
<1>5. CASE ~(e.leaving /\ ~e.announcing /\ ~e.appending)
  <2>1. reg' = [reg EXCEPT !.session = e] /\ frames' = Tail(frames)
    BY <1>5 DEF Publication!SettleSession, Publication!MayLeave
  <2>2. reg' \in [session : Entries, agent : Entries] /\ reg'.session = e /\ reg'.agent = reg.agent
    BY <2>1, <1>1
  <2>3. Returned(frames[1])
    BY <2>2 DEF Returned
  <2>4. tx' = tx \/ \E u \in Plains : tx' = [tx EXCEPT ![u].stage = "ended"]
    BY <1>2
  <2>5. reg'.session.leaving =>
          reg.session.tx \in Plains /\ tx'[reg.session.tx].stage = "ended"
    <3> SUFFICES ASSUME e.leaving PROVE t \in Plains /\ tx'[t].stage = "ended"
      BY <2>2
    <3>1. t \in Plains /\ tx' = [tx EXCEPT ![t].stage = "ended"]
      BY <1>3
    <3>2. tx'[t] = [tx[t] EXCEPT !.stage = "ended"] /\ tx[t] \in Transactions
      BY <3>1, <1>1
    <3>3. tx'[t].stage = "ended"
      BY <3>2 DEF Transactions
    <3> QED BY <3>1, <3>3
  <2>6. frames[1].edge \in {"+session", "event", "-session", "-agent"}
    OBVIOUS
  <2> QED BY <2>1, <2>2, <2>3, <2>4, <2>5, <2>6, SettleKeeps
<1> QED BY <1>4, <1>5

-----------------------------------------------------------------------------
(* The steps of a dispatch and of publication, one by one.                 *)

(* What an entry becomes.                                                  *)
LEMMA Flags ==
  ASSUME NEW e \in Entries
  PROVE  /\ LET a == Publication!Announced(e) IN
              /\ a \in Entries /\ a.tx = e.tx /\ a.announced /\ ~a.announcing
              /\ a.appending = e.appending /\ a.leaving = e.leaving
         /\ LET a == Publication!Announcing(e) IN
              /\ a \in Entries /\ a.tx = e.tx /\ a.announced /\ a.announcing
              /\ a.appending = e.appending /\ a.leaving = e.leaving
         /\ LET a == [e EXCEPT !.announcing = FALSE, !.leaving = TRUE] IN
              /\ a \in Entries /\ a.tx = e.tx /\ a.announced = e.announced
              /\ a.appending = e.appending
         /\ LET a == [e EXCEPT !.announcing = FALSE] IN
              /\ a \in Entries /\ a.tx = e.tx /\ a.announced = e.announced
              /\ a.appending = e.appending /\ a.leaving = e.leaving
         /\ LET a == [e EXCEPT !.appending = FALSE] IN
              /\ a \in Entries /\ a.tx = e.tx /\ a.announced = e.announced
              /\ a.announcing = e.announcing /\ a.leaving = e.leaving
         /\ LET a == [e EXCEPT !.leaving = TRUE] IN
              /\ a \in Entries /\ a.tx = e.tx /\ a.announced = e.announced
              /\ a.announcing = e.announcing /\ a.appending = e.appending
BY DEF Publication!Announced, Publication!Announcing, Entries

(* A creation listener throws.                                             *)
LEMMA VetoKeeps ==
  ASSUME LifeInv, Publication!Veto
  PROVE  LifeInv'
<1> DEFINE t == frames[1].tx
<1>1. /\ frames # <<>> /\ frames[1].edge \in {"+session", "+agent"} /\ frames[1].to > 1
      /\ UNCHANGED <<sessionLog, seen, factory, waiter>>
  BY DEF Publication!Veto, Publication!Vetoes, Publication!Idle, Publication!Top
<1>2. /\ reg \in [session : Entries, agent : Entries] /\ reg.session \in Entries
      /\ reg.agent \in Entries /\ frames[1] \in Frames /\ t \in Ids
      /\ Ids = Agents \cup Plains /\ Agents \cap Plains = {} /\ LifeTypes
      /\ Nobody \notin Ids
  BY <1>1, Typed DEF Frames, Ids, Agents, Publication!Txs, LifeInv
<1>3. CASE t \in Agents
  <2> DEFINE b == Publication!Unwinding(t)
             r == IF frames[1].edge = "+agent" THEN "agent" ELSE "session"
  <2>1. /\ tx' = [tx EXCEPT ![t] = b] /\ frames' = Tail(frames)
        /\ reg' = [reg EXCEPT ![r] = [reg[r] EXCEPT !.announcing = FALSE]]
    BY <1>3 DEF Publication!Veto, Publication!Top, Agents
  <2>2. b \in Transactions /\ b.stage = "unwinding" /\ (b.disp = tx[t].disp \/ b.disp = "stopping")
    BY <1>2, Becoming
  <2>3. /\ reg' \in [session : Entries, agent : Entries]
        /\ reg'.session.tx = reg.session.tx /\ reg'.agent.tx = reg.agent.tx
        /\ reg'.session.announced = reg.session.announced
        /\ reg'.session.leaving = reg.session.leaving
        /\ reg'.agent.announced = reg.agent.announced
    <3>0. r \in {"session", "agent"}
      OBVIOUS
    <3> HIDE DEF r
    <3>1. reg[r] \in Entries
      BY <1>2, <3>0
    <3> DEFINE a == [reg[r] EXCEPT !.announcing = FALSE]
    <3>2. /\ a \in Entries /\ a.tx = reg[r].tx /\ a.announced = reg[r].announced
          /\ a.leaving = reg[r].leaving
      BY <3>1, Flags
    <3>3. reg' = [reg EXCEPT ![r] = a]
      BY <2>1
    <3> HIDE DEF a
    <3>4. CASE r = "session"
      BY <3>2, <3>3, <3>4, <1>2
    <3>5. CASE r = "agent"
      BY <3>2, <3>3, <3>5, <1>2
    <3> QED BY <3>0, <3>4, <3>5
  <2> HIDE DEF b
  <2>4. t \in Agents /\ frames[1].tx = t
    BY <1>3
  <2>5. b.stage # "live"
    BY <2>2
  <2> HIDE DEF t, r
  <2> QED BY <1>1, <2>1, <2>2, <2>3, <2>4, <2>5, PublicationEnds
<1>4. CASE t \notin Agents
  <2> DEFINE e == [reg.session EXCEPT !.announcing = FALSE, !.leaving = TRUE]
  <2>1. /\ tx' = [tx EXCEPT ![t].stage = "ended"] /\ Publication!SettleSession(e, Tail(frames))
    BY <1>4 DEF Publication!Veto, Publication!Top, Agents
  <2>2. t \in Plains
    BY <1>2, <1>4
  <2>3. frames[1].edge = "+session"
    <3>1. frames[1].edge = "+agent" => t = reg.agent.tx
      BY <1>1, TopFits, ViewIs DEF Fits
    <3>2. reg.agent.tx # Nobody => reg.agent.tx \in Agents
      BY DEF LifeInv, Registered
    <3> QED BY <1>1, <1>2, <1>4, <3>1, <3>2
  <2>4. /\ e \in Entries /\ e.tx = reg.session.tx /\ e.announced = reg.session.announced
        /\ e.appending = reg.session.appending
    BY <1>2, Flags
  <2> HIDE DEF e
  <2> QED BY <1>1, <2>1, <2>2, <2>3, <2>4, SettleSessionKeeps
<1> QED BY <1>3, <1>4

(* Every creation listener has heard of the agent.                         *)
LEMMA AnnouncedAgentKeeps ==
  ASSUME LifeInv, Publication!AnnouncedAgent
  PROVE  LifeInv'
<1> DEFINE t == frames[1].tx
           b == IF Publication!AssertLiveFails(t) THEN Publication!Unwinding(t)
                ELSE [tx[t] EXCEPT !.stage = "live"]
<1>1. /\ frames # <<>> /\ frames[1].edge = "+agent" /\ frames[1].to > Listeners
      /\ frames' = Tail(frames) /\ reg' = [reg EXCEPT !.agent = Publication!Announced(reg.agent)]
      /\ tx' = [tx EXCEPT ![t] = b]
      /\ UNCHANGED <<sessionLog, seen, factory, waiter>>
  BY DEF Publication!AnnouncedAgent, Publication!Finished, Publication!Idle, Publication!Top
<1>2. /\ reg \in [session : Entries, agent : Entries] /\ reg.agent \in Entries
      /\ frames[1] \in Frames /\ t \in Ids /\ LifeTypes /\ Nobody \notin Ids
      /\ frames[1].to > 1
  <2>1. /\ reg \in [session : Entries, agent : Entries] /\ reg.agent \in Entries
        /\ frames[1] \in Frames /\ LifeTypes /\ Nobody \notin Ids
    BY <1>1, Typed DEF LifeInv
  <2>2. frames[1].to > 1
    BY <1>1, <2>1, Assumed DEF Frames
  <2> QED BY <2>1, <2>2 DEF Frames
<1>3. t = reg.agent.tx /\ reg.agent.announced
  BY <1>1, TopFits, ViewIs DEF Fits
<1>4. t \in Agents
  BY <1>2, <1>3 DEF LifeInv, Registered
<1>5. /\ b \in Transactions /\ b.stage \in {"live", "unwinding"}
      /\ b.disp = tx[t].disp \/ b.disp = "stopping"
  <2>1. /\ Publication!Unwinding(t) \in Transactions
        /\ Publication!Unwinding(t).stage = "unwinding"
        /\ \/ Publication!Unwinding(t).disp = tx[t].disp
           \/ Publication!Unwinding(t).disp = "stopping"
    BY <1>2, Becoming
  <2>2. LET c == [tx[t] EXCEPT !.stage = "live"] IN
          c \in Transactions /\ c.stage = "live" /\ c.disp = tx[t].disp
    BY <1>2, Becoming DEF Stages
  <2> QED BY <2>1, <2>2
<1>6. /\ reg' \in [session : Entries, agent : Entries]
      /\ reg'.session = reg.session /\ reg'.agent.tx = reg.agent.tx
      /\ reg'.agent.announced = reg.agent.announced
  <2>1. LET a == Publication!Announced(reg.agent) IN
          a \in Entries /\ a.tx = reg.agent.tx /\ a.announced
    BY <1>2, Flags
  <2>2. reg.agent.announced \in BOOLEAN /\ Publication!Announced(reg.agent).announced \in BOOLEAN
    BY <1>2, <2>1 DEF Entries
  <2> QED BY <2>1, <2>2, <1>1, <1>2, <1>3
<1>7. frames[1].tx = t
  OBVIOUS
<1> HIDE DEF b, t
<1> QED BY <1>1, <1>2, <1>4, <1>5, <1>6, <1>7, PublicationEnds

(* A dispatch of an event or of a disposal returns.                        *)
LEMMA ReturnKeeps ==
  ASSUME LifeInv, Publication!Appended \/ Publication!Disposed
  PROVE  LifeInv'
<1>1. /\ frames # <<>> /\ frames[1].to > Listeners
      /\ UNCHANGED <<tx, sessionLog, seen, factory, waiter>>
      /\ reg \in [session : Entries, agent : Entries] /\ reg.session \in Entries
  BY Typed DEF Publication!Appended, Publication!Disposed, Publication!Finished,
     Publication!Idle, Publication!Top
<1>2. CASE Publication!Appended
  <2> DEFINE e == [reg.session EXCEPT !.appending = FALSE]
  <2>1. frames[1].edge = "event" /\ Publication!SettleSession(e, Tail(frames))
    BY <1>2 DEF Publication!Appended, Publication!Top
  <2>2. /\ e \in Entries /\ e.tx = reg.session.tx /\ e.announced = reg.session.announced
        /\ e.announcing = reg.session.announcing /\ e.leaving = reg.session.leaving
    BY <1>1, Flags
  <2> HIDE DEF e
  <2> QED BY <1>1, <2>1, <2>2, SettleSessionKeeps
<1>3. CASE Publication!Disposed
  <2>1. /\ frames[1].edge \in {"-session", "-agent"} /\ frames' = Tail(frames) /\ reg' = reg
    BY <1>3 DEF Publication!Disposed, Publication!Top, Publication!Drains
  <2>2. Returned(frames[1])
    BY <2>1 DEF Returned
  <2>3. /\ frames[1].edge \in {"+session", "event", "-session", "-agent"}
        /\ frames[1].edge # "+session"
    BY <2>1
  <2> QED BY <1>1, <2>1, <2>2, <2>3, SettleKeeps
<1> QED BY <1>2, <1>3

(* Every creation listener has heard of the Session.                       *)
LEMMA AnnouncedSessionKeeps ==
  ASSUME LifeInv, Publication!AnnouncedSession
  PROVE  LifeInv'
<1> DEFINE t == frames[1].tx
           e == Publication!Announced(reg.session)
<1>1. /\ frames # <<>> /\ frames[1].edge = "+session" /\ frames[1].to > Listeners
      /\ UNCHANGED <<sessionLog, seen, factory, waiter>>
  BY DEF Publication!AnnouncedSession, Publication!Finished, Publication!Idle, Publication!Top
<1>2. /\ reg \in [session : Entries, agent : Entries] /\ reg.session \in Entries
      /\ reg.agent \in Entries /\ frames[1] \in Frames /\ t \in Ids /\ Nobody \notin Ids
      /\ Ids = Agents \cup Plains /\ Agents \cap Plains = {} /\ LifeTypes
      /\ frames \in Seq(Frames) /\ Distinct(frames)
  BY <1>1, Typed DEF Frames, Ids, Agents, Publication!Txs, LifeInv
<1>3. /\ e \in Entries /\ e.tx = reg.session.tx /\ e.announced
      /\ e.appending = reg.session.appending /\ e.leaving = reg.session.leaving
  BY <1>2, Flags
<1>4. t = reg.session.tx /\ (t \in Agents => /\ Len(frames) - 1 = 0 /\ t = reg.agent.tx
                                             /\ ~reg.agent.announced)
  BY <1>1, TopFits, ViewIs DEF Fits
<1>5. frames[1].to > 1
  BY <1>1, <1>2, Assumed DEF Frames
<1>6. CASE t \in Plains
  <2>1. Publication!SettleSession(e, Tail(frames)) /\ tx' = tx
    BY <1>6 DEF Publication!AnnouncedSession, Publication!Top
  <2>2. frames[1].edge = "+session" /\ frames[1].tx \in Plains
    BY <1>1, <1>6
  <2> HIDE DEF e, t
  <2> QED BY <1>1, <1>3, <2>1, <2>2, SettleSessionKeeps
<1>7. CASE t \notin Plains /\ Publication!AssertLiveFails(t)
  <2> DEFINE b == Publication!Unwinding(t)
  <2>1. tx' = [tx EXCEPT ![t] = b] /\ reg' = [reg EXCEPT !.session = e] /\ frames' = Tail(frames)
    BY <1>7 DEF Publication!AnnouncedSession, Publication!Top
  <2>2. b \in Transactions /\ b.stage = "unwinding" /\ (b.disp = tx[t].disp \/ b.disp = "stopping")
    BY <1>2, Becoming
  <2> HIDE DEF b, e
  <2>3. /\ reg' \in [session : Entries, agent : Entries] /\ reg'.agent = reg.agent
        /\ reg'.session = e
    BY <2>1, <1>2, <1>3
  <2>4. t \in Agents /\ frames[1].tx = t /\ b.stage # "live"
    BY <1>2, <1>7, <2>2
  <2> HIDE DEF t
  <2> QED BY <1>1, <1>3, <1>5, <2>1, <2>2, <2>3, <2>4, PublicationEnds
<1>8. CASE t \notin Plains /\ ~Publication!AssertLiveFails(t)
  <2> DEFINE a == Publication!Announcing(reg.agent)
             g == Publication!Frame("+agent", t)
  <2>1. /\ reg' = [session |-> e, agent |-> a] /\ frames' = <<g>> \o Tail(frames)
        /\ tx' = tx
    BY <1>8 DEF Publication!AnnouncedSession, Publication!Top
  <2>2. a \in Entries /\ a.tx = reg.agent.tx /\ a.announced
    BY <1>2, Flags
  <2>3. t \in Agents /\ t = reg.agent.tx /\ ~reg.agent.announced /\ Tail(frames) = <<>>
        /\ Bottom(frames) = frames[1]
    BY <1>1, <1>2, <1>4, <1>8, TopFits
  <2>4. g \in Frames /\ g.edge = "+agent" /\ g.tx = t /\ g.to = 1
    <3>1. 1 \in 1..(Listeners + 1)
      BY Assumed
    <3> QED BY <3>1, <1>2 DEF Publication!Frame, Frames, Edges, Publication!Edges
  <2> HIDE DEF a, g, e
  <2>5. reg' \in [session : Entries, agent : Entries] /\ reg'.session = e /\ reg'.agent = a
    BY <2>1, <2>2, <1>3
  <2>6. Distinct(<<>>) /\ Len(<<>>) = 0 /\ <<>> \in Seq(Frames)
    BY EmptySeq DEF Distinct
  <2>7. /\ frames' \in Seq(Frames) /\ frames' # <<>> /\ Bottom(frames') = g
        /\ \A k, edge, u : Awaits(frames', k, edge, u) <=> edge = "+agent" /\ u = t /\ 1 <= k
        /\ \A edge, u : On(frames', edge, u) <=> edge = "+agent" /\ u = t
    <3>1. ~On(<<>>, g.edge, g.tx)
      BY NoFrames
    <3>2. LET r == <<g>> \o <<>> IN
          /\ r \in Seq(Frames) /\ r # <<>> /\ Bottom(r) = g
          /\ \A k, edge, u : Awaits(r, k, edge, u)
               <=> Awaits(<<>>, k, edge, u) \/ (g.edge = edge /\ g.tx = u /\ g.to <= k)
          /\ \A edge, u : On(r, edge, u) <=> On(<<>>, edge, u) \/ (g.edge = edge /\ g.tx = u)
      BY <3>1, <2>4, <2>6, Pushes
    <3>3. frames' = <<g>> \o <<>>
      BY <2>1, <2>3
    <3> QED BY <3>2, <3>3, <2>4, NoFrames
  <2>8. Stacked(frames, View)'
    <3>1. \A b : Fits(g, 0, b, View')
      BY <2>2, <2>3, <2>4, <2>5, ViewIs DEF Fits
    <3>2. Stacked(<<>>, View') /\ ~On(<<>>, g.edge, g.tx)
      BY NoFrames
    <3>3. Stacked(<<g>> \o <<>>, View')
      BY <3>1, <3>2, <2>4, <2>6, PushFits
    <3> QED BY <3>3, <2>1, <2>3
  <2>9. \A edge, u : On(frames, edge, u) => edge = "+session" /\ u = t
    BY <1>1, <1>4, <2>3, LoneFrame
  <2>10. Registered' /\ Transacted'
    <3>1. \A u \in Ids : On(frames', "leave", u) <=> On(frames, "leave", u)
      BY <2>7, <2>9
    <3>2. \A u \in Agents : tx[u].stage = "publishing" =>
           frames' # <<>> /\ Bottom(frames').tx = u
             /\ Bottom(frames').edge \in {"+session", "+agent"}
      BY <2>3, <2>4, <2>7, PublishingIs
    <3> QED BY <3>1, <3>2, <2>1, <2>2, <2>5, <1>1, <1>3, EndsKeeps
  <2>11. Awaited'
    <3>1. reg'.session.tx # Nobody
      BY <1>2, <1>3, <1>4, <2>5
    <3> QED BY <3>1 DEF Awaited
  <2>12. Heard'
    <3>1. \A k \in 1..Listeners : \A edge, u : ~Awaits(frames, k, edge, u)
      <4>1. frames[1].to \in Int /\ \A k \in 1..Listeners : k \in Int /\ k <= Listeners
        BY <1>2, Assumed DEF Frames
      <4>2. \A k \in 1..Listeners : ~(frames[1].to <= k)
        BY <4>1, <1>1, Assumed
      <4> QED BY <4>2, <1>1, <1>4, <2>3, LoneFrame
    <3>2. ASSUME NEW u \in Ids, NEW k \in 1..Listeners
          PROVE  HeardBy(k, u)'
      <4>1. HeardBy(k, u) /\ seen' = seen /\ sessionLog' = sessionLog
        BY <1>1 DEF LifeInv, Heard
      <4>2. \A edge : Was(edge, u)' <=> Was(edge, u)
        BY <4>1 DEF Was
      <4>3. /\ ~Awaits(frames', k, "event", u) /\ ~Awaits(frames', k, "+session", u)
            /\ ~Awaits(frames', k, "-agent", u) /\ ~Awaits(frames', k, "-session", u)
            /\ Awaits(frames', k, "+agent", u) => u = t
        BY <2>7
      <4>4. u = t => seen[k][u]["+agent"] = 0
        BY <2>3, <4>1 DEF HeardBy
      <4>5. reg'.session.tx = reg.session.tx /\ reg'.agent.tx = reg.agent.tx /\ reg'.agent.announced
        BY <2>2, <2>5, <1>3
      <4> QED BY <4>1, <4>2, <4>3, <4>4, <4>5, <3>1 DEF HeardBy, One
    <3>3. ASSUME NEW u \in Ids
          PROVE  /\ reg'.session.tx = u => Was("+session", u)'
                 /\ reg'.agent.tx = u => Awaits(frames', 1, "+agent", u)
      <4>1. reg'.session.tx = u => Was("+session", u)
        BY <3>1, <2>5, <1>3, Typed DEF LifeInv, Heard
      <4>2. Was("+session", u)' <=> Was("+session", u)
        BY <1>1 DEF Was
      <4>3. reg'.agent.tx = t
        BY <2>2, <2>3, <2>5
      <4> QED BY <4>1, <4>2, <4>3, <2>7
    <3> QED BY <3>2, <3>3 DEF Heard
  <2>13. LifeTypes'
    BY <2>1, <2>5, <2>7, <1>1, <1>2 DEF LifeTypes
  <2> QED BY <2>8, <2>10, <2>11, <2>12, <2>13 DEF LifeInv
<1> QED BY <1>6, <1>7, <1>8

(* SessionStore.create's owner unloads.                                    *)
LEMMA PlainUnloadsKeeps ==
  ASSUME LifeInv, NEW t \in Plains, Publication!PlainUnloads(t)
  PROVE  LifeInv'
<1>1. /\ tx[t].stage = "live" /\ tx' = [tx EXCEPT ![t].stage = "ended"]
      /\ UNCHANGED <<sessionLog, seen, factory, waiter>>
  BY DEF Publication!PlainUnloads
<1>2. /\ reg.session.tx = t /\ t \in Ids /\ t # Nobody
      /\ reg \in [session : Entries, agent : Entries] /\ reg.session \in Entries
      /\ tx \in [Ids -> Transactions] /\ frames \in Seq(Frames)
  BY <1>1, Typed DEF LifeInv, Transacted
<1>3. CASE ~reg.session.announcing /\ ~reg.session.appending
  <2>1. Publication!DetachNow(frames)
    BY <1>3 DEF Publication!PlainUnloads, Publication!MayLeave
  <2> QED BY <2>1, <1>1, <1>2, <1>3, PlainLeaves
<1>4. CASE reg.session.announcing \/ reg.session.appending
  <2> DEFINE e == [reg.session EXCEPT !.leaving = TRUE]
  <2>1. reg' = [reg EXCEPT !.session = e] /\ frames' = frames
    BY <1>4 DEF Publication!PlainUnloads, Publication!MayLeave
  <2>2. /\ e \in Entries /\ e.tx = reg.session.tx /\ e.announced = reg.session.announced
        /\ e.announcing = reg.session.announcing /\ e.appending = reg.session.appending
    BY <1>2, Flags
  <2> HIDE DEF e
  <2>3. reg' \in [session : Entries, agent : Entries] /\ reg'.session = e /\ reg'.agent = reg.agent
    BY <2>1, <2>2, <1>2
  <2>4. tx[t] \in Transactions /\ tx'[t] = [tx[t] EXCEPT !.stage = "ended"]
    BY <1>1, <1>2
  <2>5. tx'[t].stage = "ended" /\ tx'[t].disp = tx[t].disp
    BY <2>4 DEF Transactions
  <2>6. Registered' /\ Transacted' /\ tx' \in [Ids -> Transactions]
    <3>1. \A u \in Agents : tx[u].stage = "publishing" =>
           frames' # <<>> /\ Bottom(frames').tx = u
             /\ Bottom(frames').edge \in {"+session", "+agent"}
      BY <2>1, PublishingIs
    <3> QED BY <3>1, <2>1, <2>2, <2>3, <2>5, <1>1, <1>2, EndsKeeps
  <2>7. Stacked(frames, View)'
    <3>1. ASSUME NEW f \in Frames, NEW d, NEW b, Fits(f, d, b, View)
          PROVE  Fits(f, d, b, View')
      <4>1. tx'[f.tx].disp = tx[f.tx].disp
        <5>1. f.tx \in Ids
          BY DEF Frames
        <5>2. f.tx # t => tx'[f.tx] = tx[f.tx]
          BY <5>1, <1>1, <1>2
        <5> QED BY <5>2, <2>5
      <4> QED BY <3>1, <4>1, <2>2, <2>3, <1>1, ViewIs DEF Fits
    <3>2. \A i \in DOMAIN frames : frames[i] \in Frames
      BY Typed
    <3>3. \A i \in DOMAIN frames : Fits(frames[i], Len(frames) - i, Bottom(frames), View')
      BY <3>1, <3>2 DEF LifeInv, Stacked
    <3>4. Distinct(frames)
      BY Typed
    <3> QED BY <3>3, <3>4, <2>1 DEF Stacked
  <2>8. Awaited'
    BY <2>2, <2>3, <1>2 DEF Awaited
  <2>9. Heard'
    <3>1. reg'.session.tx = reg.session.tx /\ reg'.agent = reg.agent
      BY <2>2, <2>3
    <3> QED BY <3>1, <2>1, <1>1 DEF LifeInv, Heard, HeardBy, Was
  <2>10. LifeTypes'
    BY <2>1, <2>3, <2>6, <1>1 DEF LifeInv, LifeTypes
  <2> QED BY <2>6, <2>7, <2>8, <2>9, <2>10 DEF LifeInv
<1> QED BY <1>3, <1>4, <1>2 DEF Entries

(* The agent leaves its registry.                                          *)
LEMMA LeaveAgentKeeps ==
  ASSUME LifeInv, NEW t \in Ids, Publication!LeaveAgent(t)
  PROVE  LifeInv'
<1> DEFINE g == Publication!Frame("leave", t)
           f == Publication!Frame("-agent", t)
<1>1. /\ frames = <<>> /\ tx[t].disp = "stopping"
      /\ UNCHANGED <<tx, sessionLog, seen, factory, waiter>>
  BY DEF Publication!LeaveAgent, Publication!Idle
<1>2. /\ reg \in [session : Entries, agent : Entries] /\ reg.agent \in Entries
      /\ Ids = Agents \cup Plains /\ Agents \cap Plains = {} /\ Nobody \notin Ids
      /\ t \in Agents /\ 1 \in 1..Listeners
      /\ tx \in [Ids -> Transactions]
  BY <1>1, Typed DEF Ids, Agents, Publication!Txs, LifeInv, Transacted
<1>3. /\ g \in Frames /\ g.edge = "leave" /\ g.tx = t
      /\ f \in Frames /\ f.edge = "-agent" /\ f.tx = t /\ f.to = 1
  <2>1. 1 \in 1..(Listeners + 1)
    BY Assumed
  <2> QED BY <2>1 DEF Publication!Frame, Frames, Edges, Publication!Edges
<1>4. LET e == Publication!NoEntry IN e \in Entries /\ e.tx = Nobody
  BY DEF Publication!NoEntry, Entries, Nobody
<1> DEFINE mine == reg.agent.tx = t
           heard == mine /\ reg.agent.announced
<1>5. /\ reg' \in [session : Entries, agent : Entries] /\ reg'.session = reg.session
      /\ IF mine THEN reg'.agent.tx = Nobody ELSE reg'.agent = reg.agent
  <2>1. reg' = IF mine THEN [reg EXCEPT !.agent = Publication!NoEntry] ELSE reg
    BY DEF Publication!LeaveAgent
  <2> QED BY <2>1, <1>2, <1>4
<1>6. frames' = IF heard THEN <<f>> \o <<g>> ELSE <<g>>
  <2>1. frames' = (IF mine THEN Publication!Disposal("-agent", reg.agent) ELSE <<>>) \o <<g>>
    BY DEF Publication!LeaveAgent
  <2>2. <<g>> \in Seq(Frames)
    BY <1>3
  <2>3. <<>> \o <<g>> = <<g>>
    BY <2>2, ConcatEmptySeq
  <2> QED BY <2>1, <2>3 DEF Publication!Disposal
<1> HIDE DEF f, g
<1>7. /\ <<g>> \in Seq(Frames) /\ <<g>> # <<>> /\ Len(<<g>>) = 1 /\ Bottom(<<g>>) = g
      /\ Distinct(<<g>>)
      /\ \A edge, u : On(<<g>>, edge, u) <=> edge = "leave" /\ u = t
      /\ \A k, edge, u : Awaits(<<g>>, k, edge, u) => edge = "leave"
      /\ \A i \in DOMAIN <<g>> : i = 1
  <2>1. /\ <<g>> \in Seq(Frames) /\ Len(<<g>>) = 1 /\ <<g>>[1] = g
        /\ DOMAIN <<g>> = 1..1 /\ <<g>> # <<>>
    BY <1>3, EmptySeq
  <2>2. DOMAIN <<g>> = {1}
    BY <2>1
  <2> QED BY <2>1, <2>2, <1>3 DEF Bottom, Distinct, On, Awaits
<1>8. ASSUME heard
      PROVE  /\ frames' \in Seq(Frames)
             /\ \A edge, u : On(frames', edge, u) <=> edge \in {"leave", "-agent"} /\ u = t
             /\ \A k, edge, u : edge # "leave" =>
                  (Awaits(frames', k, edge, u) <=> edge = "-agent" /\ u = t /\ 1 <= k)
  <2>1. ~On(<<g>>, f.edge, f.tx)
    BY <1>3, <1>7
  <2>2. LET r == <<f>> \o <<g>> IN
          /\ r \in Seq(Frames)
          /\ \A k, edge, u : Awaits(r, k, edge, u)
               <=> Awaits(<<g>>, k, edge, u) \/ (f.edge = edge /\ f.tx = u /\ f.to <= k)
          /\ \A edge, u : On(r, edge, u) <=> On(<<g>>, edge, u) \/ (f.edge = edge /\ f.tx = u)
    BY <2>1, <1>3, <1>7, Pushes
  <2>3. frames' = <<f>> \o <<g>>
    BY <1>6, <1>8
  <2> DEFINE r == <<f>> \o <<g>>
  <2>4. /\ r \in Seq(Frames)
        /\ \A k, edge, u : Awaits(r, k, edge, u)
             <=> Awaits(<<g>>, k, edge, u) \/ (f.edge = edge /\ f.tx = u /\ f.to <= k)
        /\ \A edge, u : On(r, edge, u) <=> On(<<g>>, edge, u) \/ (f.edge = edge /\ f.tx = u)
        /\ frames' = r
    BY <2>2, <2>3
  <2> HIDE DEF r
  <2> QED BY <2>4, <1>3, <1>7
<1>9. /\ frames' \in Seq(Frames)
      /\ \A edge, u : On(frames', edge, u) =>
           (edge = "leave" \/ (edge = "-agent" /\ heard)) /\ u = t
      /\ On(frames', "leave", t)
      /\ \A k, u : /\ ~Awaits(frames', k, "event", u) /\ ~Awaits(frames', k, "-session", u)
                   /\ ~Awaits(frames', k, "+session", u) /\ ~Awaits(frames', k, "+agent", u)
      /\ \A k \in 1..Listeners : \A u : Awaits(frames', k, "-agent", u) <=> heard /\ u = t
  <2>1. CASE heard
    <3>1. \A k \in 1..Listeners : 1 <= k
      BY Assumed
    <3> QED BY <2>1, <3>1, <1>8
  <2>2. CASE ~heard
    <3>1. frames' = <<g>>
      BY <2>2, <1>6
    <3> QED BY <2>2, <3>1, <1>7
  <2> QED BY <2>1, <2>2
<1>10. Stacked(frames, View)'
  <2>1. \A b : Fits(g, 0, b, View')
    BY <1>1, <1>2, <1>3, <1>5, ViewIs DEF Fits
  <2>2. Stacked(<<g>>, View')
    <3>1. \A i \in DOMAIN <<g>> : i = 1 /\ Len(<<g>>) - i = 0 /\ <<g>>[i] = g
      BY <1>7
    <3> QED BY <2>1, <3>1, <1>7 DEF Stacked
  <2>3. heard => Stacked(<<f>> \o <<g>>, View')
    <3> SUFFICES ASSUME heard PROVE Stacked(<<f>> \o <<g>>, View')
      OBVIOUS
    <3>1. reg.session.tx = t
      BY <1>2 DEF LifeInv, Registered
    <3>2. Fits(f, 1, g, View')
      BY <3>1, <1>2, <1>3, <1>5, ViewIs DEF Fits
    <3>3. ~On(<<g>>, f.edge, f.tx)
      BY <1>3, <1>7
    <3> QED BY <2>2, <3>2, <3>3, <1>3, <1>7, PushFits
  <2>4. CASE heard
    BY <2>3, <2>4, <1>6
  <2>5. CASE ~heard
    BY <2>2, <2>5, <1>6
  <2> QED BY <2>4, <2>5
<1>11. Registered'
  BY <1>1, <1>5 DEF LifeInv, Registered
<1>12. Transacted'
  <2>1. ASSUME NEW u \in Agents
        PROVE  /\ tx[u].stage # "publishing"
               /\ tx[u].stage = "live" /\ tx[u].disp # "done" /\ ~On(frames', "leave", u) =>
                    reg'.agent.tx = u
    <3>1. tx[u].stage # "publishing"
      BY <1>1, PublishingIs
    <3>2. tx[u].stage = "live" /\ tx[u].disp # "done" => reg.agent.tx = u
      BY <1>1, NoFrames DEF LifeInv, Transacted
    <3>3. u = t => On(frames', "leave", u)
      BY <1>9
    <3> QED BY <3>1, <3>2, <3>3, <1>5
  <2> QED BY <2>1, <1>1, <1>5 DEF LifeInv, Transacted
<1>13. Awaited'
  <2> SUFFICES ASSUME waiter' = "waiting", reg'.session.tx = Nobody, reg'.agent.tx = Nobody
               PROVE  FALSE
    BY DEF Awaited
  <2>1. reg.agent.tx # Nobody => reg.agent.tx = reg.session.tx
    BY DEF LifeInv, Registered
  <2> QED BY <2>1, <1>1, <1>5 DEF LifeInv, Awaited
<1>14. Heard'
  <2>1. ASSUME NEW u \in Ids, NEW k \in 1..Listeners
        PROVE  HeardBy(k, u)'
    <3>1. HeardBy(k, u) /\ HeardBy(1, u) /\ seen' = seen /\ sessionLog' = sessionLog
      BY <1>1, <1>2 DEF LifeInv, Heard
    <3>2. \A edge : Was(edge, u)' <=> Was(edge, u)
      BY <3>1 DEF Was
    <3>3. \A edge, v : \A j : ~Awaits(frames, j, edge, v)
      BY <1>1, NoFrames
    <3>4. /\ seen[k][u]["event"] + One(Awaits(frames', k, "event", u)) = sessionLog'[u]
          /\ seen[k][u]["-session"] + One(Awaits(frames', k, "-session", u))
               = One(Was("+session", u) /\ reg'.session.tx # u)
      BY <3>1, <3>3, <1>5, <1>9 DEF HeardBy, One
    <3>5. seen[k][u]["-agent"] + One(Awaits(frames', k, "-agent", u))
               = One(Was("+agent", u) /\ reg'.agent.tx # u)
      <4>1. seen[k][u]["-agent"] + 0 = One(Was("+agent", u) /\ reg.agent.tx # u)
        <5>1. seen[k][u]["-agent"] + One(Awaits(frames, k, "-agent", u))
                = One(Was("+agent", u) /\ reg.agent.tx # u)
          BY <3>1 DEF HeardBy
        <5>2. One(Awaits(frames, k, "-agent", u)) = 0
          BY <3>3 DEF One
        <5> QED BY <5>1, <5>2
      <4>2. CASE u = t /\ heard
        <5>1. Was("+agent", u)
          BY <4>2, <3>3 DEF LifeInv, Heard
        <5>2. u # Nobody /\ seen[k][u]["-agent"] \in Nat
          <6>1. "-agent" \in Edges
            BY DEF Edges, Publication!Edges
          <6>2. seen \in [1..Listeners -> [Ids -> [Edges -> Nat]]]
            BY Typed
          <6> QED BY <6>1, <6>2, <1>2
        <5>3. One(Awaits(frames', k, "-agent", u)) = 1
          BY <4>2, <1>9 DEF One
        <5>4. One(Was("+agent", u) /\ reg'.agent.tx # u) = 1
          BY <5>1, <5>2, <4>2, <1>5 DEF One
        <5>5. One(Was("+agent", u) /\ reg.agent.tx # u) = 0
          BY <4>2 DEF One
        <5> QED BY <4>1, <5>2, <5>3, <5>4, <5>5
      <4>3. CASE u = t /\ mine /\ ~heard
        <5>1. ~Was("+agent", u)
          BY <4>3, <3>1 DEF HeardBy, Was
        <5>2. ~Awaits(frames', k, "-agent", u)
          BY <4>3, <1>9
        <5> QED BY <5>1, <5>2, <4>1 DEF One
      <4>4. CASE u # t \/ ~mine
        <5>1. ~Awaits(frames', k, "-agent", u)
          BY <4>4, <1>9
        <5>2. reg'.agent.tx # u <=> reg.agent.tx # u
          BY <4>4, <1>2, <1>5
        <5> QED BY <5>1, <5>2, <4>1 DEF One
      <4> QED BY <4>2, <4>3, <4>4
    <3>6. reg'.agent.tx = u => reg'.agent = reg.agent
      BY <1>2, <1>5
    <3> QED BY <3>1, <3>2, <3>4, <3>5, <3>6, <1>9 DEF HeardBy, One
  <2>2. ASSUME NEW u \in Ids
        PROVE  /\ reg'.session.tx = u => Was("+session", u)'
               /\ reg'.agent.tx = u /\ reg'.agent.announced => Was("+agent", u)'
    <3>1. \A edge, v : \A j : ~Awaits(frames, j, edge, v)
      BY <1>1, NoFrames
    <3>2. \A edge : Was(edge, u)' <=> Was(edge, u)
      BY <1>1 DEF Was
    <3>3. reg'.agent.tx = u => reg'.agent = reg.agent
      BY <1>2, <1>5
    <3> QED BY <3>1, <3>2, <3>3, <1>5 DEF LifeInv, Heard
  <2> QED BY <2>1, <2>2 DEF Heard
<1>15. LifeTypes'
  BY <1>1, <1>5, <1>9 DEF LifeInv, LifeTypes
<1> QED BY <1>10, <1>11, <1>12, <1>13, <1>14, <1>15 DEF LifeInv

(* The Session leaves its store after its agent.                           *)
LEMMA LeaveSessionKeeps ==
  ASSUME LifeInv, Publication!LeaveSession
  PROVE  LifeInv'
<1> DEFINE t == frames[1].tx
<1>1. /\ frames # <<>> /\ frames[1].edge = "leave"
      /\ tx' = [tx EXCEPT ![t].disp = "done"]
      /\ IF reg.session.tx = t THEN Publication!DetachNow(Tail(frames))
         ELSE frames' = Tail(frames) /\ reg' = reg
      /\ UNCHANGED <<sessionLog, seen, factory, waiter>>
  BY DEF Publication!LeaveSession, Publication!Idle, Publication!Top
<1>2. /\ tx \in [Ids -> Transactions] /\ Nobody \notin Ids
      /\ Agents \cap Plains = {} /\ Agents \subseteq Ids /\ Plains \subseteq Ids
      /\ frames[1] \in Frames /\ 1 \in 1..Listeners /\ reg \in [session : Entries, agent : Entries]
  BY <1>1, Typed
<1>3. /\ t \in Agents /\ t \in Ids /\ reg.agent.tx # t /\ Len(frames) - 1 = 0
      /\ Tail(frames) = <<>>
  <2>1. t \in Agents /\ reg.agent.tx # t /\ Len(frames) - 1 = 0
    BY <1>1, TopFits, ViewIs DEF Fits
  <2> QED BY <2>1, <1>1, <1>2, TopFits
<1>4. tx' \in [Ids -> Transactions] /\ \A u \in Ids :
        /\ tx'[u].stage = tx[u].stage
        /\ tx'[u].disp = IF u = t THEN "done" ELSE tx[u].disp
  <2> DEFINE b == [tx[t] EXCEPT !.disp = "done"]
  <2>1. tx[t] \in Transactions
    BY <1>2, <1>3
  <2>2. b \in Transactions /\ b.stage = tx[t].stage /\ b.disp = "done"
    BY <2>1 DEF Transactions
  <2>3. tx' = [tx EXCEPT ![t] = b]
    BY <1>1
  <2> HIDE DEF b
  <2> QED BY <2>2, <2>3, <1>2, <1>3
<1>5. /\ \A edge, u : On(frames, edge, u) <=> edge = "leave" /\ u = t
      /\ \A k, edge, u : Awaits(frames, k, edge, u) => edge = "leave"
  BY <1>1, <1>3, LoneFrame
<1> HIDE DEF t
<1>6. CASE reg.session.tx = t
  <2> DEFINE rest == <<>>
  <2>1. rest \in Seq(Frames) /\ Stacked(rest, View)
        /\ \A e, u : On(rest, e, u) => e \in {"-session", "leave"}
    BY NoFrames
  <2>2. \A k \in 1..Listeners, u \in Ids :
           /\ ~Awaits(frames, k, "event", u)
           /\ \A e \in {"-session", "-agent"} : Awaits(rest, k, e, u) <=> Awaits(frames, k, e, u)
    BY <1>5, NoFrames
  <2>3. reg.agent.tx = Nobody
    BY <1>3, <1>6 DEF LifeInv, Registered
  <2>4. /\ reg' = [reg EXCEPT !.session = Publication!NoEntry]
        /\ frames' = <<Publication!Frame("-session", t)>> \o rest
    <3>1. reg.session.announced
      BY <1>2, <1>3, <1>6 DEF LifeInv, Registered
    <3> QED BY <3>1, <1>1, <1>3, <1>6 DEF Publication!DetachNow, Publication!Disposal
  <2>5. \A u \in Ids : ~On(rest, "leave", u)
    BY NoFrames
  <2>6. \A u \in Ids : /\ tx'[u].stage = tx[u].stage
                             \/ (u = t /\ u \in Plains /\ tx'[u].stage = "ended")
                       /\ tx'[u].disp = tx[u].disp
                             \/ (u = t /\ tx'[u].disp = "done" /\ ~On(rest, "leave", u))
    BY <1>4, <2>5
  <2>7. \A u \in Ids : u # t => (On(rest, "leave", u) <=> On(frames, "leave", u))
    BY <1>5, <2>5
  <2>8. ~Awaits(frames, 1, "+session", t)
    BY <1>5
  <2>9. /\ t \in Agents => tx'[t].disp = "done"
        /\ t \in Plains => tx'[t].stage = "ended" /\ tx'[t].disp = "none"
    BY <1>2, <1>3, <1>4
  <2> HIDE DEF rest
  <2> QED BY <2>1, <2>2, <2>3, <2>4, <2>6, <2>7, <2>8, <2>9, <1>1, <1>3, <1>4, <1>6, DetachKeeps
<1>7. CASE reg.session.tx # t
  <2>1. frames' = <<>> /\ frames' = Tail(frames) /\ reg' = reg
    BY <1>1, <1>3, <1>7
  <2>2. Heard'
    BY <2>1, <1>1, PopHeard
  <2>3. Stacked(frames, View)' /\ frames' \in Seq(Frames)
    BY <2>1, NoFrames
  <2>4. Registered'
    BY <2>1, <1>1 DEF LifeInv, Registered
  <2>5. Awaited'
    BY <2>1, <1>1 DEF LifeInv, Awaited
  <2>6. Transacted'
    <3>1. ASSUME NEW u \in Plains
          PROVE  /\ tx'[u].stage \in {"new", "live", "ended"} /\ tx'[u].disp = "none"
                 /\ tx'[u].stage = "live" => reg'.session.tx = u /\ ~reg'.session.leaving
      <4>1. u \in Ids /\ u # t
        BY <1>2, <1>3
      <4> QED BY <4>1, <2>1, <1>4 DEF LifeInv, Transacted
    <3>2. ASSUME NEW u \in Agents
          PROVE  /\ reg'.session.tx = u =>
                      tx'[u].stage \in {"publishing", "live", "unwinding"} /\ tx'[u].disp # "done"
                 /\ tx'[u].stage # "publishing"
                 /\ tx'[u].stage = "live" /\ tx'[u].disp # "done" => reg'.agent.tx = u
      <4>1. u \in Ids
        BY <1>2
      <4>2. tx[u].stage # "publishing"
        BY <1>3, <1>5, PublishingIs
      <4>3. u # t => ~On(frames, "leave", u)
        BY <1>5
      <4> QED BY <4>1, <4>2, <4>3, <2>1, <1>4, <1>7 DEF LifeInv, Transacted
    <3>3. ASSUME NEW u \in Ids, tx'[u].stage \in Early
          PROVE  /\ reg'.session.tx # u
                 /\ \A k \in 1..Listeners, e \in Edges : seen'[k][u][e] = 0
      BY <3>3, <2>1, <1>1, <1>4 DEF LifeInv, Transacted
    <3> QED BY <3>1, <3>2, <3>3 DEF Transacted
  <2>7. LifeTypes'
    BY <2>1, <2>3, <1>1, <1>4 DEF LifeInv, LifeTypes
  <2> QED BY <2>2, <2>3, <2>4, <2>5, <2>6, <2>7 DEF LifeInv
<1> QED BY <1>6, <1>7

(* Publication begins, or finds itself aborted or the id taken.            *)
LEMMA PublishKeeps ==
  ASSUME LifeInv, NEW t \in Ids, Publication!Publish(t)
  PROVE  LifeInv'
<1>1. /\ frames = <<>> /\ tx[t].stage = "ready" /\ tx[t].stage \in Early
      /\ UNCHANGED <<sessionLog, seen, factory, waiter>>
  BY DEF Publication!Publish, Publication!Idle, Early
<1>2. /\ LifeTypes /\ tx[t] \in Transactions /\ tx \in [Ids -> Transactions]
      /\ Ids = Agents \cup Plains /\ Agents \cap Plains = {}
  BY Becoming, Typed DEF LifeInv, Ids, Agents, Publication!Txs
<1>3. t \in Agents /\ t \notin Plains
  BY <1>1, <1>2 DEF LifeInv, Transacted
<1>4. CASE Publication!AssertLiveFails(t) \/ ~Publication!Free("session")
  <2> DEFINE b == Publication!Unwinding(t)
  <2>1. /\ b \in Transactions /\ b.stage = "unwinding"
        /\ b.disp = IF tx[t].disp = "none" THEN "stopping" ELSE tx[t].disp
    BY <1>2, Becoming
  <2>2. tx' = [tx EXCEPT ![t] = b] /\ UNCHANGED <<reg, frames>>
    BY <1>4 DEF Publication!Publish
  <2> HIDE DEF b
  <2>3. Moves(t, tx[t], b)
    BY <2>1, <1>1, <1>3 DEF Moves
  <2> QED BY <2>1, <2>2, <2>3, <1>1, OneMoves
<1>5. CASE ~(Publication!AssertLiveFails(t) \/ ~Publication!Free("session"))
  <2> DEFINE e == Publication!Announcing(Publication!Entered(t))
             a == Publication!Entered(t)
  <2>1. /\ reg' = [session |-> e, agent |-> a]
        /\ frames' = <<Publication!Frame("+session", t)>>
        /\ tx' = [tx EXCEPT ![t].stage = "publishing"]
    BY <1>5 DEF Publication!Publish
  <2>2. tx[t].disp = "none" /\ factory # "gone" /\ reg.session.tx = Nobody
    BY <1>5 DEF Publication!AssertLiveFails, Publication!Aborted, Publication!Free, Nobody
  <2>3. frames' = <<Publication!Frame("+session", t)>> \o frames
    <3>1. 1 \in 1..(Listeners + 1)
      BY Assumed
    <3>2. <<Publication!Frame("+session", t)>> \in Seq(Frames)
      BY <3>1 DEF Publication!Frame, Frames, Edges, Publication!Edges
    <3> QED BY <3>2, <2>1, <1>1, ConcatEmptySeq
  <2> HIDE DEF e, a
  <2>4. reg'.session = e /\ reg'.agent = a
    BY <2>1
  <2>5. tx' = [tx EXCEPT ![t].stage = IF t \in Plains THEN "live" ELSE "publishing"]
    BY <2>1, <1>3
  <2>6. reg' = [session |-> reg'.session, agent |-> reg'.agent]
    BY <2>1
  <2> QED BY <2>2, <2>3, <2>4, <2>5, <2>6, <1>1, <1>3, EnterKeeps DEF e, a
<1> QED BY <1>4, <1>5

(* SessionStore.create enters a Session, or finds the id taken.            *)
LEMMA CreatePlainKeeps ==
  ASSUME LifeInv, NEW t \in Ids, Publication!CreatePlain(t)
  PROVE  LifeInv'
<1>1. /\ t \in Plains /\ tx[t].stage = "new" /\ tx[t].stage \in Early
      /\ UNCHANGED <<sessionLog, seen, factory, waiter>>
  BY DEF Publication!CreatePlain, Early
<1>2. /\ LifeTypes /\ tx[t] \in Transactions /\ tx \in [Ids -> Transactions]
      /\ Agents \cap Plains = {} /\ reg \in [session : Entries, agent : Entries]
  BY Becoming, Typed DEF LifeInv
<1>3. t \notin Agents /\ tx[t].disp = "none"
  BY <1>1, <1>2 DEF LifeInv, Transacted
<1>4. CASE reg.session.tx # Nobody
  <2> DEFINE b == [tx[t] EXCEPT !.stage = "ended"]
  <2>1. b \in Transactions /\ b.stage = "ended" /\ b.disp = tx[t].disp
    BY <1>2, Becoming DEF Stages
  <2>2. tx' = [tx EXCEPT ![t] = b] /\ UNCHANGED <<reg, frames>>
    BY <1>4 DEF Publication!CreatePlain, Publication!Free, Nobody
  <2> HIDE DEF b
  <2>3. Moves(t, tx[t], b)
    BY <2>1, <1>1 DEF Moves
  <2> QED BY <2>1, <2>2, <2>3, <1>1, OneMoves
<1>5. CASE reg.session.tx = Nobody
  <2> DEFINE e == Publication!Announcing(Publication!Entered(t))
  <2>1. /\ reg' = [reg EXCEPT !.session = e]
        /\ frames' = <<Publication!Frame("+session", t)>> \o frames
        /\ tx' = [tx EXCEPT ![t].stage = "live"]
    BY <1>5 DEF Publication!CreatePlain, Publication!Free, Nobody
  <2> HIDE DEF e
  <2>2. reg'.session = e /\ reg'.agent = reg.agent
        /\ reg' = [session |-> reg'.session, agent |-> reg'.agent]
    BY <2>1, <1>2
  <2>3. tx' = [tx EXCEPT ![t].stage = IF t \in Plains THEN "live" ELSE "publishing"]
    BY <2>1, <1>1
  <2> QED BY <2>1, <2>2, <2>3, <1>1, <1>3, <1>5, EnterKeeps DEF e
<1> QED BY <1>4, <1>5

-----------------------------------------------------------------------------
(* Every step of Services, and the three properties.                       *)

(* Initially nobody is registered and nothing was dispatched.              *)
LEMMA LifeInit == Init => LifeInv
<1> SUFFICES ASSUME Init PROVE LifeInv
  OBVIOUS
<1>1. /\ reg = [session |-> Publication!NoEntry, agent |-> Publication!NoEntry]
      /\ tx = [t \in Ids |-> [stage |-> "new", disp |-> "none", owned |-> TRUE,
                              cancelled |-> FALSE]]
      /\ frames = <<>> /\ sessionLog = [t \in Ids |-> 0]
      /\ seen = [k \in 1..Listeners |-> [t \in Ids |-> [e \in Edges |-> 0]]]
      /\ factory = "active" /\ waiter = "none"
  BY DEF Init, Publication!Init, Ids, Edges
<1>2. LET e == Publication!NoEntry IN
        e \in Entries /\ e.tx = Nobody /\ ~e.leaving /\ ~e.announced
  BY DEF Publication!NoEntry, Entries, Nobody
<1>3. /\ Nobody \notin Ids /\ Agents \subseteq Ids /\ Plains \subseteq Ids
      /\ Ids = Agents \cup Plains
  BY Assumed DEF Ids, Agents, Publication!Txs
<1>4. [stage |-> "new", disp |-> "none", owned |-> TRUE, cancelled |-> FALSE] \in Transactions
  BY DEF Transactions, Early
<1>5. LifeTypes
  BY <1>1, <1>2, <1>4, NoFrames DEF LifeTypes
<1>6. Stacked(frames, View) /\ (\A k, e, t : ~Awaits(frames, k, e, t))
  BY <1>1, NoFrames
<1>7. /\ reg.session.tx = Nobody /\ reg.agent.tx = Nobody /\ ~reg.session.leaving
  BY <1>1, <1>2
<1>8. Registered
  BY <1>1, <1>7 DEF Registered
<1>9. \A k \in 1..Listeners, t \in Ids, e \in Edges : seen[k][t][e] = 0
  BY <1>1
<1>10. Transacted
  <2>1. \A t \in Ids : tx[t].stage = "new" /\ tx[t].disp = "none"
    BY <1>1
  <2> QED BY <2>1, <1>3, <1>7, <1>9 DEF Transacted
<1>11. Awaited
  BY <1>1 DEF Awaited
<1>12. Heard
  <2>0. {"+session", "+agent", "event", "-agent", "-session"} = Edges /\ 1 \in 1..Listeners
    BY Assumed DEF Edges, Publication!Edges
  <2>1. ASSUME NEW t \in Ids, NEW k \in 1..Listeners
        PROVE  HeardBy(k, t)
    <3>1. /\ \A e \in Edges : seen[k][t][e] = 0
          /\ ~Was("+session", t) /\ ~Was("+agent", t) /\ sessionLog[t] = 0
      BY <1>1, <1>9, <2>0 DEF Was
    <3> QED BY <3>1, <2>0, <1>6 DEF HeardBy, One
  <2>2. \A t \in Ids : reg.session.tx # t /\ reg.agent.tx # t
    BY <1>3, <1>7
  <2> QED BY <2>1, <2>2 DEF Heard
<1> QED BY <1>5, <1>6, <1>8, <1>10, <1>11, <1>12 DEF LifeInv

(* One case per action of the publication.                                 *)
LEMMA PublicationKeeps ==
  ASSUME LifeInv, Publication!Next
  PROVE  LifeInv'
<1>1. CASE \/ Publication!Dispatch \/ Publication!Veto \/ Publication!AppendEvent
           \/ Publication!FactoryCloses \/ Publication!FactoryGone \/ Publication!ConfiguredStart
  BY <1>1, DeliverKeeps, AnnouncedSessionKeeps, AnnouncedAgentKeeps, ReturnKeeps,
     LeaveSessionKeeps, VetoKeeps, AppendKeeps, FactoryKeeps DEF Publication!Dispatch
<1>2. ASSUME NEW t \in Ids,
             \/ Publication!CreateAgent(t) \/ Publication!Resume(t)
             \/ Publication!CreatePlain(t) \/ Publication!Continue(t)
             \/ Publication!CallerAborts(t) \/ Publication!OwnerUnloads(t)
             \/ Publication!HandleDisposes(t) \/ Publication!PlainUnloads(t)
      PROVE  LifeInv'
  <2>1. Publication!PlainUnloads(t) => t \in Plains
    BY DEF Publication!PlainUnloads
  <2> QED BY <2>1, <1>2, FactoryTransactionKeeps, CreatePlainKeeps, PublishKeeps,
             LeaveAgentKeeps, WithdrawalKeeps, PlainUnloadsKeeps DEF Publication!Continue
<1> QED BY <1>1, <1>2 DEF Publication!Next, Ids

(* No step breaks the invariant: a step of another component leaves the    *)
(* variables of this one alone.                                            *)
LEMMA LifeStep == LifeInv /\ [Next]_allVars => LifeInv'
<1> SUFFICES ASSUME LifeInv, [Next]_allVars PROVE LifeInv'
  OBVIOUS
<1>1. CASE PublicationSteps
  BY <1>1, PublicationKeeps DEF PublicationSteps
<1>2. CASE UNCHANGED sessionVars
  <2>1. /\ UNCHANGED <<reg, tx, frames, sessionLog, seen, factory, waiter>>
        /\ tx \in [Ids -> Transactions] /\ factory \in {"active", "closing", "gone"}
        /\ waiter \in {"none", "waiting", "released"}
    BY <1>2 DEF sessionVars, LifeInv, LifeTypes
  <2>2. \A t \in Ids : Moves(t, tx[t], tx'[t])
    BY <2>1 DEF Moves, LifeInv, Transacted
  <2>3. factory' = "gone" => factory = "gone" \/ reg.session.tx \notin Agents
    BY <2>1
  <2>4. waiter' = "waiting" =>
          waiter = "waiting" \/ reg.session.tx # Nobody \/ reg.agent.tx # Nobody
    BY <2>1
  <2> QED BY <2>1, <2>2, <2>3, <2>4, QuietKeeps
<1>3. PublicationSteps \/ UNCHANGED sessionVars
  BY DEF Next, ToolSteps, RepairSteps, PublicationSteps, ApprovalSteps, RetrySteps, GoalSteps,
     ScheduleSteps, allVars, sessionVars
<1> QED BY <1>1, <1>2, <1>3

(* The invariant holds throughout, for any number of transactions, events  *)
(* and listeners.                                                          *)
THEOREM LifeAlways == Spec => []LifeInv
BY LifeInit, LifeStep, PTL DEF Spec

(* Every listener sees every event appended to an attached Session, once,  *)
(* in log order, whatever other listeners append or detach in between, and *)
(* nothing after the Session's disposal (session append, detach).          *)
THEOREM EventsAlwaysInOrder == Spec => []EventsInOrder
<1>1. LifeInv => EventsInOrder
  <2> SUFFICES ASSUME LifeInv, NEW k \in 1..Listeners
               PROVE  /\ frames = <<>> => \A t \in Ids : seen[k][t]["event"] = sessionLog[t]
                      /\ frames # <<>> /\ frames[1].edge \in Edges /\ frames[1].to = k =>
                           /\ seen[k][frames[1].tx]["-session"] = 0
                           /\ frames[1].edge = "event" =>
                                frames[1].seq = seen[k][frames[1].tx]["event"] + 1
    BY DEF EventsInOrder, Publication!EventsInOrder, Publication!Idle, Publication!Delivering,
       Publication!Top, Ids, Edges
  <2>0. seen \in [1..Listeners -> [Ids -> [Edges -> Nat]]]
    BY Typed
  <2>1. \A t \in Ids : HeardBy(k, t) /\ \A e \in Edges : seen[k][t][e] \in Nat
    <3> TAKE t \in Ids
    <3>1. HeardBy(k, t)
      BY DEF LifeInv, Heard
    <3>2. \A e \in Edges : seen[k][t][e] \in Nat
      BY <2>0
    <3> QED BY <3>1, <3>2
  <2>2. {"+session", "+agent", "event", "-agent", "-session"} = Edges
    BY DEF Edges, Publication!Edges
  <2>3. ASSUME frames = <<>>, NEW t \in Ids
        PROVE  seen[k][t]["event"] = sessionLog[t]
    <3>1. One(Awaits(frames, k, "event", t)) = 0
      BY <2>3, NoFrames DEF One
    <3>2. seen[k][t]["event"] + One(Awaits(frames, k, "event", t)) = sessionLog[t]
      BY <2>1 DEF HeardBy
    <3> QED BY <2>1, <2>2, <3>1, <3>2
  <2>4. ASSUME frames # <<>>, frames[1].edge \in Edges, frames[1].to = k
        PROVE  /\ seen[k][frames[1].tx]["-session"] = 0
               /\ frames[1].edge = "event" =>
                    frames[1].seq = seen[k][frames[1].tx]["event"] + 1
    <3> DEFINE t == frames[1].tx
               f == frames[1]
    <3>1. /\ Fits(f, Len(frames) - 1, Bottom(frames), View) /\ 1 \in DOMAIN frames /\ t \in Ids
          /\ Nobody \notin Ids /\ k \in Int
      BY <2>4, TopFits, Typed, Assumed DEF Frames
    <3>2. \A e : f.edge = e => Awaits(frames, k, e, t)
      <4>1. f.to <= k
        BY <2>4, <3>1
      <4> QED BY <4>1, <3>1 DEF Awaits
    <3>3. /\ seen[k][t]["event"] + One(Awaits(frames, k, "event", t)) = sessionLog[t]
          /\ seen[k][t]["-session"] + One(Awaits(frames, k, "-session", t))
               = One(Was("+session", t) /\ reg.session.tx # t)
      BY <2>1, <3>1 DEF HeardBy
    <3>4. seen[k][t]["-session"] \in Nat /\ seen[k][t]["event"] \in Nat
      BY <2>1, <2>2, <3>1
    <3>5. f.edge = "-session" \/ reg.session.tx = t
      BY <2>2, <2>4, <3>1, ViewIs DEF Fits, LifeInv, Registered
    <3>6. f.edge = "event" => f.seq = sessionLog[t]
      BY <3>1, ViewIs DEF Fits
    <3> HIDE DEF t, f
    <3>7. CASE f.edge = "-session"
      <4>1. One(Awaits(frames, k, "-session", t)) = 1
        BY <3>2, <3>7 DEF One
      <4>2. One(Was("+session", t) /\ reg.session.tx # t) \in {0, 1}
        BY DEF One
      <4>3. seen[k][t]["-session"] = 0
        BY <3>3, <3>4, <4>1, <4>2
      <4> QED BY <4>3, <3>7 DEF t, f
    <3>8. CASE reg.session.tx = t
      <4>1. One(Was("+session", t) /\ reg.session.tx # t) = 0
        BY <3>8 DEF One
      <4>2. One(Awaits(frames, k, "-session", t)) \in {0, 1}
        BY DEF One
      <4>3. seen[k][t]["-session"] = 0
        BY <3>3, <3>4, <4>1, <4>2
      <4>4. f.edge = "event" => One(Awaits(frames, k, "event", t)) = 1
        BY <3>2 DEF One
      <4>5. f.edge = "event" => f.seq = seen[k][t]["event"] + 1
        BY <3>3, <3>6, <4>4
      <4> QED BY <4>3, <4>5 DEF t, f
    <3> QED BY <3>5, <3>7, <3>8
  <2> QED BY <2>3, <2>4
<1> QED BY <1>1, LifeAlways, PTL

(* Each edge comes at most once; once dispatch has unwound, a Session or   *)
(* agent whose creation anyone saw and that left was disposed to everyone, *)
(* one never announced shows nobody anything, and an agent's disposal      *)
(* precedes its Session's (announce, detachEntered, publish).              *)
THEOREM EdgesAlwaysPaired == Spec => []PairedEdges
<1>1. LifeInv => PairedEdges
  <2> SUFFICES ASSUME LifeInv, NEW t \in Ids, NEW k \in 1..Listeners
               PROVE  LET s == seen[k][t]
                          paired(r, up, down) ==
                            /\ s[up] <= 1 /\ s[down] <= 1
                            /\ Publication!Idle =>
                                 (s[down] = 1) = (Publication!Was(t, up) /\ reg[r].tx # t) IN
                      /\ paired("session", "+session", "-session")
                      /\ paired("agent", "+agent", "-agent")
                      /\ s["-session"] = 1 => s["-agent"] = seen[1][t]["+agent"]
    BY DEF PairedEdges, Publication!PairedEdges, Ids
  <2>1. /\ HeardBy(k, t) /\ HeardBy(1, t) /\ Nobody \notin Ids
        /\ \A e \in Edges : seen[k][t][e] \in Nat /\ seen[1][t][e] \in Nat
    <3>1. /\ seen \in [1..Listeners -> [Ids -> [Edges -> Nat]]]
          /\ Nobody \notin Ids /\ 1 \in 1..Listeners
      BY Typed
    <3>2. HeardBy(k, t) /\ HeardBy(1, t)
      BY <3>1 DEF LifeInv, Heard
    <3>3. \A e \in Edges : seen[k][t][e] \in Nat /\ seen[1][t][e] \in Nat
      BY <3>1
    <3> QED BY <3>1, <3>2, <3>3
  <2>2. {"+session", "+agent", "event", "-agent", "-session"} = Edges
    BY DEF Edges, Publication!Edges
  <2>3. \A e \in {"+session", "+agent"} : Publication!Was(t, e) <=> Was(e, t)
    BY <2>1, <2>2 DEF Publication!Was, Was
  <2>4. ASSUME NEW r \in {"session", "agent"}, NEW up \in Edges, NEW down \in Edges,
               up \in {"+session", "+agent"}, seen[k][t][up] <= 1,
               seen[k][t][down] + One(Awaits(frames, k, down, t))
                 = One(Was(up, t) /\ reg[r].tx # t)
        PROVE  /\ seen[k][t][up] <= 1 /\ seen[k][t][down] <= 1
               /\ frames = <<>> =>
                    (seen[k][t][down] = 1) = (Publication!Was(t, up) /\ reg[r].tx # t)
    <3>1. seen[k][t][down] \in Nat
      BY <2>1
    <3>2. seen[k][t][down] <= 1
      <4>1. /\ One(Awaits(frames, k, down, t)) \in {0, 1}
            /\ One(Was(up, t) /\ reg[r].tx # t) \in {0, 1}
        BY DEF One
      <4> QED BY <4>1, <3>1, <2>4
    <3>3. ASSUME frames = <<>>
          PROVE  (seen[k][t][down] = 1) <=> (Was(up, t) /\ reg[r].tx # t)
      <4>1. One(Awaits(frames, k, down, t)) = 0
        BY <3>3, NoFrames DEF One
      <4>2. seen[k][t][down] = One(Was(up, t) /\ reg[r].tx # t)
        BY <4>1, <3>1, <2>4
      <4> QED BY <4>2 DEF One
    <3>4. Publication!Was(t, up) <=> Was(up, t)
      BY <2>3, <2>4
    <3>5. Publication!Was(t, up) \in BOOLEAN
      BY DEF Publication!Was
    <3> QED BY <3>2, <3>3, <3>4, <3>5, <2>4
  <2>5. /\ "session" \in {"session", "agent"} /\ "agent" \in {"session", "agent"}
        /\ seen[k][t]["+session"] <= 1 /\ seen[k][t]["+agent"] <= 1
        /\ seen[k][t]["-session"] + One(Awaits(frames, k, "-session", t))
             = One(Was("+session", t) /\ reg["session"].tx # t)
        /\ seen[k][t]["-agent"] + One(Awaits(frames, k, "-agent", t))
             = One(Was("+agent", t) /\ reg["agent"].tx # t)
    BY <2>1 DEF HeardBy
  <2>6. ASSUME seen[k][t]["-session"] = 1
        PROVE  seen[k][t]["-agent"] = seen[1][t]["+agent"]
    <3>1. reg.session.tx # t
      <4>1. One(Awaits(frames, k, "-session", t)) \in {0, 1}
        BY DEF One
      <4>2. One(Was("+session", t) /\ reg.session.tx # t) # 0
        BY <4>1, <2>5, <2>6
      <4> QED BY <4>2 DEF One
    <3>2. reg.agent.tx # t
      BY <3>1, <2>1 DEF LifeInv, Registered
    <3>3. One(Awaits(frames, k, "-agent", t)) = 0
      <4>1. ~Awaits(frames, k, "-agent", t)
        <5> SUFFICES ASSUME NEW i \in DOMAIN frames, frames[i].edge = "-agent", frames[i].tx = t
                     PROVE  FALSE
          BY DEF Awaits
        <5>1. Fits(frames[i], Len(frames) - i, Bottom(frames), View)
          BY DEF LifeInv, Stacked
        <5> QED BY <5>1, <3>1, ViewIs DEF Fits
      <4> QED BY <4>1 DEF One
    <3>4. seen[k][t]["-agent"] = One(Was("+agent", t))
      <4>1. seen[k][t]["-agent"] \in Nat
        BY <2>1, <2>2
      <4>2. One(Was("+agent", t) /\ reg["agent"].tx # t) = One(Was("+agent", t))
        BY <3>2 DEF One
      <4> QED BY <4>1, <4>2, <2>5, <3>3
    <3>5. seen[1][t]["+agent"] \in Nat /\ seen[1][t]["+agent"] <= 1
      BY <2>1, <2>2 DEF HeardBy
    <3> QED BY <3>4, <3>5 DEF One, Was
  <2> QED BY <2>2, <2>4, <2>5, <2>6 DEF Publication!Idle
<1> QED BY <1>1, LifeAlways, PTL

(* Outside dispatch, a registered agent has its own Session in the store   *)
(* and a live handle has both; a factory that is gone left nothing behind, *)
(* not even a creation that settles later; and nobody waits for an id that *)
(* is free (publish, FactoryOwnership, waitForDrainingConfiguredIdentity). *)
THEOREM RegistriesAlwaysSound == Spec => []RegistriesSound
<1>1. LifeInv => RegistriesSound
  <2> SUFFICES ASSUME LifeInv, frames = <<>>
               PROVE  /\ reg.agent.tx # Nobody => reg.agent.tx = reg.session.tx
                      /\ \A t \in Agents : tx[t].stage = "live" /\ tx[t].disp # "done" =>
                           reg.agent.tx = t /\ reg.session.tx = t
                      /\ factory = "gone" => reg.agent.tx \notin Agents
                           /\ reg.session.tx \notin Agents
                      /\ waiter = "waiting" => reg.agent.tx # Nobody \/ reg.session.tx # Nobody
    BY DEF RegistriesSound, Publication!RegistriesSound, Publication!Idle, Publication!Free,
       Nobody, Agents
  <2>1. Nobody \notin Agents
    BY Typed
  <2>2. reg.agent.tx # Nobody => reg.agent.tx = reg.session.tx /\ reg.agent.tx \in Agents
    BY DEF LifeInv, Registered
  <2>3. ASSUME NEW t \in Agents, tx[t].stage = "live", tx[t].disp # "done"
        PROVE  reg.agent.tx = t
    BY <2>3, NoFrames DEF LifeInv, Transacted
  <2>4. factory = "gone" => reg.session.tx \notin Agents
    BY DEF LifeInv, Registered
  <2>5. waiter = "waiting" => reg.agent.tx # Nobody \/ reg.session.tx # Nobody
    BY DEF LifeInv, Awaited
  <2> QED BY <2>1, <2>2, <2>3, <2>4, <2>5
<1> QED BY <1>1, LifeAlways, PTL
=============================================================================
