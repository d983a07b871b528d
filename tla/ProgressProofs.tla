---------------------------- MODULE ProgressProofs ----------------------------
(***************************************************************************)
(* Proofs about TurnProgress, for any number of pages, turns and stages,    *)
(* any ring capacity and however often the bus forgets.                     *)
(*                                                                         *)
(* The ring holds the last events of the conversation, without a gap, so    *)
(* its order is the order of the numbers: that makes the replay the prefix  *)
(* of what follows live.  A stream that is open has subscribed in the same  *)
(* step that replayed, and nothing was sent to it before.                   *)
(***************************************************************************)
EXTENDS TurnProgress, WellFoundedInduction, TLAPS

Before(a, b) == a.epoch < b.epoch \/ (a.epoch = b.epoch /\ a.seq < b.seq)

InOrder(s) == \A i, k \in 1..Len(s) : i < k => Before(s[i], s[k])

(* The ring ends with the last event, without a gap.                        *)
RingIsRecent ==
    /\ Len(ring) <= seq
    /\ \A i \in 1..Len(ring) : /\ ring[i].seq + Len(ring) = seq + i
                               /\ ring[i].epoch = epoch

(* Nothing has been sent that the bus has not published.                    *)
Published(s) ==
    \A k \in 1..Len(s) :
        s[k].epoch < epoch \/ (s[k].epoch = epoch /\ s[k].seq <= seq)

Follows(t) ==
    /\ stream[t] \in {"none", "requested"} => sent[t] = <<>>
    /\ run[t] = "none" => stream[t] = "none"
    /\ stream[t] = "open" => t \in subscribers

Covers(s, t) ==
    \A i \in 1..Len(ring) : ring[i].seq > since[t] => \E k \in 1..Len(s) : s[k] = ring[i]

Inv ==
    /\ TypeOK
    /\ RingIsRecent
    /\ \A t \in Turn : Follows(t) /\ Published(sent[t]) /\ InOrder(sent[t])
    /\ \A t \in Turn : stream[t] = "open" => Covers(sent[t], t)

-----------------------------------------------------------------------------
(* The least-number principle and, from it, induction over a set of         *)
(* numbers.                                                                 *)
LEMMA LeastNumber ==
    ASSUME NEW T \in SUBSET Nat, T # {}
    PROVE  \E x \in T : \A y \in T : x <= y
<1> DEFINE R == OpToRel(<, Nat)
<1>1. IsWellFoundedOn(R, Nat)
  BY NatLessThanWellFounded
<1>2. \A x, y \in Nat : y < x => <<y, x>> \in R
  BY DEF OpToRel
<1> HIDE DEF R
<1>3. PICK x \in T : \A y \in T : ~ (<<y, x>> \in R)
  BY <1>1, WFMin
<1>4. ASSUME NEW y \in T PROVE x <= y
  <2>1. x \in Nat /\ y \in Nat
    OBVIOUS
  <2>2. ~(y < x)
    BY <1>2, <1>3, <2>1
  <2> QED BY <2>1, <2>2
<1> QED BY <1>4

LEMMA UpTo ==
    ASSUME NEW N \in Nat, NEW S, 0 \in S, \A n \in 0..(N - 1) : n \in S => n + 1 \in S
    PROVE  \A n \in 0..N : n \in S
<1> SUFFICES ASSUME NEW z \in 0..N, z \notin S PROVE FALSE
  OBVIOUS
<1> DEFINE T == {n \in 0..N : n \notin S}
<1>1. T \in SUBSET Nat /\ T # {}
  OBVIOUS
<1>2. PICK x \in T : \A y \in T : x <= y
  <2> HIDE DEF T
  <2> QED BY <1>1, LeastNumber
<1>3. x # 0 /\ x - 1 \in 0..(N - 1) /\ x - 1 \in 0..N /\ (x - 1) + 1 = x
  OBVIOUS
<1>4. x - 1 \in S
  BY <1>2, <1>3
<1> QED BY <1>3, <1>4

-----------------------------------------------------------------------------
(* Publishing puts an event behind the others.                              *)
LEMMA AppendInOrder ==
    ASSUME NEW s \in Seq(Event), NEW e \in Event,
           InOrder(s), \A k \in 1..Len(s) : Before(s[k], e)
    PROVE  /\ Append(s, e) \in Seq(Event) /\ Len(Append(s, e)) = Len(s) + 1
           /\ Append(s, e)[Len(s) + 1] = e
           /\ \A k \in 1..Len(s) : Append(s, e)[k] = s[k]
           /\ InOrder(Append(s, e))
<1> DEFINE u == Append(s, e)
           l == Len(s)
<1>1. /\ u \in Seq(Event) /\ Len(u) = l + 1 /\ l \in Nat
      /\ u[l + 1] = e /\ \A k \in 1..l : u[k] = s[k]
  OBVIOUS
<1>2. InOrder(u)
  <2> HIDE DEF u, l
  <2> SUFFICES ASSUME NEW i \in 1..(l + 1), NEW k \in 1..(l + 1), i < k
               PROVE  Before(u[i], u[k])
    BY <1>1 DEF InOrder
  <2>1. i \in 1..l /\ u[i] = s[i]
    BY <1>1
  <2>2. CASE k = l + 1
    BY <1>1, <2>1, <2>2 DEF l
  <2>3. CASE k # l + 1
    <3>1. k \in 1..l /\ u[k] = s[k]
      BY <1>1, <2>3
    <3> QED BY <2>1, <3>1 DEF InOrder, l
  <2> QED BY <2>2, <2>3
<1> QED BY <1>1, <1>2

LEMMA PushKeepsRecent ==
    ASSUME TypeOK, RingIsRecent, NEW e \in Event,
           e.seq = seq + 1, e.epoch = epoch
    PROVE  LET r == Push(ring, e) IN
           /\ r \in Seq(Event) /\ Len(r) <= Capacity /\ Len(r) <= seq + 1
           /\ \A i \in 1..Len(r) : /\ r[i].seq + Len(r) = (seq + 1) + i
                                   /\ r[i].epoch = epoch
                                   /\ r[i] = e \/ \E j \in 1..Len(ring) : r[i] = ring[j]
<1> DEFINE l == Len(ring)
<1>1. /\ ring \in Seq(Event) /\ l \in Nat /\ l <= Capacity /\ seq \in Nat
      /\ Capacity \in Nat \ {0} /\ l <= seq
      /\ \A i \in 1..l : ring[i].seq + l = seq + i /\ ring[i].epoch = epoch
      /\ \A i \in 1..l : ring[i].seq \in Nat
  <2>1. ring \in Seq(Event)
    BY DEF TypeOK
  <2>2. \A i \in 1..l : ring[i] \in Event
    BY <2>1
  <2> QED BY <2>1, <2>2, ProgressAssumption DEF TypeOK, RingIsRecent, Event
<1>2. CASE l < Capacity
  <2> DEFINE r == Append(ring, e)
  <2>1. /\ Push(ring, e) = r
    BY <1>2 DEF Push
  <2>2. /\ r \in Seq(Event) /\ Len(r) = l + 1 /\ r[l + 1] = e
        /\ \A i \in 1..l : r[i] = ring[i]
    BY <1>1
  <2> HIDE DEF r, l
  <2>3. ASSUME NEW i \in 1..(l + 1)
        PROVE  /\ r[i].seq + (l + 1) = (seq + 1) + i /\ r[i].epoch = epoch
               /\ r[i] = e \/ \E j \in 1..l : r[i] = ring[j]
    <3>1. CASE i = l + 1
      BY <1>1, <2>2, <3>1
    <3>2. CASE i \in 1..l
      <4>1. /\ r[i] = ring[i] /\ ring[i].seq + l = seq + i /\ ring[i].seq \in Nat
            /\ ring[i].epoch = epoch
        BY <1>1, <2>2, <3>2
      <4> DEFINE x == ring[i].seq
      <4>2. x \in Nat /\ x + l = seq + i /\ i \in Nat
        BY <3>2, <4>1
      <4> HIDE DEF x
      <4>3. x + (l + 1) = (seq + 1) + i
        BY <1>1, <4>2
      <4> QED BY <3>2, <4>1, <4>3 DEF x
    <3> QED BY <1>1, <3>1, <3>2
  <2>4. l + 1 <= Capacity /\ l + 1 <= seq + 1
    BY <1>1, <1>2
  <2> QED BY <2>1, <2>2, <2>3, <2>4 DEF l
<1>3. CASE ~(l < Capacity)
  <2> DEFINE tail == Tail(ring)
             r == Append(tail, e)
  <2>1. Push(ring, e) = r /\ l # 0
    BY <1>1, <1>3 DEF Push
  <2>2. /\ tail \in Seq(Event) /\ Len(tail) = l - 1
        /\ \A i \in 1..(l - 1) : tail[i] = ring[i + 1]
    BY <1>1, <2>1
  <2> HIDE DEF tail
  <2>3. /\ r \in Seq(Event) /\ Len(r) = l /\ r[l] = e
        /\ \A i \in 1..(l - 1) : r[i] = ring[i + 1]
    BY <1>1, <2>2
  <2> HIDE DEF r, l
  <2>4. ASSUME NEW i \in 1..l
        PROVE  /\ r[i].seq + l = (seq + 1) + i /\ r[i].epoch = epoch
               /\ r[i] = e \/ \E j \in 1..l : r[i] = ring[j]
    <3>1. CASE i = l
      BY <1>1, <2>3, <3>1
    <3>2. CASE i \in 1..(l - 1)
      <4>1. /\ i + 1 \in 1..l /\ r[i] = ring[i + 1]
            /\ ring[i + 1].seq + l = seq + (i + 1) /\ ring[i + 1].seq \in Nat
            /\ ring[i + 1].epoch = epoch
        BY <1>1, <2>3, <3>2
      <4> QED BY <1>1, <3>2, <4>1
    <3> QED BY <1>1, <3>1, <3>2
  <2>5. l <= Capacity /\ l <= seq + 1
    BY <1>1
  <2> QED BY <2>1, <2>3, <2>4, <2>5 DEF l
<1> QED BY <1>2, <1>3

-----------------------------------------------------------------------------
(* The replay: filtering the ring.                                          *)

(* What has been kept of the first n events of the ring.                    *)
KeptOf(cur, n, s) ==
    /\ s \in Seq(Event)
    /\ \A k \in 1..Len(s) : \E i \in 1..n : s[k] = ring[i]
    /\ \A i \in 1..n : ring[i].seq > cur => \E k \in 1..Len(s) : s[k] = ring[i]
    /\ InOrder(s)

LEMMA KeptOfOneMore ==
    ASSUME TypeOK, RingIsRecent, NEW cur \in Nat,
           NEW n \in 0..(Len(ring) - 1), NEW s, KeptOf(cur, n, s)
    PROVE  KeptOf(cur, n + 1, IF ring[n + 1].seq > cur THEN Append(s, ring[n + 1]) ELSE s)
<1> DEFINE e == ring[n + 1]
           u == Append(s, e)
<1>1. /\ ring \in Seq(Event) /\ Len(ring) \in Nat /\ n \in Nat /\ seq \in Nat
      /\ n + 1 \in 1..Len(ring) /\ 1..n \subseteq 1..Len(ring)
      /\ \A i \in 1..(n + 1) : i \in 1..n \/ i = n + 1
      /\ 1..n \subseteq 1..(n + 1) /\ n + 1 \in 1..(n + 1)
  BY DEF TypeOK
<1>2. \A i \in 1..Len(ring) : ring[i] \in Event
  BY <1>1
<1>3. e \in Event /\ s \in Seq(Event) /\ InOrder(s) /\ Len(s) \in Nat
  BY <1>1, <1>2 DEF KeptOf
<1>4. CASE ~(ring[n + 1].seq > cur)
  BY <1>1, <1>4 DEF KeptOf
<1>5. CASE ring[n + 1].seq > cur
  <2>1. ASSUME NEW k \in 1..Len(s) PROVE Before(s[k], e)
    <3>1. PICK i \in 1..n : s[k] = ring[i]
      BY DEF KeptOf
    <3>2. /\ ring[i].seq + Len(ring) = seq + i /\ ring[i].epoch = epoch
          /\ e.seq + Len(ring) = seq + (n + 1) /\ e.epoch = epoch
      BY <1>1 DEF RingIsRecent
    <3>4. ring[i].seq \in Nat /\ e.seq \in Nat /\ i < n + 1 /\ i \in Nat
      <4>1. i \in 1..Len(ring)
        BY <1>1
      <4>2. ring[i] \in Event
        BY <1>2, <4>1
      <4>3. i < n + 1 /\ i \in Nat
        BY <1>1
      <4>4. e.seq \in Nat /\ ring[i].seq \in Nat
        <5> HIDE DEF e
        <5> QED BY <1>3, <4>2 DEF Event
      <4> QED BY <4>3, <4>4
    <3>3. ring[i].seq < e.seq
      <4> DEFINE x == ring[i].seq
                 y == e.seq
                 l == Len(ring)
      <4>1. x \in Nat /\ y \in Nat /\ l \in Nat /\ x + l = seq + i /\ y + l = seq + (n + 1)
        BY <1>1, <3>2, <3>4
      <4> HIDE DEF x, y, l
      <4>2. x < y
        BY <1>1, <3>4, <4>1
      <4> QED BY <4>2 DEF x, y
    <3> QED BY <3>1, <3>2, <3>3 DEF Before
  <2>2. /\ u \in Seq(Event) /\ Len(u) = Len(s) + 1 /\ u[Len(s) + 1] = e
        /\ \A k \in 1..Len(s) : u[k] = s[k]
        /\ InOrder(u)
    <3> HIDE DEF e
    <3> QED BY <1>3, <2>1, AppendInOrder
  <2> HIDE DEF u, e
  <2>3. \A k \in 1..Len(u) : \E i \in 1..(n + 1) : u[k] = ring[i]
    <3> TAKE k \in 1..Len(u)
    <3>1. CASE k = Len(s) + 1
      BY <1>1, <2>2, <3>1 DEF e
    <3>2. CASE k # Len(s) + 1
      <4>1. k \in 1..Len(s) /\ u[k] = s[k]
        BY <1>3, <2>2, <3>2
      <4>2. PICK i \in 1..n : s[k] = ring[i]
        BY <4>1 DEF KeptOf
      <4> QED BY <1>1, <4>1, <4>2
    <3> QED BY <3>1, <3>2
  <2>4. \A i \in 1..(n + 1) : ring[i].seq > cur => \E k \in 1..Len(u) : u[k] = ring[i]
    <3> TAKE i \in 1..(n + 1)
    <3> HAVE ring[i].seq > cur
    <3>1. CASE i = n + 1
      <4>1. Len(s) + 1 \in 1..Len(u)
        BY <1>3, <2>2
      <4> QED BY <2>2, <3>1, <4>1 DEF e
    <3>2. CASE i \in 1..n
      <4>1. PICK k \in 1..Len(s) : s[k] = ring[i]
        BY <3>2 DEF KeptOf
      <4>2. k \in 1..Len(u) /\ u[k] = s[k]
        BY <1>3, <2>2
      <4> QED BY <4>1, <4>2
    <3> QED BY <1>1, <3>1, <3>2
  <2>5. KeptOf(cur, n + 1, u)
    BY <2>2, <2>3, <2>4 DEF KeptOf
  <2> QED BY <1>5, <2>5 DEF u, e
<1> QED BY <1>4, <1>5

(* The replay is what the recursive definition says: there is a function    *)
(* that does.                                                               *)
LEMMA ReplayUnfolds ==
    ASSUME ring \in Seq(Event), NEW cur \in Nat
    PROVE  \E kept :
               /\ Replay(cur) = kept[Len(ring)]
               /\ kept[0] = <<>>
               /\ \A n \in 0..(Len(ring) - 1) :
                      kept[n + 1] = IF ring[n + 1].seq > cur
                                    THEN Append(kept[n], ring[n + 1]) ELSE kept[n]
<1> DEFINE L == Len(ring)
           More(n, k) == IF ring[n].seq > cur THEN Append(k, ring[n]) ELSE k
           Is(k, f) == f = [n \in 0..k |-> IF n = 0 THEN <<>> ELSE More(n, f[n - 1])]
           S == {k \in Nat : \E f : Is(k, f)}
<1>0. L \in Nat
  OBVIOUS
<1> HIDE DEF More
<1>1. 0 \in S
  <2>1. Is(0, [n \in 0..0 |-> <<>>])
    <3>1. \A n \in 0..0 : n = 0
      OBVIOUS
    <3> QED BY <3>1
  <2> QED BY <2>1
<1>2. ASSUME NEW k \in Nat, k \in S PROVE k + 1 \in S
  <2>1. PICK f : Is(k, f)
    BY <1>2
  <2> DEFINE g == [n \in 0..(k + 1) |-> IF n = k + 1 THEN More(k + 1, f[k]) ELSE f[n]]
  <2>2. /\ \A n \in 0..k : g[n] = f[n] /\ n \in 0..(k + 1)
        /\ g[k + 1] = More(k + 1, f[k]) /\ k \in 0..k /\ k + 1 \in Nat
        /\ k + 1 # 0 /\ (k + 1) - 1 = k
    OBVIOUS
  <2>3. g = [n \in 0..(k + 1) |-> g[n]]
    OBVIOUS
  <2> HIDE DEF g
  <2>4. ASSUME NEW n \in 0..(k + 1)
        PROVE  g[n] = IF n = 0 THEN <<>> ELSE More(n, g[n - 1])
    <3>1. CASE n = k + 1
      BY <2>2, <3>1
    <3>2. CASE n \in 0..k
      <4>1. f[n] = IF n = 0 THEN <<>> ELSE More(n, f[n - 1])
        BY <2>1, <3>2
      <4>2. n # 0 => n - 1 \in 0..k
        BY <3>2
      <4> QED BY <2>2, <3>2, <4>1, <4>2
    <3> QED BY <3>1, <3>2
  <2>5. Is(k + 1, g)
    BY <2>3, <2>4
  <2> HIDE DEF Is
  <2> QED BY <2>2, <2>5
<1>3. L \in S
  <2> HIDE DEF S, L
  <2>1. \A n \in 0..L : n \in S
    BY <1>0, <1>1, <1>2, UpTo
  <2> QED BY <1>0, <2>1
<1> DEFINE kept == CHOOSE f : Is(L, f)
<1>4. Is(L, kept)
  <2>1. \E f : Is(L, f)
    BY <1>3
  <2> HIDE DEF Is
  <2> QED BY <2>1
<1>5. Replay(cur) = kept[L]
  BY DEF Replay, More
<1> HIDE DEF kept
<1>6. kept[0] = <<>>
  BY <1>0, <1>4
<1>7. \A n \in 0..(L - 1) : kept[n + 1] = More(n + 1, kept[n])
  <2> TAKE n \in 0..(L - 1)
  <2>1. n + 1 \in 0..L /\ n + 1 # 0 /\ (n + 1) - 1 = n
    BY <1>0
  <2> QED BY <1>4, <2>1
<1> QED BY <1>5, <1>6, <1>7 DEF More

(* replay(): what the ring holds beyond the cursor, all of it, in order.    *)
LEMMA ReplayKeeps ==
    ASSUME TypeOK, RingIsRecent, NEW cur \in Nat
    PROVE  KeptOf(cur, Len(ring), Replay(cur))
<1>1. ring \in Seq(Event) /\ Len(ring) \in Nat
  BY DEF TypeOK
<1>2. PICK kept :
          /\ Replay(cur) = kept[Len(ring)]
          /\ kept[0] = <<>>
          /\ \A n \in 0..(Len(ring) - 1) :
                 kept[n + 1] = IF ring[n + 1].seq > cur
                               THEN Append(kept[n], ring[n + 1]) ELSE kept[n]
  BY <1>1, ReplayUnfolds
<1> DEFINE S == {n \in Nat : KeptOf(cur, n, kept[n])}
<1>3. 0 \in S
  <2>1. <<>> \in Seq(Event) /\ 1..Len(<<>>) = {} /\ 1..0 = {}
    OBVIOUS
  <2>2. KeptOf(cur, 0, <<>>)
    BY <2>1 DEF KeptOf, InOrder
  <2> QED BY <1>2, <2>2
<1>4. ASSUME NEW n \in 0..(Len(ring) - 1), n \in S PROVE n + 1 \in S
  <2>1. n + 1 \in Nat /\ KeptOf(cur, n, kept[n])
    BY <1>4
  <2>2. KeptOf(cur, n + 1, IF ring[n + 1].seq > cur
                           THEN Append(kept[n], ring[n + 1]) ELSE kept[n])
    BY <2>1, KeptOfOneMore
  <2> QED BY <1>2, <2>1, <2>2
<1>5. Len(ring) \in S
  <2> HIDE DEF S
  <2>1. \A n \in 0..Len(ring) : n \in S
    BY <1>1, <1>3, <1>4, UpTo
  <2> QED BY <1>1, <2>1
<1> QED BY <1>2, <1>5

(* The replay is cut behind a 'done', or not cut.                           *)
LEMMA UpToDoneCuts ==
    ASSUME NEW s \in Seq(Event)
    PROVE  LET u == UpToDone(s) IN
           /\ u \in Seq(Event) /\ Len(u) <= Len(s)
           /\ \A k \in 1..Len(u) : u[k] = s[k]
           /\ u = s \/ \E k \in 1..Len(u) : u[k].stage = Done
<1> DEFINE ends == {i \in 1..Len(s) : s[i].stage = Done}
           first == CHOOSE i \in ends : \A k \in ends : i <= k
<1>1. CASE ends = {}
  <2>1. UpToDone(s) = s
    BY <1>1 DEF UpToDone
  <2> QED BY <2>1
<1>2. CASE ends # {}
  <2>1. \E i \in ends : \A k \in ends : i <= k
    <3>1. ends \in SUBSET Nat
      OBVIOUS
    <3> HIDE DEF ends
    <3> QED BY <1>2, <3>1, LeastNumber
  <2>2. first \in ends
    <3> HIDE DEF ends
    <3> QED BY <2>1
  <2>3. UpToDone(s) = SubSeq(s, 1, first)
    BY <1>2 DEF UpToDone
  <2> HIDE DEF first
  <2>4. first \in 1..Len(s) /\ s[first].stage = Done
    BY <2>2
  <2> DEFINE u == SubSeq(s, 1, first)
  <2>5. /\ u \in Seq(Event) /\ Len(u) = first
        /\ \A k \in 1..first : u[k] = s[k]
    BY <2>4
  <2> HIDE DEF u
  <2>6. first \in 1..first /\ first <= Len(s)
    BY <2>4
  <2> QED BY <2>3, <2>4, <2>5, <2>6 DEF u
<1> QED BY <1>1, <1>2

-----------------------------------------------------------------------------
LEMMA InitInv == Init => Inv
<1> SUFFICES ASSUME Init PROVE Inv
  OBVIOUS
<1>1. TypeOK
  BY ProgressAssumption DEF Init, TypeOK
<1>2. RingIsRecent
  BY DEF Init, RingIsRecent
<1>3. \A t \in Turn : Follows(t) /\ Published(sent[t]) /\ InOrder(sent[t])
  BY DEF Init, Follows, Published, InOrder
<1>4. \A t \in Turn : stream[t] # "open"
  BY DEF Init
<1> QED BY <1>1, <1>2, <1>3, <1>4 DEF Inv

(* A step that leaves the bus and what has been sent: the streams may close *)
(* or be asked for.                                                         *)
LEMMA NothingIsSent ==
    ASSUME Inv, UNCHANGED <<seq, ring, epoch, sent>>, TypeOK',
           \A t \in Turn : Follows(t)',
           \A t \in Turn : stream'[t] = "open" =>
               stream[t] = "open" /\ since'[t] = since[t]
    PROVE  Inv'
<1>1. RingIsRecent'
  BY DEF Inv, RingIsRecent
<1>2. \A t \in Turn : Published(sent[t])' /\ InOrder(sent[t])'
  BY DEF Inv, Published, InOrder
<1>3. ASSUME NEW t \in Turn, stream'[t] = "open" PROVE Covers(sent[t], t)'
  <2>1. Covers(sent[t], t) /\ since'[t] = since[t]
    BY <1>3 DEF Inv
  <2> QED BY <2>1 DEF Covers
<1> QED BY <1>1, <1>2, <1>3 DEF Inv

(* Forgetting: the stream's later events carry a later epoch.               *)
LEMMA ForgetKeepsInv ==
    ASSUME Inv, Forget
    PROVE  Inv'
<1>1. /\ seq' = 0 /\ ring' = <<>> /\ epoch' = epoch + 1
      /\ UNCHANGED <<subscribers, run, at, since, stream, sent>>
      /\ UNCHANGED <<read, source, post, origin, cursor, busy>>
  BY DEF Forget, server, page
<1>2. /\ epoch \in Nat /\ Capacity \in Nat /\ 1..Len(<<>>) = {} /\ Len(<<>>) = 0
      /\ \A t \in Turn : \A k \in 1..Len(sent[t]) : sent[t][k].epoch \in Nat
  <2>1. ASSUME NEW t \in Turn, NEW k \in 1..Len(sent[t]) PROVE sent[t][k] \in Event
    BY DEF Inv, TypeOK
  <2> QED BY <2>1, ProgressAssumption DEF Inv, TypeOK, Event
<1>3. TypeOK'
  <2>1. ring' \in Seq(Event) /\ Len(ring') <= Capacity /\ seq' \in Nat /\ epoch' \in Nat
    BY <1>1, <1>2
  <2> QED BY <1>1, <2>1 DEF Inv, TypeOK
<1>4. RingIsRecent'
  BY <1>1, <1>2 DEF RingIsRecent
<1>5. ASSUME NEW t \in Turn PROVE Follows(t)' /\ Published(sent[t])' /\ InOrder(sent[t])'
  <2>1. Follows(t) /\ Published(sent[t]) /\ InOrder(sent[t])
    BY DEF Inv
  <2>2. ASSUME NEW k \in 1..Len(sent[t]) PROVE sent[t][k].epoch < epoch'
    <3>1. sent[t][k].epoch <= epoch
      BY <1>2, <2>1 DEF Published
    <3> QED BY <1>1, <1>2, <3>1
  <2> QED BY <1>1, <2>1, <2>2 DEF Follows, Published, InOrder
<1>6. \A t \in Turn : Covers(sent[t], t)'
  BY <1>1, <1>2 DEF Covers
<1> QED BY <1>3, <1>4, <1>5, <1>6 DEF Inv

(* Publishing: every open stream is a live one.                             *)
LEMMA PublishKeepsInv ==
    ASSUME Inv, NEW stage \in 1..Done, Publish(stage),
           UNCHANGED <<since, page>>,
           run' \in [Turn -> {"none", "running", "finished"}],
           at' \in [Turn -> 0..Stages],
           \A t \in Turn : run'[t] = "none" => run[t] = "none"
    PROVE  Inv'
<1> DEFINE e == [seq |-> seq + 1, stage |-> stage, epoch |-> epoch]
           live == {t \in subscribers : stream[t] = "open"}
<1>1. /\ seq' = seq + 1 /\ ring' = Push(ring, e) /\ UNCHANGED <<subscribers, epoch>>
      /\ sent' = [t \in Turn |-> IF t \in live THEN Append(sent[t], e) ELSE sent[t]]
      /\ stream' = [t \in Turn |-> IF t \in live /\ stage = Done
                                   THEN "closed" ELSE stream[t]]
  BY DEF Publish
<1>2. TypeOK /\ RingIsRecent /\ seq \in Nat /\ epoch \in Nat
  BY DEF Inv, TypeOK
<1>3. e \in Event /\ e.seq = seq + 1 /\ e.epoch = epoch
  BY <1>2 DEF Event
<1> HIDE DEF e
<1>4. /\ ring' \in Seq(Event) /\ Len(ring') <= Capacity /\ Len(ring') <= seq'
      /\ \A i \in 1..Len(ring') : /\ ring'[i].seq + Len(ring') = seq' + i
                                  /\ ring'[i].epoch = epoch'
                                  /\ ring'[i] = e \/ \E j \in 1..Len(ring) : ring'[i] = ring[j]
  BY <1>1, <1>2, <1>3, PushKeepsRecent
<1>5. ASSUME NEW t \in Turn
      PROVE  /\ sent'[t] \in Seq(Event) /\ Len(sent[t]) <= Len(sent'[t])
             /\ \A k \in 1..Len(sent[t]) : sent'[t][k] = sent[t][k]
             /\ t \in live => Len(sent'[t]) = Len(sent[t]) + 1
                              /\ sent'[t][Len(sent[t]) + 1] = e
             /\ t \notin live => sent'[t] = sent[t]
             /\ Published(sent[t])' /\ InOrder(sent[t])'
  <2>1. /\ sent[t] \in Seq(Event) /\ Len(sent[t]) \in Nat
        /\ Published(sent[t]) /\ InOrder(sent[t])
    BY DEF Inv, TypeOK
  <2>2. \A k \in 1..Len(sent[t]) : Before(sent[t][k], e)
    <3> TAKE k \in 1..Len(sent[t])
    <3>1. sent[t][k] \in Event
      BY <2>1
    <3>2. sent[t][k].epoch < epoch \/ (sent[t][k].epoch = epoch /\ sent[t][k].seq <= seq)
      BY <2>1 DEF Published
    <3>3. sent[t][k].seq \in Nat
      BY <3>1 DEF Event
    <3> QED BY <1>2, <1>3, <3>2, <3>3 DEF Before
  <2>3. CASE t \in live
    <3>1. sent'[t] = Append(sent[t], e)
      BY <1>1, <2>3
    <3>2. /\ sent'[t] \in Seq(Event) /\ Len(sent'[t]) = Len(sent[t]) + 1
          /\ sent'[t][Len(sent[t]) + 1] = e
          /\ \A k \in 1..Len(sent[t]) : sent'[t][k] = sent[t][k]
          /\ InOrder(sent'[t])
      BY <1>3, <2>1, <2>2, <3>1, AppendInOrder
    <3>3. Published(sent[t])'
      <4> SUFFICES ASSUME NEW k \in 1..Len(sent'[t])
                   PROVE  \/ sent'[t][k].epoch < epoch'
                          \/ sent'[t][k].epoch = epoch' /\ sent'[t][k].seq <= seq'
        BY DEF Published
      <4>1. CASE k = Len(sent[t]) + 1
        BY <1>1, <1>2, <1>3, <3>2, <4>1
      <4>2. CASE k # Len(sent[t]) + 1
        <5>1. k \in 1..Len(sent[t]) /\ sent'[t][k] = sent[t][k]
          BY <2>1, <3>2, <4>2
        <5>2. sent[t][k] \in Event
          BY <2>1, <5>1
        <5>3. sent[t][k].seq \in Nat
          BY <5>2 DEF Event
        <5>4. sent[t][k].epoch < epoch \/ (sent[t][k].epoch = epoch /\ sent[t][k].seq <= seq)
          BY <2>1, <5>1 DEF Published
        <5> QED BY <1>1, <1>2, <5>1, <5>3, <5>4
      <4> QED BY <4>1, <4>2
    <3>4. Len(sent[t]) <= Len(sent'[t])
      BY <2>1, <3>2
    <3>5. InOrder(sent[t])'
      BY <3>2 DEF InOrder
    <3> QED BY <2>3, <3>2, <3>3, <3>4, <3>5
  <2>4. CASE t \notin live
    <3>1. sent'[t] = sent[t]
      BY <1>1, <2>4
    <3>2. ASSUME NEW k \in 1..Len(sent'[t])
          PROVE  \/ sent'[t][k].epoch < epoch'
                 \/ sent'[t][k].epoch = epoch' /\ sent'[t][k].seq <= seq'
      <4>1. k \in 1..Len(sent[t]) /\ sent'[t][k] = sent[t][k]
        BY <3>1
      <4>2. sent[t][k] \in Event
        BY <2>1, <4>1
      <4>3. sent[t][k].seq \in Nat
        BY <4>2 DEF Event
      <4>4. sent[t][k].epoch < epoch \/ (sent[t][k].epoch = epoch /\ sent[t][k].seq <= seq)
        BY <2>1, <4>1 DEF Published
      <4> QED BY <1>1, <1>2, <4>1, <4>3, <4>4
    <3> QED BY <2>1, <2>4, <3>1, <3>2 DEF Published, InOrder
  <2> QED BY <2>3, <2>4
<1>6. TypeOK'
  <2>1. stream' \in [Turn -> {"none", "requested", "open", "closed"}]
    BY <1>1 DEF Inv, TypeOK
  <2>2. sent' \in [Turn -> Seq(Event)]
    BY <1>1, <1>5
  <2>3. \A t \in Turn : read[t] <= Len(sent'[t])
    <3> TAKE t \in Turn
    <3>1. /\ read[t] \in Nat /\ Len(sent[t]) \in Nat /\ Len(sent'[t]) \in Nat
          /\ read[t] <= Len(sent[t]) /\ Len(sent[t]) <= Len(sent'[t])
      BY <1>5 DEF Inv, TypeOK
    <3> QED BY <3>1
  <2>4. seq' \in Nat /\ epoch' \in Nat
    BY <1>1, <1>2
  <2> QED BY <1>1, <1>4, <2>1, <2>2, <2>3, <2>4 DEF Inv, TypeOK, page
<1>7. RingIsRecent'
  BY <1>4 DEF RingIsRecent
<1>8. ASSUME NEW t \in Turn PROVE Follows(t)'
  BY <1>1 DEF Inv, Follows
<1>9. ASSUME NEW t \in Turn, stream'[t] = "open" PROVE Covers(sent[t], t)'
  <2>1. stream[t] = "open" /\ t \in live /\ Covers(sent[t], t)
    BY <1>1, <1>9 DEF Inv, Follows
  <2>2. Len(sent[t]) \in Nat /\ Len(sent[t]) + 1 \in 1..Len(sent'[t])
    BY <1>5, <2>1 DEF Inv, TypeOK
  <2> SUFFICES ASSUME NEW i \in 1..Len(ring'), ring'[i].seq > since[t]
               PROVE  \E k \in 1..Len(sent'[t]) : sent'[t][k] = ring'[i]
    BY DEF Covers
  <2>3. CASE ring'[i] = e
    BY <1>5, <2>1, <2>2, <2>3
  <2>4. CASE \E j \in 1..Len(ring) : ring'[i] = ring[j]
    <3>1. PICK k \in 1..Len(sent[t]) : sent[t][k] = ring'[i]
      BY <2>1, <2>4 DEF Covers
    <3>2. k \in 1..Len(sent'[t]) /\ sent'[t][k] = sent[t][k]
      BY <1>5, <2>1, <2>2
    <3> QED BY <3>1, <3>2
  <2> QED BY <1>4, <2>3, <2>4
<1> QED BY <1>5, <1>6, <1>7, <1>8, <1>9 DEF Inv

(* Connecting: the replay is all the ring holds beyond the cursor, unless a *)
(* 'done' closes the stream.                                                *)
LEMMA ConnectKeepsInv ==
    ASSUME Inv, NEW t \in Turn, Connect(t)
    PROVE  Inv'
<1> DEFINE replay == Replay(since[t])
           missed == UpToDone(replay)
           ended == \E i \in 1..Len(missed) : missed[i].stage = Done
<1>1. /\ stream[t] = "requested"
      /\ sent' = [sent EXCEPT ![t] = missed]
      /\ stream' = [stream EXCEPT ![t] = IF ended THEN "closed" ELSE "open"]
      /\ subscribers' = IF ended THEN subscribers ELSE subscribers \cup {t}
      /\ UNCHANGED <<seq, ring, epoch, run, at, since>>
      /\ UNCHANGED <<read, source, post, origin, cursor, busy>>
  BY DEF Connect, page
<1>2. /\ TypeOK /\ RingIsRecent /\ since[t] \in Nat /\ seq \in Nat
      /\ ring \in Seq(Event)
  BY DEF Inv, TypeOK
<1>3. KeptOf(since[t], Len(ring), replay)
  BY <1>2, ReplayKeeps
<1> HIDE DEF replay
<1>4. /\ missed \in Seq(Event) /\ Len(missed) <= Len(replay)
      /\ \A k \in 1..Len(missed) : missed[k] = replay[k]
      /\ missed = replay \/ ended
  BY <1>3, UpToDoneCuts DEF KeptOf
<1>5. replay \in Seq(Event)
  BY <1>3 DEF KeptOf
<1> HIDE DEF missed
<1>6. Len(missed) \in Nat /\ 1..Len(missed) \subseteq 1..Len(replay)
  BY <1>4, <1>5
<1>7. InOrder(missed)
  BY <1>3, <1>4, <1>6 DEF KeptOf, InOrder
<1>8. Published(missed)
  <2> SUFFICES ASSUME NEW k \in 1..Len(missed)
               PROVE  missed[k].epoch = epoch /\ missed[k].seq <= seq
    BY DEF Published
  <2>1. PICK i \in 1..Len(ring) : missed[k] = ring[i]
    BY <1>3, <1>4, <1>6 DEF KeptOf
  <2>2. ring[i].seq + Len(ring) = seq + i /\ ring[i].epoch = epoch
    BY <1>2 DEF RingIsRecent
  <2>3. ring[i] \in Event
    BY <1>2
  <2> DEFINE x == ring[i].seq
             l == Len(ring)
  <2>4. x \in Nat /\ l \in Nat /\ i \in Nat /\ i <= l /\ x + l = seq + i
    BY <1>2, <2>2, <2>3 DEF Event
  <2> HIDE DEF x, l
  <2>5. x <= seq
    BY <1>2, <2>4
  <2> QED BY <2>1, <2>2, <2>5 DEF x
<1>9. /\ sent'[t] = missed /\ stream'[t] = IF ended THEN "closed" ELSE "open"
      /\ \A x \in Turn \ {t} : sent'[x] = sent[x] /\ stream'[x] = stream[x]
  BY <1>1 DEF Inv, TypeOK
<1>10. sent[t] = <<>> /\ read[t] = 0
  <2>1. sent[t] = <<>>
    BY <1>1 DEF Inv, Follows
  <2>2. read[t] \in Nat /\ read[t] <= Len(sent[t])
    BY DEF Inv, TypeOK
  <2> QED BY <2>1, <2>2
<1>11. TypeOK'
  <2>1. sent' \in [Turn -> Seq(Event)]
    BY <1>1, <1>4 DEF Inv, TypeOK
  <2>2. /\ stream' \in [Turn -> {"none", "requested", "open", "closed"}]
        /\ subscribers' \subseteq Turn
    BY <1>1 DEF Inv, TypeOK
  <2>3. \A x \in Turn : read'[x] <= Len(sent'[x])
    <3> TAKE x \in Turn
    <3>1. CASE x = t
      BY <1>1, <1>6, <1>9, <1>10, <3>1
    <3>2. CASE x # t
      BY <1>1, <1>9, <3>2 DEF Inv, TypeOK
    <3> QED BY <3>1, <3>2
  <2> HIDE DEF ended
  <2> QED BY <1>1, <2>1, <2>2, <2>3 DEF Inv, TypeOK
<1>12. RingIsRecent'
  BY <1>1 DEF Inv, RingIsRecent
<1>13. ASSUME NEW x \in Turn
       PROVE  Follows(x)' /\ Published(sent[x])' /\ InOrder(sent[x])'
  <2>1. Follows(x) /\ Published(sent[x]) /\ InOrder(sent[x])
    BY DEF Inv
  <2>2. CASE x = t
    <3>1. Published(sent[x])' /\ InOrder(sent[x])'
      BY <1>1, <1>7, <1>8, <1>9, <2>2 DEF Published, InOrder
    <3>2. Follows(x)'
      <4> HIDE DEF ended
      <4> QED BY <1>1, <1>9, <2>1, <2>2 DEF Follows
    <3> QED BY <3>1, <3>2
  <2>3. CASE x # t
    <3>1. Published(sent[x])' /\ InOrder(sent[x])'
      BY <1>1, <1>9, <2>1, <2>3 DEF Published, InOrder
    <3>2. Follows(x)'
      <4> HIDE DEF ended
      <4> QED BY <1>1, <1>9, <2>1, <2>3 DEF Follows
    <3> QED BY <3>1, <3>2
  <2> QED BY <2>2, <2>3
<1>14. ASSUME NEW x \in Turn, stream'[x] = "open" PROVE Covers(sent[x], x)'
  <2>1. CASE x = t
    <3>1. missed = replay
      BY <1>4, <1>9, <1>14, <2>1
    <3>2. \A i \in 1..Len(ring) : ring[i].seq > since[t] =>
              \E k \in 1..Len(missed) : missed[k] = ring[i]
      BY <1>3, <3>1 DEF KeptOf
    <3> QED BY <1>1, <1>9, <2>1, <3>2 DEF Covers
  <2>2. CASE x # t
    <3>1. Covers(sent[x], x)
      BY <1>9, <1>14, <2>2 DEF Inv
    <3> QED BY <1>1, <1>9, <2>2, <3>1 DEF Covers
  <2> QED BY <2>1, <2>2
<1> QED BY <1>11, <1>12, <1>13, <1>14 DEF Inv

(* The turn on the server: a stage, or the end.                             *)
LEMMA TurnKeepsInv ==
    ASSUME Inv, NEW t \in Turn, Emit(t) \/ Finish(t)
    PROVE  Inv'
<1>1. CASE Emit(t)
  <2>1. at[t] + 1 \in 1..Done /\ at[t] + 1 \in 0..Stages
    BY <1>1, ProgressAssumption DEF Emit, Inv, TypeOK, Done
  <2>2. /\ Publish(at[t] + 1) /\ at' = [at EXCEPT ![t] = at[t] + 1]
        /\ UNCHANGED <<run, since, page>>
    BY <1>1 DEF Emit
  <2>3. /\ at' \in [Turn -> 0..Stages]
        /\ run' \in [Turn -> {"none", "running", "finished"}]
    BY <2>1, <2>2 DEF Inv, TypeOK
  <2> QED BY <2>1, <2>2, <2>3, PublishKeepsInv
<1>2. CASE Finish(t)
  <2>1. Done \in 1..Done
    BY ProgressAssumption DEF Done
  <2>2. /\ Publish(Done) /\ run' = [run EXCEPT ![t] = "finished"]
        /\ UNCHANGED <<at, since, page>>
    BY <1>2 DEF Finish
  <2>3. /\ at' \in [Turn -> 0..Stages]
        /\ run' \in [Turn -> {"none", "running", "finished"}]
        /\ \A x \in Turn : run'[x] = "none" => run[x] = "none"
    BY <2>2 DEF Inv, TypeOK
  <2> QED BY <2>1, <2>2, <2>3, PublishKeepsInv
<1> QED BY <1>1, <1>2

(* The page, and the ways a stream ends without an event.                   *)
LEMMA PageKeepsInv ==
    ASSUME Inv, NEW t \in Turn,
           \/ Submit(t) \/ Disconnect(t) \/ HardStop(t)
           \/ Receive(t) \/ LoseSource(t) \/ EndPost(t)
    PROVE  Inv'
<1>0. TypeOK /\ \A x \in Turn : Follows(x)
  BY DEF Inv
<1>1. CASE Submit(t)
  <2>1. /\ run[t] = "none"
        /\ busy' = [busy EXCEPT ![origin[t]] = t]
        /\ since' = [since EXCEPT ![t] = cursor[origin[t]]]
        /\ stream' = [stream EXCEPT ![t] = "requested"]
        /\ source' = [source EXCEPT ![t] = "open"]
        /\ post' = [post EXCEPT ![t] = "waiting"]
        /\ run' = [run EXCEPT ![t] = "running"]
        /\ UNCHANGED <<seq, ring, subscribers, epoch, at, sent, read, origin, cursor>>
    BY <1>1 DEF Submit, bus
  <2>2. stream[t] = "none" /\ sent[t] = <<>>
    BY <1>0, <2>1 DEF Follows
  <2>3. TypeOK'
    <3>1. origin[t] \in Page /\ cursor[origin[t]] \in Nat
      BY <1>0 DEF TypeOK
    <3> QED BY <1>0, <2>1, <3>1 DEF TypeOK
  <2>4. \A x \in Turn : Follows(x)'
    <3> TAKE x \in Turn
    <3>1. CASE x = t
      BY <1>0, <2>1, <2>2, <3>1 DEF Follows, TypeOK
    <3>2. CASE x # t
      BY <1>0, <2>1, <3>2 DEF Follows, TypeOK
    <3> QED BY <3>1, <3>2
  <2>5. \A x \in Turn : stream'[x] = "open" => stream[x] = "open" /\ since'[x] = since[x]
    BY <1>0, <2>1 DEF TypeOK
  <2> QED BY <2>1, <2>3, <2>4, <2>5, NothingIsSent
<1>2. CASE Disconnect(t) \/ HardStop(t)
  <2>1. /\ stream[t] \in {"requested", "open"}
        /\ stream' = [stream EXCEPT ![t] = "closed"]
        /\ subscribers' \in {subscribers, subscribers \ {t}}
        /\ UNCHANGED <<seq, ring, epoch, run, at, since, sent, page>>
    BY <1>2 DEF Disconnect, HardStop, bus
  <2>2. TypeOK'
    <3>1. stream' \in [Turn -> {"none", "requested", "open", "closed"}]
      BY <1>0, <2>1 DEF TypeOK
    <3> QED BY <1>0, <2>1, <3>1 DEF TypeOK, page
  <2>3. \A x \in Turn : Follows(x)'
    <3> TAKE x \in Turn
    <3>1. CASE x = t
      BY <1>0, <2>1, <3>1 DEF Follows, TypeOK
    <3>2. CASE x # t
      BY <1>0, <2>1, <3>2 DEF Follows, TypeOK
    <3> QED BY <3>1, <3>2
  <2>4. \A x \in Turn : stream'[x] = "open" => stream[x] = "open" /\ since'[x] = since[x]
    BY <1>0, <2>1 DEF TypeOK
  <2> QED BY <2>1, <2>2, <2>3, <2>4, NothingIsSent
<1>3. CASE Receive(t)
  <2>1. /\ read[t] < Len(sent[t])
        /\ read' = [read EXCEPT ![t] = read[t] + 1]
        /\ cursor' = [cursor EXCEPT ![origin[t]]
                          = Larger(cursor[origin[t]], sent[t][read[t] + 1].seq)]
        /\ \E s \in {"closed", source[t]} : source' = [source EXCEPT ![t] = s]
        /\ UNCHANGED <<seq, ring, subscribers, epoch, run, at, since, stream, sent>>
        /\ UNCHANGED <<post, origin, busy>>
    BY <1>0, <1>3 DEF Receive, bus, server, TypeOK
  <2>2. TypeOK'
    <3>1. /\ sent[t] \in Seq(Event) /\ read[t] \in Nat /\ Len(sent[t]) \in Nat
          /\ origin[t] \in Page
      BY <1>0 DEF TypeOK
    <3>2. read[t] + 1 \in 1..Len(sent[t])
      BY <2>1, <3>1
    <3>3. sent[t][read[t] + 1] \in Event
      BY <3>1, <3>2
    <3>4. Larger(cursor[origin[t]], sent[t][read[t] + 1].seq) \in Nat
      BY <1>0, <3>1, <3>3 DEF TypeOK, Event, Larger
    <3>5. cursor' \in [Page -> Nat]
      BY <1>0, <2>1, <3>4 DEF TypeOK
    <3>6. read' \in [Turn -> Nat] /\ \A x \in Turn : read'[x] <= Len(sent'[x])
      BY <1>0, <2>1, <3>1, <3>2 DEF TypeOK
    <3>7. source' \in [Turn -> {"none", "open", "closed"}]
      BY <1>0, <2>1 DEF TypeOK
    <3> QED BY <1>0, <2>1, <3>5, <3>6, <3>7 DEF TypeOK
  <2>3. \A x \in Turn : Follows(x)'
    BY <1>0, <2>1 DEF Follows
  <2> QED BY <2>1, <2>2, <2>3, NothingIsSent
<1>4. CASE LoseSource(t) \/ EndPost(t)
  <2>1. /\ source' = [source EXCEPT ![t] = "closed"]
        /\ UNCHANGED <<seq, ring, subscribers, epoch, run, at, since, stream, sent>>
        /\ UNCHANGED <<read, origin, cursor>>
        /\ post' \in [Turn -> {"none", "waiting", "over"}]
        /\ busy' \in [Page -> Turn \cup {NoTurn}]
    BY <1>0, <1>4 DEF LoseSource, EndPost, bus, server, TypeOK
  <2>2. TypeOK'
    <3>1. source' \in [Turn -> {"none", "open", "closed"}]
      BY <1>0, <2>1 DEF TypeOK
    <3> QED BY <1>0, <2>1, <3>1 DEF TypeOK
  <2>3. \A x \in Turn : Follows(x)'
    BY <1>0, <2>1 DEF Follows
  <2> QED BY <2>1, <2>2, <2>3, NothingIsSent
<1> QED BY <1>1, <1>2, <1>3, <1>4

LEMMA NextInv == Inv /\ [Next]_vars => Inv'
<1> SUFFICES ASSUME Inv, [Next]_vars PROVE Inv'
  OBVIOUS
<1>1. CASE Forget
  BY <1>1, ForgetKeepsInv
<1>2. ASSUME NEW t \in Turn, Emit(t) \/ Finish(t) PROVE Inv'
  BY <1>2, TurnKeepsInv
<1>3. ASSUME NEW t \in Turn, Connect(t) PROVE Inv'
  BY <1>3, ConnectKeepsInv
<1>4. ASSUME NEW t \in Turn,
             \/ Submit(t) \/ Disconnect(t) \/ HardStop(t)
             \/ Receive(t) \/ LoseSource(t) \/ EndPost(t)
      PROVE  Inv'
  BY <1>4, PageKeepsInv
<1>5. ASSUME (\E p \in Page : Cancel(p)) \/ UNCHANGED vars PROVE Inv'
  <2>1. /\ UNCHANGED <<seq, ring, subscribers, epoch, run, at, since, stream, sent>>
        /\ UNCHANGED <<read, source, post, origin, cursor>>
        /\ busy' \in [Page -> Turn \cup {NoTurn}]
    BY <1>5 DEF Cancel, vars, bus, server, page, Inv, TypeOK
  <2>2. TypeOK'
    BY <2>1 DEF Inv, TypeOK
  <2>3. \A x \in Turn : Follows(x)'
    BY <2>1 DEF Inv, Follows
  <2> QED BY <2>1, <2>2, <2>3, NothingIsSent
<1> QED BY <1>1, <1>2, <1>3, <1>4, <1>5 DEF Next

LEMMA InvAlways == Spec => []Inv
<1> QED BY InitInv, NextInv, PTL DEF Spec

(* The bus, the streams and the pages keep their types; the ring never      *)
(* exceeds RING_CAPACITY and no page reads beyond what its stream was sent. *)
THEOREM TypeCorrect == Spec => []TypeOK
<1>1. Inv => TypeOK
  BY DEF Inv
<1> QED BY <1>1, InvAlways, PTL

(* For any interleaving of the POST, the connection, other turns' events,   *)
(* and the bus forgetting: a stream that is open has been sent all the ring *)
(* holds beyond the cursor its page connected with.                         *)
THEOREM NoGapAtConnection == Spec => []NothingMissed
<1>1. Inv => NothingMissed
  BY DEF Inv, NothingMissed, Covers
<1> QED BY <1>1, InvAlways, PTL

(* What a stream is sent, replayed or live, is in the order of publication  *)
(* and without repetition, also when the bus has begun to count again.      *)
THEOREM SentOnce == Spec => []SentOnceInOrder
<1>1. Inv => SentOnceInOrder
  BY DEF Inv, SentOnceInOrder, InOrder, Before
<1> QED BY <1>1, InvAlways, PTL
=============================================================================
