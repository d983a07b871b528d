---------------------------- MODULE TurnProgress ----------------------------
(***************************************************************************)
(* The progress of a chat turn, from the bus (apps/api/src/answers/         *)
(* turnProgress.ts) over the event stream (apps/api/src/app.ts) to the      *)
(* pages that show it (apps/web/src/chat/ChatContainer.tsx).                *)
(*                                                                         *)
(* One conversation, several pages.  A submission opens an event stream and *)
(* posts the question; the two requests race each other and the pages.      *)
(* Publishing, and connecting with its replay, run without an await and are *)
(* one action each; the way to the page is a queue.  The bus forgets the    *)
(* conversation when it has been idle or others push it out: from here,     *)
(* at any time.                                                             *)
(***************************************************************************)
EXTENDS Naturals, Sequences

CONSTANTS
    Page,         \* browser pages that show the conversation
    Turn,         \* submissions
    NoTurn,       \* the page waits for nothing
    Stages,       \* how many stages there are before 'done'
    Capacity,     \* RING_CAPACITY
    Fragile,      \* bound: turns that may be cancelled or lose their stream
    MaxForgets    \* bound: how often the bus forgets the conversation

ASSUME ProgressAssumption ==
    /\ NoTurn \notin Turn /\ Fragile \subseteq Turn
    /\ Stages \in Nat \ {0} /\ Capacity \in Nat \ {0} /\ MaxForgets \in Nat

VARIABLES
    seq, ring,      \* the bus: seqs and buffers of the conversation
    subscribers,    \* the bus: streams that listen
    epoch,          \* history: how often the bus has forgotten
    run, at,        \* the turn on the server and the last stage it published
    since, stream,  \* the stream on the server: its cursor at connection, its state
    sent,           \* what the stream has been sent, in order
    read,           \* how much of it the page has read
    source, post,   \* the page's EventSource and its POST
    origin,         \* the page of the turn
    cursor, busy    \* per page: progressSeqRef and the turn it waits for

bus == <<seq, ring, subscribers, epoch>>
server == <<run, at, since, stream, sent>>
page == <<read, source, post, origin, cursor, busy>>
vars == <<bus, server, page>>

Done == Stages + 1
Event == [seq : Nat, stage : 1..Done, epoch : Nat]

TypeOK ==
    /\ seq \in Nat /\ epoch \in Nat
    /\ ring \in Seq(Event) /\ Len(ring) <= Capacity
    /\ subscribers \subseteq Turn
    /\ run \in [Turn -> {"none", "running", "finished"}]
    /\ at \in [Turn -> 0..Stages]
    /\ since \in [Turn -> Nat]
    /\ stream \in [Turn -> {"none", "requested", "open", "closed"}]
    /\ sent \in [Turn -> Seq(Event)]
    /\ read \in [Turn -> Nat] /\ \A t \in Turn : read[t] <= Len(sent[t])
    /\ source \in [Turn -> {"none", "open", "closed"}]
    /\ post \in [Turn -> {"none", "waiting", "over"}]
    /\ origin \in [Turn -> Page]
    /\ cursor \in [Page -> Nat]
    /\ busy \in [Page -> Turn \cup {NoTurn}]

Init ==
    /\ seq = 0 /\ ring = <<>> /\ subscribers = {} /\ epoch = 0
    /\ run = [t \in Turn |-> "none"]
    /\ at = [t \in Turn |-> 0]
    /\ since = [t \in Turn |-> 0]
    /\ stream = [t \in Turn |-> "none"]
    /\ sent = [t \in Turn |-> <<>>]
    /\ read = [t \in Turn |-> 0]
    /\ source = [t \in Turn |-> "none"]
    /\ post = [t \in Turn |-> "none"]
    /\ origin \in [Turn -> Page]
    /\ cursor = [p \in Page |-> 0]
    /\ busy = [p \in Page |-> NoTurn]

Larger(m, n) == IF m > n THEN m ELSE n

-----------------------------------------------------------------------------
(* The bus.                                                                 *)

(* Mutant: the ring grows with the conversation.                            *)
PushAll(events, e) == Append(events, e)

Push(events, e) ==
    IF Len(events) < Capacity THEN Append(events, e) ELSE Append(Tail(events), e)

(* Mutant: an event is numbered by its place in the ring.                   *)
PublishByPlace(stage) ==
    LET e == [seq |-> Len(ring) + 1, stage |-> stage, epoch |-> epoch]
        live == {t \in subscribers : stream[t] = "open"}
    IN
    /\ seq' = seq + 1
    /\ ring' = Push(ring, e)
    /\ sent' = [t \in Turn |-> IF t \in live THEN Append(sent[t], e) ELSE sent[t]]
    /\ stream' = [t \in Turn |-> IF t \in live /\ stage = Done
                                 THEN "closed" ELSE stream[t]]
    /\ UNCHANGED <<subscribers, epoch>>

(* Every subscriber gets the event unless its stream has closed; 'done'     *)
(* closes the stream and leaves the subscription.                           *)
Publish(stage) ==
    LET e == [seq |-> seq + 1, stage |-> stage, epoch |-> epoch]
        live == {t \in subscribers : stream[t] = "open"}
    IN
    /\ seq' = seq + 1
    /\ ring' = Push(ring, e)
    /\ sent' = [t \in Turn |-> IF t \in live THEN Append(sent[t], e) ELSE sent[t]]
    /\ stream' = [t \in Turn |-> IF t \in live /\ stage = Done
                                 THEN "closed" ELSE stream[t]]
    /\ UNCHANGED <<subscribers, epoch>>

(* prune: buffer, counter and activity go, the subscribers stay.            *)
Forget ==
    /\ seq > 0 /\ epoch < MaxForgets
    /\ seq' = 0 /\ ring' = <<>> /\ epoch' = epoch + 1
    /\ UNCHANGED <<subscribers, server, page>>

-----------------------------------------------------------------------------
(* The turn on the server.                                                  *)

Emit(t) ==
    /\ run[t] = "running" /\ at[t] < Stages
    /\ at' = [at EXCEPT ![t] = @ + 1]
    /\ Publish(at[t] + 1)
    /\ UNCHANGED <<run, since, page>>

(* The turn answers, abstains or throws after any of its stages: 'done'     *)
(* follows its transaction either way.                                      *)
Finish(t) ==
    /\ run[t] = "running"
    /\ run' = [run EXCEPT ![t] = "finished"]
    /\ Publish(Done)
    /\ UNCHANGED <<at, since, page>>

-----------------------------------------------------------------------------
(* The event stream.                                                        *)

(* The events the bus still knows beyond the cursor, oldest first.          *)
Replay(cur) ==
    LET kept[n \in 0..Len(ring)] ==
            IF n = 0 THEN <<>>
            ELSE IF ring[n].seq > cur THEN Append(kept[n - 1], ring[n])
            ELSE kept[n - 1]
    IN  kept[Len(ring)]

UpToDone(events) ==
    LET ends == {i \in 1..Len(events) : events[i].stage = Done}
    IN  IF ends = {} THEN events
        ELSE SubSeq(events, 1, CHOOSE i \in ends : \A k \in ends : i <= k)

(* Mutant: the stream subscribes without a replay.                          *)
ConnectLive(t) ==
    /\ stream[t] = "requested" /\ source[t] = "open"
    /\ stream' = [stream EXCEPT ![t] = "open"]
    /\ subscribers' = subscribers \cup {t}
    /\ UNCHANGED <<seq, ring, epoch, run, at, since, sent, page>>

(* start(): what was missed is replayed, then the stream follows.  A 'done' *)
(* in the replay closes it before it subscribes.                            *)
Connect(t) ==
    LET missed == UpToDone(Replay(since[t]))
        ended == \E i \in 1..Len(missed) : missed[i].stage = Done
    IN
    /\ stream[t] = "requested" /\ source[t] = "open"
    /\ sent' = [sent EXCEPT ![t] = missed]
    /\ stream' = [stream EXCEPT ![t] = IF ended THEN "closed" ELSE "open"]
    /\ subscribers' = IF ended THEN subscribers ELSE subscribers \cup {t}
    /\ UNCHANGED <<seq, ring, epoch, run, at, since, page>>

(* cancel(): the page has gone, or the request never arrived.               *)
Disconnect(t) ==
    /\ source[t] = "closed" /\ stream[t] \in {"requested", "open"}
    /\ stream' = [stream EXCEPT ![t] = "closed"]
    /\ subscribers' = subscribers \ {t}
    /\ UNCHANGED <<seq, ring, epoch, run, at, since, sent, page>>

(* The hard stop closes the stream; it too leaves the subscription.         *)
HardStop(t) ==
    /\ t \in Fragile /\ stream[t] = "open"
    /\ stream' = [stream EXCEPT ![t] = "closed"]
    /\ UNCHANGED <<bus, run, at, since, sent, page>>

-----------------------------------------------------------------------------
(* The page.                                                                *)

(* handleSubmit: the stream is asked for first, the question posted next.   *)
Submit(t) ==
    LET p == origin[t] IN
    /\ run[t] = "none" /\ busy[p] = NoTurn
    /\ busy' = [busy EXCEPT ![p] = t]
    /\ since' = [since EXCEPT ![t] = cursor[p]]
    /\ stream' = [stream EXCEPT ![t] = "requested"]
    /\ source' = [source EXCEPT ![t] = "open"]
    /\ post' = [post EXCEPT ![t] = "waiting"]
    /\ run' = [run EXCEPT ![t] = "running"]
    /\ UNCHANGED <<bus, at, sent, read, origin, cursor>>

Receive(t) ==
    LET e == sent[t][read[t] + 1]
        p == origin[t]
    IN
    /\ source[t] = "open" /\ read[t] < Len(sent[t])
    /\ read' = [read EXCEPT ![t] = @ + 1]
    /\ cursor' = [cursor EXCEPT ![p] = Larger(@, e.seq)]
    /\ source' = [source EXCEPT ![t] = IF e.stage = Done THEN "closed" ELSE @]
    /\ UNCHANGED <<bus, server, post, origin, busy>>

(* onerror: the server has closed the stream, or the connection broke.      *)
LoseSource(t) ==
    /\ t \in Fragile /\ source[t] = "open"
    /\ source' = [source EXCEPT ![t] = "closed"]
    /\ UNCHANGED <<bus, server, read, post, origin, cursor, busy>>

(* Mutant: no `finally` closes the source.                                  *)
EndPostOnly(t) ==
    /\ post[t] = "waiting"
    /\ post' = [post EXCEPT ![t] = "over"]
    /\ busy' = [p \in Page |-> IF busy[p] = t THEN NoTurn ELSE busy[p]]
    /\ UNCHANGED <<bus, server, read, source, origin, cursor>>

(* The POST is answered, or fails while the turn goes on; the source is     *)
(* closed whatever the outcome.                                             *)
EndPost(t) ==
    /\ post[t] = "waiting"
    /\ post' = [post EXCEPT ![t] = "over"]
    /\ source' = [source EXCEPT ![t] = "closed"]
    /\ busy' = [p \in Page |-> IF busy[p] = t THEN NoTurn ELSE busy[p]]
    /\ UNCHANGED <<bus, server, read, origin, cursor>>

(* handleCancel: the page is free again, its requests go on.                *)
Cancel(p) ==
    /\ busy[p] \in Fragile
    /\ busy' = [busy EXCEPT ![p] = NoTurn]
    /\ UNCHANGED <<bus, server, read, source, post, origin, cursor>>

-----------------------------------------------------------------------------
Next ==
    \/ Forget
    \/ \E t \in Turn :
           \/ Submit(t) \/ Emit(t) \/ Finish(t)
           \/ Connect(t) \/ Disconnect(t) \/ HardStop(t)
           \/ Receive(t) \/ LoseSource(t) \/ EndPost(t)
    \/ \E p \in Page : Cancel(p)

Spec == Init /\ [][Next]_vars

(* A turn ends and is answered (its attempts have timeouts), and the server *)
(* learns of a closed connection.  Nothing is asked of the hard stop, of    *)
(* the delivery of events or of the connection.                             *)
Fairness ==
    \A t \in Turn : /\ WF_vars(Finish(t))
                    /\ WF_vars(run[t] = "finished" /\ EndPost(t))
                    /\ WF_vars(Disconnect(t))

FairSpec == Spec /\ Fairness

-----------------------------------------------------------------------------
(* Properties.                                                              *)

(* "combine with replay(since) for at-least-once delivery across the        *)
(* connect gap", turnProgress.ts:83-85: whatever the order of the POST, the *)
(* connection and the events of other turns, an open stream has been sent   *)
(* everything the bus still knows beyond the page's cursor.                 *)
NothingMissed ==
    \A t \in Turn : stream[t] = "open" =>
        \A i \in 1..Len(ring) : ring[i].seq > since[t] =>
            \E k \in 1..Len(sent[t]) : sent[t][k] = ring[i]

(* ... and nothing twice or out of order, whether replayed or live, even    *)
(* when the counter starts again under the stream.                          *)
SentOnceInOrder ==
    \A t \in Turn : \A i, k \in 1..Len(sent[t]) : i < k =>
        LET a == sent[t][i]
            b == sent[t][k]
        IN  a.epoch < b.epoch \/ (a.epoch = b.epoch /\ a.seq < b.seq)

(* "the SSE lifecycle is bounded to the turn regardless of outcome",        *)
(* ChatContainer.tsx:1352: without the help of the hard stop, every stream  *)
(* is closed, the ones of cancelled and forgotten turns too.                *)
StreamsEnd == \A t \in Turn : (stream[t] = "open") ~> (stream[t] = "closed")
=============================================================================
