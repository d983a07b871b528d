----------------------------- MODULE SourceProofs -----------------------------
(***************************************************************************)
(* Proofs about SourceReview, for any requests, contents and bounds.        *)
(*                                                                         *)
(* No request locks what it reads, so what a request has seen only counts   *)
(* where no other request can undo it: a revision stays, a stored object    *)
(* stays, a recorded decision stays.  Placed says what of that a request    *)
(* relies on at each place.  The exception is the row a deprecation has     *)
(* linked: it is locked, and therefore active until the deprecation ends.   *)
(***************************************************************************)
EXTENDS SourceReview, WellFoundedInduction, TLAPS

Place == {"idle", "upload.put", "upload.max", "upload.insert", "review.insert",
          "review.update", "deprecate.link", "deprecate.update", "compile.commit"}
Op == Decision \cup {"none", "upload", "deprecate", "compile"}

Req == [at : Place, op : Op,
        rev : Revision \cup {NoRevision}, other : Revision \cup {NoRevision},
        content : Content \cup {"none"}, seen : SUBSET Revision,
        attempt : 0..(MaxAttempts - 1)]

Row == [status : Status, replaces : Revision \cup {NoRevision},
        content : Content \cup {"none"}]

Typed ==
    /\ revision \in [Revision -> Row]
    /\ reviews \subseteq Existing \X Decision
    /\ stored \subseteq Content
    /\ index \subseteq Revision
    /\ request \in [Request -> Req]

Uploading == {"upload.put", "upload.max", "upload.insert"}
Reviewing == {"review.insert", "review.update"}
Deprecating == {"deprecate.link", "deprecate.update"}

(* What a request relies on at the place it has reached.                    *)
Placed(q) ==
    LET me == request[q] IN
    /\ me.at \in Uploading => me.content \in Content
    /\ me.at \in Uploading \ {"upload.put"} => me.content \in stored
    /\ me.at = "upload.insert" =>
           me.rev \in Revision /\ \A n \in Revision : n < me.rev => n \in Existing
    /\ me.at \in Reviewing => me.rev \in Existing /\ me.op \in Decision
    /\ me.at \in Deprecating => me.rev \in Existing
    /\ me.at = "deprecate.link" => me.other \in Revision
    /\ me.at = "deprecate.update" /\ me.other # NoRevision =>
           me.other # me.rev /\ revision[me.other].status = "active"
    /\ me.at = "compile.commit" => \A r \in me.seen : <<r, "approve">> \in reviews

(* What a revision replaces is deprecated, so that nothing is linked to it  *)
(* any more; and among any revisions one replaces none of them.             *)
ReplacedDeprecated ==
    \A r \in Revision : revision[r].replaces # NoRevision =>
        revision[revision[r].replaces].status = "deprecated"

ReplacesWellFounded ==
    \A S \in SUBSET Revision : S # {} => \E r \in S : revision[r].replaces \notin S

Inv ==
    /\ Typed
    /\ \A q \in Request : Placed(q)
    /\ AnswerableApproved
    /\ RejectedStaysOut
    /\ NumberedAndStored
    /\ ReplacedDeprecated
    /\ ReplacesWellFounded

-----------------------------------------------------------------------------
(* The least-number principle and, from it, induction over a set of         *)
(* numbers.                                                                 *)

LEMMA LeastNumber ==
    ASSUME NEW T \in SUBSET Nat, T # {}
    PROVE  \E x \in T : \A y \in T : x <= y
<1> DEFINE R == OpToRel(<, Nat)
<1>1. IsWellFoundedOn(R, Nat)
  BY NatLessThanWellFounded
<1>2. \A x, y \in Nat : y < x => <<y, x>> \in R
  BY DEF OpToRel
<1> HIDE DEF R
<1>3. PICK x \in T : \A y \in T : ~ (<<y, x>> \in R)
  BY <1>1, WFMin
<1>4. ASSUME NEW y \in T PROVE x <= y
  <2>1. x \in Nat /\ y \in Nat
    OBVIOUS
  <2>2. ~(y < x)
    BY <1>2, <1>3, <2>1
  <2> QED BY <2>1, <2>2
<1> QED BY <1>4

LEMMA SetInduction ==
    ASSUME NEW S, 0 \in S, \A n \in Nat : n \in S => n + 1 \in S
    PROVE  Nat \subseteq S
<1> SUFFICES ASSUME Nat \ S # {} PROVE FALSE
  OBVIOUS
<1>1. PICK x \in Nat \ S : \A y \in Nat \ S : x <= y
  BY LeastNumber
<1>2. x # 0 /\ x - 1 \in Nat /\ x - 1 \in S
  BY <1>1
<1> QED BY <1>1, <1>2

(* `select max(revision_no)`: the greatest number there is, 0 without one.  *)
LEMMA GreatestNumber ==
    ASSUME NEW N \in Nat, NEW S \in SUBSET 0..N, S # {}
    PROVE  /\ Max(S) \in S
           /\ \A x \in S : x <= Max(S)
<1> DEFINE Gaps == {N - x : x \in S}
<1>0. \A x \in S : x \in Int /\ N - x \in Nat
  OBVIOUS
<1>1. Gaps \in SUBSET Nat /\ Gaps # {}
  BY <1>0
<1>2. PICK d \in Gaps : \A e \in Gaps : d <= e
  <2> HIDE DEF Gaps
  <2> QED BY <1>1, LeastNumber
<1>3. PICK m \in S : d = N - m
  BY <1>2
<1>4. ASSUME NEW x \in S PROVE m >= x
  <2>1. N - m <= N - x
    BY <1>2, <1>3
  <2> QED BY <1>0, <2>1
<1>5. \E y \in S : \A x \in S : y >= x
  BY <1>4
<1>6. Max(S) \in S /\ \A x \in S : Max(S) >= x
  BY <1>5 DEF Max
<1> QED
  <2>1. Max(S) \in Int /\ \A x \in S : x \in Int
    BY <1>0, <1>6
  <2> QED BY <1>6, <2>1

-----------------------------------------------------------------------------
(* A request that moves on, while nothing else changes, keeps Inv if what   *)
(* it relies on from there is so.                                           *)
LEMMA OnlyARequestMoves ==
    ASSUME Inv, UNCHANGED <<revision, reviews, stored, index>>,
           NEW q \in Request, NEW me \in Req,
           request' = [request EXCEPT ![q] = me],
           Placed(q)'
    PROVE  Inv'
<1>1. Existing' = Existing /\ ActiveRevisions' = ActiveRevisions
  BY DEF Existing, ActiveRevisions
<1>2. Typed'
  BY <1>1 DEF Inv, Typed
<1>3. ASSUME NEW p \in Request PROVE Placed(p)'
  <2>1. CASE p = q
    BY <2>1
  <2>2. CASE p # q
    <3>1. request'[p] = request[p] /\ Placed(p)
      BY <2>2 DEF Inv, Typed
    <3> QED BY <1>1, <3>1 DEF Placed
  <2> QED BY <2>1, <2>2
<1>4. AnswerableApproved' /\ RejectedStaysOut' /\ NumberedAndStored'
  BY <1>1 DEF Inv, AnswerableApproved, RejectedStaysOut, NumberedAndStored
<1>5. ReplacedDeprecated' /\ ReplacesWellFounded'
  BY DEF Inv, ReplacedDeprecated, ReplacesWellFounded
<1> QED BY <1>2, <1>3, <1>4, <1>5 DEF Inv

LEMMA IdleTyped == Idle \in Req
<1>1. 0 \in 0..(MaxAttempts - 1)
  BY ReviewAssumption
<1> QED BY <1>1 DEF Idle, Req, Place, Op

LEMMA OnlyARequestEnds ==
    ASSUME Inv, UNCHANGED <<revision, reviews, stored, index>>,
           NEW q \in Request, End(q)
    PROVE  Inv'
<1>1. request' = [request EXCEPT ![q] = Idle] /\ request'[q] = Idle
  BY DEF Inv, Typed, End
<1>2. Placed(q)'
  BY <1>1 DEF Placed, Idle, Uploading, Reviewing, Deprecating
<1> QED BY <1>1, <1>2, IdleTyped, OnlyARequestMoves

(* What the others rely on outlives a step that keeps every row, decision   *)
(* and object, and the status of the rows they have locked.                 *)
LEMMA OthersStayPlaced ==
    ASSUME Inv, NEW q \in Request, NEW p \in Request \ {q},
           request'[p] = request[p],
           Existing \subseteq Existing', reviews \subseteq reviews',
           stored \subseteq stored',
           \A r \in Revision : RowHeldBy(r, p) /\ revision[r].status = "active"
               => revision'[r].status = "active"
    PROVE  Placed(p)'
<1>1. Placed(p) /\ request[p] \in Req
  BY DEF Inv, Typed
<1>2. request[p].at = "deprecate.update" /\ request[p].other # NoRevision =>
          /\ request[p].other # request[p].rev
          /\ revision'[request[p].other].status = "active"
  <2>1. request[p].other # NoRevision => request[p].other \in Revision
    BY <1>1 DEF Req
  <2> QED BY <1>1, <2>1 DEF Placed, RowHeldBy, At
<1>3. request[p].at \in Reviewing => request[p].rev \in Existing'
  BY <1>1 DEF Placed
<1>4. request[p].at \in Deprecating => request[p].rev \in Existing'
  BY <1>1 DEF Placed
<1>5. request[p].at = "upload.insert" =>
          /\ request[p].rev \in Revision
          /\ \A n \in Revision : n < request[p].rev => n \in Existing'
  BY <1>1 DEF Placed
<1>6. /\ request[p].at \in Uploading \ {"upload.put"} => request[p].content \in stored'
      /\ request[p].at = "compile.commit" =>
             \A r \in request[p].seen : <<r, "approve">> \in reviews'
  BY <1>1 DEF Placed
<1> QED BY <1>1, <1>2, <1>3, <1>4, <1>5, <1>6 DEF Placed

-----------------------------------------------------------------------------
LEMMA InitInv == Init => Inv
<1> SUFFICES ASSUME Init PROVE Inv
  OBVIOUS
<1>1. Typed
  BY IdleTyped DEF Init, Typed, Row, NoRow, Status, NoRevision
<1>2. \A q \in Request : Placed(q)
  BY DEF Init, Idle, Placed, Uploading, Reviewing, Deprecating
<1>3. Existing = {} /\ ActiveRevisions = {}
  BY DEF Init, NoRow, Existing, ActiveRevisions
<1>4. AnswerableApproved /\ RejectedStaysOut /\ NumberedAndStored
  BY <1>3 DEF Init, AnswerableApproved, RejectedStaysOut, NumberedAndStored
<1>5. \A r \in Revision : revision[r].replaces = NoRevision /\ r # NoRevision
  BY DEF Init, NoRow, Revision, NoRevision
<1>6. ReplacedDeprecated
  BY <1>5 DEF ReplacedDeprecated
<1>7. ReplacesWellFounded
  <2> SUFFICES ASSUME NEW S \in SUBSET Revision, S # {}
               PROVE  \E r \in S : revision[r].replaces \notin S
    BY DEF ReplacesWellFounded
  <2> QED BY <1>5
<1> QED BY <1>1, <1>2, <1>4, <1>6, <1>7 DEF Inv

(* Uploads.                                                                 *)
LEMMA UploadsKeepInv ==
    ASSUME Inv, NEW q \in Request,
           \/ \E c \in Content : BeginUpload(q, c)
           \/ PutObject(q) \/ ReadMax(q) \/ InsertRevision(q)
    PROVE  Inv'
<1>0. request[q] \in Req /\ Placed(q)
  BY DEF Inv, Typed
<1>1. ASSUME NEW c \in Content, BeginUpload(q, c) PROVE Inv'
  <2> DEFINE me == [Idle EXCEPT !.op = "upload", !.content = c,
                                !.at = IF c \in stored THEN "upload.max"
                                       ELSE "upload.put"]
  <2>1. /\ request' = [request EXCEPT ![q] = me]
        /\ UNCHANGED <<revision, reviews, stored, index>>
    BY <1>1 DEF BeginUpload, Begin
  <2>2. me \in Req
    BY IdleTyped DEF Req, Place, Op
  <2>3. /\ me.at \in {"upload.max", "upload.put"} /\ me.content = c
        /\ me.at = "upload.max" => c \in stored
    BY DEF Idle
  <2>4. request'[q] = me
    BY <2>1 DEF Inv, Typed
  <2> HIDE DEF me
  <2>5. Placed(q)'
    BY <2>1, <2>3, <2>4 DEF Placed, Uploading, Reviewing, Deprecating
  <2> QED BY <2>1, <2>2, <2>5, OnlyARequestMoves
<1>2. CASE PutObject(q)
  <2> DEFINE me == [request[q] EXCEPT !.at = "upload.max"]
  <2>1. /\ request' = [request EXCEPT ![q] = me]
        /\ stored' = stored \cup {request[q].content}
        /\ UNCHANGED <<revision, reviews, index>>
    BY <1>2 DEF PutObject, Goto
  <2>2. me \in Req /\ request'[q] = me
    BY <1>0, <2>1 DEF Req, Place, Inv, Typed
  <2>3. request[q].content \in Content
    BY <1>0, <1>2 DEF PutObject, At, Placed, Uploading
  <2>4. Existing' = Existing /\ ActiveRevisions' = ActiveRevisions
    BY <2>1 DEF Existing, ActiveRevisions
  <2>5. Typed'
    <3> HIDE DEF me
    <3> QED BY <2>1, <2>2, <2>3, <2>4 DEF Inv, Typed
  <2>6. ASSUME NEW p \in Request PROVE Placed(p)'
    <3>1. CASE p = q
      <4>1. me.at = "upload.max" /\ me.content = request[q].content
        BY <1>0 DEF Req
      <4> HIDE DEF me
      <4> QED BY <2>1, <2>2, <2>3, <3>1, <4>1
              DEF Placed, Uploading, Reviewing, Deprecating
    <3>2. CASE p # q
      <4>1. request'[p] = request[p]
        BY <2>1, <3>2 DEF Inv, Typed
      <4> QED BY <2>1, <2>4, <3>2, <4>1, OthersStayPlaced
    <3> QED BY <3>1, <3>2
  <2>7. AnswerableApproved' /\ RejectedStaysOut' /\ NumberedAndStored'
    BY <2>1, <2>4 DEF Inv, AnswerableApproved, RejectedStaysOut, NumberedAndStored
  <2>8. ReplacedDeprecated' /\ ReplacesWellFounded'
    BY <2>1 DEF Inv, ReplacedDeprecated, ReplacesWellFounded
  <2> QED BY <2>5, <2>6, <2>7, <2>8 DEF Inv
<1>3. CASE ReadMax(q)
  <2> DEFINE max == Max(Existing \cup {NoRevision})
             me == [request[q] EXCEPT !.at = "upload.insert", !.rev = max + 1]
  <2>1. UNCHANGED <<revision, reviews, stored, index>>
    BY <1>3 DEF ReadMax
  <2>2. CASE ~(max < MaxRevisions)
    BY <1>3, <2>1, <2>2, OnlyARequestEnds DEF ReadMax
  <2>3. CASE max < MaxRevisions
    <3>1. request' = [request EXCEPT ![q] = me]
      BY <1>3, <2>3 DEF ReadMax
    <3>2. /\ MaxRevisions \in Nat
          /\ Existing \cup {NoRevision} \in SUBSET (0..MaxRevisions)
          /\ Existing \cup {NoRevision} # {}
      BY ReviewAssumption DEF Existing, NoRevision, Revision
    <3>3. /\ max \in Existing \cup {NoRevision}
          /\ \A n \in Existing \cup {NoRevision} : n <= max
      BY <3>2, GreatestNumber
    <3> HIDE DEF max
    <3>4. max \in 0..MaxRevisions /\ max + 1 \in Revision
      BY <2>3, <3>2, <3>3 DEF Revision
    <3>5. \A n \in Revision : n < max + 1 => n \in Existing
      <4> TAKE n \in Revision
      <4> HAVE n < max + 1
      <4>1. n \in 1..max /\ max # NoRevision
        BY <3>4 DEF Revision, NoRevision
      <4> QED BY <3>3, <4>1 DEF Inv, NumberedAndStored
    <3>6. me \in Req /\ request'[q] = me
      BY <1>0, <3>1, <3>4 DEF Req, Place, Inv, Typed
    <3>7. /\ request[q].content \in Content /\ request[q].content \in stored
          /\ me.at = "upload.insert" /\ me.rev = max + 1
          /\ me.content = request[q].content
      BY <1>0, <1>3 DEF ReadMax, At, Placed, Uploading, Req
    <3> HIDE DEF me
    <3>8. Placed(q)'
      <4>1. Existing' = Existing
        BY <2>1 DEF Existing
      <4> QED BY <2>1, <3>4, <3>5, <3>6, <3>7, <4>1
              DEF Placed, Uploading, Reviewing, Deprecating
    <3> QED BY <2>1, <3>1, <3>6, <3>8, OnlyARequestMoves
  <2> QED BY <2>2, <2>3
<1>4. CASE InsertRevision(q)
  <2> DEFINE n == request[q].rev
             me == [request[q] EXCEPT !.at = "upload.max", !.attempt = @ + 1]
             row == [NoRow EXCEPT !.status = "pending_review",
                                  !.content = request[q].content]
  <2>1. /\ request[q].content \in Content /\ request[q].content \in stored
        /\ n \in Revision /\ \A k \in Revision : k < n => k \in Existing
    BY <1>0, <1>4 DEF InsertRevision, At, Placed, Uploading
  <2>2. UNCHANGED <<reviews, stored, index>>
    BY <1>4 DEF InsertRevision
  <2>3. CASE revision[n].status # "none" /\ ~(request[q].attempt + 1 < MaxAttempts)
    BY <1>4, <2>2, <2>3, OnlyARequestEnds DEF InsertRevision
  <2>4. CASE revision[n].status # "none" /\ request[q].attempt + 1 < MaxAttempts
    <3>1. request' = [request EXCEPT ![q] = me] /\ UNCHANGED revision
      BY <1>4, <2>4 DEF InsertRevision
    <3>2. request[q].attempt + 1 \in 0..(MaxAttempts - 1)
      <4>1. request[q].attempt \in 0..(MaxAttempts - 1)
        BY <1>0 DEF Req
      <4> QED BY <2>4, <4>1, ReviewAssumption
    <3>3. me \in Req /\ request'[q] = me
      BY <1>0, <3>1, <3>2 DEF Req, Place, Inv, Typed
    <3>4. me.at = "upload.max" /\ me.content = request[q].content
      BY <1>0 DEF Req
    <3> HIDE DEF me
    <3>5. Placed(q)'
      BY <2>1, <2>2, <3>3, <3>4 DEF Placed, Uploading, Reviewing, Deprecating
    <3> QED BY <2>2, <3>1, <3>3, <3>5, OnlyARequestMoves
  <2>5. CASE revision[n].status = "none"
    <3>1. revision' = [revision EXCEPT ![n] = row] /\ End(q)
      BY <1>4, <2>5 DEF InsertRevision
    <3>2. /\ row \in Row /\ row.status = "pending_review"
          /\ row.replaces = NoRevision /\ row.content = request[q].content
      BY <2>1 DEF NoRow, Row, Status, NoRevision
    <3> HIDE DEF row, n
    <3>3. /\ revision' \in [Revision -> Row] /\ revision'[n] = row
          /\ \A k \in Revision \ {n} : revision'[k] = revision[k]
      BY <2>1, <3>1, <3>2 DEF Inv, Typed
    <3>4. /\ Existing' = Existing \cup {n} /\ n \notin Existing
          /\ ActiveRevisions' = ActiveRevisions
      BY <2>1, <2>5, <3>2, <3>3 DEF Existing, ActiveRevisions
    <3>5. request' = [request EXCEPT ![q] = Idle] /\ request'[q] = Idle
      BY <3>1 DEF End, Inv, Typed
    <3>6. Typed'
      <4>1. request' \in [Request -> Req]
        BY <3>5, IdleTyped DEF Inv, Typed
      <4> QED BY <2>2, <3>3, <3>4, <4>1 DEF Inv, Typed
    <3>7. ASSUME NEW p \in Request PROVE Placed(p)'
      <4>1. CASE p = q
        BY <3>5, <4>1 DEF Placed, Idle, Uploading, Reviewing, Deprecating
      <4>2. CASE p # q
        <5>1. request'[p] = request[p]
          BY <3>5, <4>2 DEF Inv, Typed
        <5>2. \A r \in Revision : revision[r].status = "active"
                  => revision'[r].status = "active"
          BY <2>5, <3>3
        <5> QED BY <2>2, <3>4, <4>2, <5>1, <5>2, OthersStayPlaced
      <4> QED BY <4>1, <4>2
    <3>8. AnswerableApproved'
      BY <2>2, <3>4 DEF Inv, AnswerableApproved
    <3>9. RejectedStaysOut'
      <4>1. \A d \in Decision : <<n, d>> \notin reviews
        BY <3>4 DEF Inv, Typed
      <4> QED BY <2>2, <3>3, <4>1 DEF Inv, RejectedStaysOut, Decision
    <3>10. NumberedAndStored'
      <4>1. \A r \in Existing : revision'[r].content \in stored
        BY <3>3, <3>4 DEF Inv, NumberedAndStored, Existing
      <4>2. \A k \in 1..n : k \in Existing \cup {n}
        BY <2>1, ReviewAssumption DEF Revision
      <4> QED BY <2>1, <2>2, <3>2, <3>3, <3>4, <4>1, <4>2 DEF Inv, NumberedAndStored
    <3>11. ReplacedDeprecated'
      <4>1. \A r \in Revision : revision[r].replaces # NoRevision =>
                revision[r].replaces \in Revision \ {n}
        BY <2>5 DEF Inv, Typed, Row, ReplacedDeprecated
      <4> QED BY <3>2, <3>3, <4>1 DEF Inv, ReplacedDeprecated
    <3>12. ReplacesWellFounded'
      <4> SUFFICES ASSUME NEW S \in SUBSET Revision, S # {}
                   PROVE  \E r \in S : revision'[r].replaces \notin S
        BY DEF ReplacesWellFounded
      <4>1. PICK r \in S : revision[r].replaces \notin S
        BY DEF Inv, ReplacesWellFounded
      <4>2. NoRevision \notin S
        BY DEF Revision, NoRevision
      <4> QED BY <3>2, <3>3, <4>1, <4>2
    <3> QED BY <3>6, <3>7, <3>8, <3>9, <3>10, <3>11, <3>12 DEF Inv
  <2> QED BY <2>3, <2>4, <2>5
<1> QED BY <1>1, <1>2, <1>3, <1>4

(* Decisions.                                                               *)
LEMMA DecisionsKeepInv ==
    ASSUME Inv, NEW q \in Request,
           \/ \E r \in Revision, d \in Decision : BeginReview(q, r, d)
           \/ InsertReview(q) \/ CommitReview(q)
    PROVE  Inv'
<1>0. request[q] \in Req /\ Placed(q)
  BY DEF Inv, Typed
<1>1. ASSUME NEW r \in Revision, NEW d \in Decision, BeginReview(q, r, d)
      PROVE  Inv'
  <2> DEFINE me == [Idle EXCEPT !.at = "review.insert", !.op = d, !.rev = r]
  <2>1. /\ request' = [request EXCEPT ![q] = me]
        /\ UNCHANGED <<revision, reviews, stored, index>>
    BY <1>1 DEF BeginReview, Begin
  <2>2. me \in Req /\ request'[q] = me
    BY <2>1, IdleTyped DEF Req, Place, Op, Inv, Typed
  <2>3. me.at = "review.insert" /\ me.op = d /\ me.rev = r
    BY DEF Idle
  <2>4. r \in Existing /\ Existing' = Existing
    BY <1>1, <2>1 DEF BeginReview, FromStatus, Existing
  <2> HIDE DEF me
  <2>5. Placed(q)'
    BY <2>2, <2>3, <2>4 DEF Placed, Uploading, Reviewing, Deprecating
  <2> QED BY <2>1, <2>2, <2>5, OnlyARequestMoves
<1>2. CASE InsertReview(q)
  <2> DEFINE me == [request[q] EXCEPT !.at = "review.update"]
  <2>1. UNCHANGED <<revision, reviews, stored, index>>
    BY <1>2 DEF InsertReview
  <2>2. CASE End(q)
    BY <2>1, <2>2, OnlyARequestEnds
  <2>3. CASE Goto(q, "review.update")
    <3>1. request' = [request EXCEPT ![q] = me]
      BY <2>3 DEF Goto
    <3>2. me \in Req /\ request'[q] = me
      BY <1>0, <3>1 DEF Req, Place, Inv, Typed
    <3>3. /\ me.at = "review.update" /\ me.op = request[q].op
          /\ me.rev = request[q].rev
          /\ request[q].rev \in Existing /\ request[q].op \in Decision
      BY <1>0, <1>2 DEF InsertReview, At, Placed, Reviewing, Req
    <3>4. Existing' = Existing
      BY <2>1 DEF Existing
    <3> HIDE DEF me
    <3>5. Placed(q)'
      BY <3>2, <3>3, <3>4 DEF Placed, Uploading, Reviewing, Deprecating
    <3> QED BY <2>1, <3>1, <3>2, <3>5, OnlyARequestMoves
  <2> QED BY <1>2, <2>2, <2>3 DEF InsertReview
<1>3. CASE CommitReview(q)
  <2> DEFINE r == request[q].rev
             d == request[q].op
             to == ToStatus(d)
  <2>1. /\ r \in Existing /\ r \in Revision /\ d \in Decision
        /\ RowFree(q, r) /\ End(q) /\ UNCHANGED <<stored, index>>
    BY <1>0, <1>3 DEF CommitReview, At, Placed, Reviewing, Existing
  <2>2. CASE ~LegalChange(revision[r].status, to)
    <3>1. UNCHANGED <<revision, reviews>>
      BY <1>3, <2>2 DEF CommitReview
    <3> QED BY <2>1, <3>1, OnlyARequestEnds
  <2>3. CASE LegalChange(revision[r].status, to)
    <3>1. /\ revision' = [revision EXCEPT ![r].status = to]
          /\ reviews' = reviews \cup {<<r, d>>}
      BY <1>3, <2>3 DEF CommitReview
    <3>2. /\ to \in {"active", "deprecated"}
          /\ to = "active" => d = "approve" /\ revision[r].status # "deprecated"
          /\ d # "approve" => to = "deprecated"
          /\ revision[r].status = "deprecated" => to = "deprecated"
      BY <2>1, <2>3 DEF ToStatus, LegalChange, Decision
    <3>3. revision[r] \in Row
      BY <2>1 DEF Inv, Typed
    <3> HIDE DEF r, d, to
    <3>4. /\ revision' \in [Revision -> Row]
          /\ revision'[r].status = to
          /\ \A k \in Revision : /\ revision'[k].replaces = revision[k].replaces
                                 /\ revision'[k].content = revision[k].content
                                 /\ k # r => revision'[k].status = revision[k].status
      <4>1. [revision[r] EXCEPT !.status = to] \in Row
        BY <3>2, <3>3 DEF Row, Status
      <4>2. /\ revision'[r] = [revision[r] EXCEPT !.status = to]
            /\ \A k \in Revision \ {r} : revision'[k] = revision[k]
        BY <2>1, <3>1 DEF Inv, Typed
      <4>3. revision' \in [Revision -> Row]
        BY <2>1, <3>1, <4>1 DEF Inv, Typed
      <4> QED BY <3>3, <4>2, <4>3 DEF Row
    <3>5. Existing' = Existing
      BY <2>1, <3>2, <3>4 DEF Existing
    <3>6. request' = [request EXCEPT ![q] = Idle] /\ request'[q] = Idle
      BY <2>1 DEF End, Inv, Typed
    <3>7. Typed'
      <4>1. request' \in [Request -> Req]
        BY <3>6, IdleTyped DEF Inv, Typed
      <4>2. reviews' \subseteq Existing \X Decision
        BY <2>1, <3>1 DEF Inv, Typed
      <4> QED BY <2>1, <3>4, <3>5, <4>1, <4>2 DEF Inv, Typed
    <3>8. ASSUME NEW p \in Request PROVE Placed(p)'
      <4>1. CASE p = q
        BY <3>6, <4>1 DEF Placed, Idle, Uploading, Reviewing, Deprecating
      <4>2. CASE p # q
        <5>1. request'[p] = request[p]
          BY <3>6, <4>2 DEF Inv, Typed
        <5>2. \A k \in Revision : RowHeldBy(k, p) /\ revision[k].status = "active"
                  => revision'[k].status = "active"
          BY <2>1, <3>4, <4>2 DEF RowFree
        <5> QED BY <2>1, <3>1, <3>5, <4>2, <5>1, <5>2, OthersStayPlaced
      <4> QED BY <4>1, <4>2
    <3>9. AnswerableApproved'
      <4> SUFFICES ASSUME NEW k \in ActiveRevisions' \cup index'
                   PROVE  <<k, "approve">> \in reviews'
        BY DEF AnswerableApproved
      <4>1. CASE k \in index
        BY <3>1, <4>1 DEF Inv, AnswerableApproved
      <4>2. CASE k \in ActiveRevisions' /\ k # r
        <5>1. k \in ActiveRevisions
          BY <3>4, <4>2 DEF ActiveRevisions
        <5> QED BY <3>1, <5>1 DEF Inv, AnswerableApproved
      <4>3. CASE k \in ActiveRevisions' /\ k = r
        <5>1. to = "active"
          BY <3>4, <4>3 DEF ActiveRevisions
        <5> QED BY <3>1, <3>2, <4>3, <5>1
      <4> QED BY <2>1, <4>1, <4>2, <4>3
    <3>10. RejectedStaysOut'
      <4> SUFFICES ASSUME NEW k \in Revision,
                          <<k, "reject">> \in reviews' \/ <<k, "retire">> \in reviews'
                   PROVE  revision'[k].status = "deprecated"
        BY DEF RejectedStaysOut
      <4>1. CASE k # r
        BY <3>1, <3>4, <4>1 DEF Inv, RejectedStaysOut
      <4>2. CASE k = r /\ d = "approve"
        <5>1. revision[r].status = "deprecated"
          BY <3>1, <4>2 DEF Inv, RejectedStaysOut
        <5> QED BY <3>2, <3>4, <4>2, <5>1
      <4>3. CASE k = r /\ d # "approve"
        BY <3>2, <3>4, <4>3
      <4> QED BY <4>1, <4>2, <4>3
    <3>11. NumberedAndStored'
      BY <2>1, <3>4, <3>5 DEF Inv, NumberedAndStored, Existing
    <3>12. ReplacedDeprecated'
      <4>1. \A k \in Revision : revision[k].status = "deprecated"
                => revision'[k].status = "deprecated"
        BY <3>2, <3>4
      <4>2. \A k \in Revision : revision[k].replaces \in Revision \cup {NoRevision}
        BY DEF Inv, Typed, Row
      <4> QED BY <3>4, <4>1, <4>2 DEF Inv, ReplacedDeprecated
    <3>13. ReplacesWellFounded'
      BY <3>4 DEF Inv, ReplacesWellFounded
    <3> QED BY <3>7, <3>8, <3>9, <3>10, <3>11, <3>12, <3>13 DEF Inv
  <2> QED BY <2>2, <2>3
<1> QED BY <1>1, <1>2, <1>3

(* Deprecations.                                                            *)
LEMMA DeprecationsKeepInv ==
    ASSUME Inv, NEW q \in Request,
           \/ \E r \in Revision, other \in Revision \cup {NoRevision} :
                  BeginDeprecate(q, r, other)
           \/ LinkReplacement(q) \/ CommitDeprecate(q) \/ Victim(q)
    PROVE  Inv'
<1>0. request[q] \in Req /\ Placed(q)
  BY DEF Inv, Typed
<1>1. ASSUME NEW r \in Revision, NEW other \in Revision \cup {NoRevision},
             BeginDeprecate(q, r, other)
      PROVE  Inv'
  <2> DEFINE me == [Idle EXCEPT !.op = "deprecate", !.rev = r, !.other = other,
                                !.at = IF other = NoRevision THEN "deprecate.update"
                                       ELSE "deprecate.link"]
  <2>1. /\ request' = [request EXCEPT ![q] = me]
        /\ UNCHANGED <<revision, reviews, stored, index>>
    BY <1>1 DEF BeginDeprecate, Begin
  <2>2. me \in Req /\ request'[q] = me
    BY <2>1, IdleTyped DEF Req, Place, Op, Inv, Typed
  <2>3. /\ me.at \in Deprecating /\ me.rev = r /\ me.other = other
        /\ me.at = "deprecate.update" => other = NoRevision
        /\ me.at = "deprecate.link" => other \in Revision
    BY DEF Idle, Deprecating
  <2>4. r \in Existing /\ Existing' = Existing
    BY <1>1, <2>1 DEF BeginDeprecate, Existing
  <2> HIDE DEF me
  <2>5. Placed(q)'
    BY <2>2, <2>3, <2>4 DEF Placed, Uploading, Reviewing, Deprecating
  <2> QED BY <2>1, <2>2, <2>5, OnlyARequestMoves
<1>2. CASE LinkReplacement(q)
  <2> DEFINE other == request[q].other
             alone == [request[q] EXCEPT !.at = "deprecate.update",
                                         !.other = NoRevision]
             linked == [request[q] EXCEPT !.at = "deprecate.update"]
  <2>1. /\ request[q].rev \in Existing /\ other \in Revision
        /\ UNCHANGED <<revision, reviews, stored, index>>
    BY <1>0, <1>2 DEF LinkReplacement, At, Placed, Deprecating
  <2>2. Existing' = Existing
    BY <2>1 DEF Existing
  <2>3. CASE revision[other].status # "active"
    <3>1. request' = [request EXCEPT ![q] = alone]
      BY <1>2, <2>3 DEF LinkReplacement
    <3>2. alone \in Req /\ request'[q] = alone
      BY <1>0, <3>1 DEF Req, Place, Inv, Typed
    <3>3. /\ alone.at = "deprecate.update" /\ alone.other = NoRevision
          /\ alone.rev = request[q].rev
      BY <1>0 DEF Req
    <3> HIDE DEF alone
    <3>4. Placed(q)'
      BY <2>1, <2>2, <3>2, <3>3 DEF Placed, Uploading, Reviewing, Deprecating
    <3> QED BY <2>1, <3>1, <3>2, <3>4, OnlyARequestMoves
  <2>4. CASE revision[other].status = "active" /\ LegalReplacement(other, request[q].rev)
    <3>1. request' = [request EXCEPT ![q] = linked]
      BY <1>2, <2>4 DEF LinkReplacement, Goto
    <3>2. linked \in Req /\ request'[q] = linked
      BY <1>0, <3>1 DEF Req, Place, Inv, Typed
    <3>3. /\ linked.at = "deprecate.update" /\ linked.other = other
          /\ linked.rev = request[q].rev /\ other # request[q].rev
      BY <1>0, <2>4 DEF Req, LegalReplacement
    <3> HIDE DEF linked, other
    <3>4. Placed(q)'
      BY <2>1, <2>2, <2>4, <3>2, <3>3 DEF Placed, Uploading, Reviewing, Deprecating
    <3> QED BY <2>1, <3>1, <3>2, <3>4, OnlyARequestMoves
  <2>5. CASE revision[other].status = "active" /\ ~LegalReplacement(other, request[q].rev)
    <3>1. End(q)
      BY <1>2, <2>5 DEF LinkReplacement
    <3> QED BY <2>1, <3>1, OnlyARequestEnds
  <2> QED BY <2>3, <2>4, <2>5
<1>3. CASE CommitDeprecate(q)
  <2> DEFINE r == request[q].rev
             other == request[q].other
  <2>1. /\ r \in Existing /\ r \in Revision
        /\ other = NoRevision \/ other \in Revision
        /\ other # NoRevision => other # r /\ revision[other].status = "active"
        /\ RowFree(q, r) /\ End(q) /\ UNCHANGED <<reviews, stored, index>>
    BY <1>0, <1>3 DEF CommitDeprecate, At, Placed, Deprecating, Existing, Req
  <2>2. revision' = [n \in Revision |->
               IF n = r THEN [revision[n] EXCEPT !.status = "deprecated"]
               ELSE IF n = other THEN [revision[n] EXCEPT !.replaces = r]
               ELSE revision[n]]
    BY <1>3 DEF CommitDeprecate
  <2> HIDE DEF r, other
  <2>3. \A n \in Revision : revision[n] \in Row
    BY DEF Inv, Typed
  <2>4. ASSUME NEW n \in Revision
        PROVE  /\ revision'[n] \in Row
               /\ revision'[n].status = IF n = r THEN "deprecated" ELSE revision[n].status
               /\ revision'[n].content = revision[n].content
               /\ revision'[n].replaces
                      = IF n = other THEN r ELSE revision[n].replaces
    <3>1. CASE n = r
      <4>1. revision'[n] = [revision[n] EXCEPT !.status = "deprecated"]
        BY <2>2, <3>1
      <4> QED BY <2>1, <2>3, <3>1, <4>1 DEF Row, Status, Revision, NoRevision
    <3>2. CASE n # r /\ n = other
      <4>1. revision'[n] = [revision[n] EXCEPT !.replaces = r]
        BY <2>2, <3>2
      <4> QED BY <2>1, <2>3, <3>2, <4>1 DEF Row
    <3>3. CASE n # r /\ n # other
      BY <2>2, <2>3, <3>3
    <3> QED BY <3>1, <3>2, <3>3
  <2>5. revision' \in [Revision -> Row]
    BY <2>2, <2>4
  <2>6. Existing' = Existing /\ ActiveRevisions' \subseteq ActiveRevisions
    BY <2>1, <2>4 DEF Existing, ActiveRevisions
  <2>7. request' = [request EXCEPT ![q] = Idle] /\ request'[q] = Idle
    BY <2>1 DEF End, Inv, Typed
  <2>8. Typed'
    <3>1. request' \in [Request -> Req]
      BY <2>7, IdleTyped DEF Inv, Typed
    <3> QED BY <2>1, <2>5, <2>6, <3>1 DEF Inv, Typed
  <2>9. ASSUME NEW p \in Request PROVE Placed(p)'
    <3>1. CASE p = q
      BY <2>7, <3>1 DEF Placed, Idle, Uploading, Reviewing, Deprecating
    <3>2. CASE p # q
      <4>1. request'[p] = request[p]
        BY <2>7, <3>2 DEF Inv, Typed
      <4>2. \A k \in Revision : RowHeldBy(k, p) /\ revision[k].status = "active"
                => revision'[k].status = "active"
        BY <2>1, <2>4, <3>2 DEF RowFree
      <4> QED BY <2>1, <2>6, <3>2, <4>1, <4>2, OthersStayPlaced
    <3> QED BY <3>1, <3>2
  <2>10. AnswerableApproved'
    BY <2>1, <2>6 DEF Inv, AnswerableApproved
  <2>11. RejectedStaysOut'
    BY <2>1, <2>4 DEF Inv, RejectedStaysOut
  <2>12. NumberedAndStored'
    BY <2>1, <2>4, <2>6 DEF Inv, NumberedAndStored, Existing
  <2>13. ReplacedDeprecated'
    <3> SUFFICES ASSUME NEW k \in Revision, revision'[k].replaces # NoRevision
                 PROVE  revision'[revision'[k].replaces].status = "deprecated"
      BY DEF ReplacedDeprecated
    <3>1. CASE k = other
      BY <2>1, <2>4, <3>1
    <3>2. CASE k # other
      <4>1. /\ revision'[k].replaces = revision[k].replaces
            /\ revision[k].replaces \in Revision
            /\ revision[revision[k].replaces].status = "deprecated"
        BY <2>3, <2>4, <3>2 DEF Row, Inv, ReplacedDeprecated
      <4> QED BY <2>4, <4>1
    <3> QED BY <3>1, <3>2
  <2>14. ReplacesWellFounded'
    <3> SUFFICES ASSUME NEW S \in SUBSET Revision, S # {}
                 PROVE  \E k \in S : revision'[k].replaces \notin S
      BY DEF ReplacesWellFounded
    <3>1. CASE S \subseteq {other}
      <4>1. other \in S /\ other \in Revision /\ other # NoRevision
        <5>1. other \in S
          BY <3>1
        <5> QED BY <5>1 DEF Revision, NoRevision
      <4>2. revision'[other].replaces = r /\ r \notin S
        BY <2>1, <2>4, <3>1, <4>1
      <4> QED BY <4>1, <4>2
    <3>2. CASE ~(S \subseteq {other})
      <4>1. PICK k \in S \ {other} : revision[k].replaces \notin S \ {other}
        <5>1. S \ {other} \in SUBSET Revision /\ S \ {other} # {}
          BY <3>2
        <5> QED BY <5>1 DEF Inv, ReplacesWellFounded
      <4>2. other \in S => other # NoRevision /\ revision[other].status = "active"
        BY <2>1 DEF Revision, NoRevision
      <4>3. revision[k].replaces = other => other \notin S
        BY <4>1, <4>2 DEF Inv, ReplacedDeprecated
      <4> QED BY <2>4, <4>1, <4>3
    <3> QED BY <3>1, <3>2
  <2> QED BY <2>8, <2>9, <2>10, <2>11, <2>12, <2>13, <2>14 DEF Inv
<1>4. CASE Victim(q)
  BY <1>4, OnlyARequestEnds DEF Victim
<1> QED BY <1>1, <1>2, <1>3, <1>4

(* Compilations of the index.                                               *)
LEMMA CompilationsKeepInv ==
    ASSUME Inv, NEW q \in Request, BeginCompile(q) \/ CommitCompile(q)
    PROVE  Inv'
<1>0. request[q] \in Req /\ Placed(q)
  BY DEF Inv, Typed
<1>1. CASE BeginCompile(q)
  <2> DEFINE me == [Idle EXCEPT !.at = "compile.commit", !.op = "compile",
                                !.seen = SpansFrom]
  <2>1. /\ request' = [request EXCEPT ![q] = me]
        /\ UNCHANGED <<revision, reviews, stored, index>>
    BY <1>1 DEF BeginCompile, Begin
  <2>2. SpansFrom \in SUBSET Revision /\ \A r \in SpansFrom : <<r, "approve">> \in reviews
    BY DEF SpansFrom, ActiveRevisions, Inv, AnswerableApproved
  <2>3. me \in Req /\ request'[q] = me
    BY <2>1, <2>2, IdleTyped DEF Req, Place, Op, Inv, Typed
  <2>4. me.at = "compile.commit" /\ me.seen = SpansFrom
    BY DEF Idle
  <2> HIDE DEF me
  <2>5. Placed(q)'
    BY <2>1, <2>2, <2>3, <2>4 DEF Placed, Uploading, Reviewing, Deprecating
  <2> QED BY <2>1, <2>3, <2>5, OnlyARequestMoves
<1>2. CASE CommitCompile(q)
  <2>1. /\ index' = request[q].seen /\ End(q)
        /\ UNCHANGED <<revision, reviews, stored>>
    BY <1>2 DEF CommitCompile
  <2>2. /\ request[q].seen \subseteq Revision
        /\ \A r \in request[q].seen : <<r, "approve">> \in reviews
    BY <1>0, <1>2 DEF CommitCompile, At, Placed, Req
  <2>3. Existing' = Existing /\ ActiveRevisions' = ActiveRevisions
    BY <2>1 DEF Existing, ActiveRevisions
  <2>4. request' = [request EXCEPT ![q] = Idle] /\ request'[q] = Idle
    BY <2>1 DEF End, Inv, Typed
  <2>5. Typed'
    <3>1. request' \in [Request -> Req]
      BY <2>4, IdleTyped DEF Inv, Typed
    <3> QED BY <2>1, <2>2, <2>3, <3>1 DEF Inv, Typed
  <2>6. ASSUME NEW p \in Request PROVE Placed(p)'
    <3>1. CASE p = q
      BY <2>4, <3>1 DEF Placed, Idle, Uploading, Reviewing, Deprecating
    <3>2. CASE p # q
      <4>1. request'[p] = request[p]
        BY <2>4, <3>2 DEF Inv, Typed
      <4> QED BY <2>1, <2>3, <3>2, <4>1, OthersStayPlaced
    <3> QED BY <3>1, <3>2
  <2>7. AnswerableApproved'
    BY <2>1, <2>2, <2>3 DEF Inv, AnswerableApproved
  <2>8. RejectedStaysOut' /\ NumberedAndStored'
    BY <2>1, <2>3 DEF Inv, RejectedStaysOut, NumberedAndStored
  <2>9. ReplacedDeprecated' /\ ReplacesWellFounded'
    BY <2>1 DEF Inv, ReplacedDeprecated, ReplacesWellFounded
  <2> QED BY <2>5, <2>6, <2>7, <2>8, <2>9 DEF Inv
<1> QED BY <1>1, <1>2

LEMMA StepKeepsInv == Inv /\ [Next]_vars => Inv'
<1> SUFFICES ASSUME Inv, [Next]_vars PROVE Inv'
  OBVIOUS
<1>1. CASE UNCHANGED vars
  <2>1. /\ UNCHANGED <<revision, reviews, stored, index, request>>
        /\ Existing' = Existing /\ ActiveRevisions' = ActiveRevisions
    BY <1>1 DEF vars, Existing, ActiveRevisions
  <2>2. Typed' /\ \A q \in Request : Placed(q)'
    BY <2>1 DEF Inv, Typed, Placed
  <2>3. /\ AnswerableApproved' /\ RejectedStaysOut' /\ NumberedAndStored'
        /\ ReplacedDeprecated' /\ ReplacesWellFounded'
    BY <2>1 DEF Inv, AnswerableApproved, RejectedStaysOut, NumberedAndStored,
                ReplacedDeprecated, ReplacesWellFounded
  <2> QED BY <2>2, <2>3 DEF Inv
<1>2. ASSUME NEW q \in Request, Abort(q) PROVE Inv'
  BY <1>2, OnlyARequestEnds DEF Abort
<1> QED BY <1>1, <1>2, UploadsKeepInv, DecisionsKeepInv, DeprecationsKeepInv,
           CompilationsKeepInv DEF Next, Step

LEMMA Invariant == Spec => []Inv
BY InitInv, StepKeepsInv, PTL DEF Spec

-----------------------------------------------------------------------------
(* The replacement chain, in a single state.                                *)

(* Iterating a function: what makes a recursive definition over the numbers *)
(* up to N a definition.                                                    *)
LEMMA Iteration ==
    ASSUME NEW D, NEW a \in D, NEW G \in [D -> D], NEW N \in Nat
    PROVE  \E f \in [0..N -> D] :
               f = [n \in 0..N |-> IF n = 0 THEN a ELSE G[f[n - 1]]]
<1> DEFINE Good(k, f) == /\ f \in [0..k -> D]
                         /\ \A n \in 0..k : f[n] = IF n = 0 THEN a ELSE G[f[n - 1]]
           S == {k \in Nat : \E f : Good(k, f)}
<1>1. 0 \in S
  <2> DEFINE f == [n \in 0..0 |-> a]
  <2>1. f \in [0..0 -> D] /\ \A n \in 0..0 : n = 0 /\ f[n] = a
    OBVIOUS
  <2>2. Good(0, f)
    BY <2>1
  <2> QED BY <2>2
<1>2. ASSUME NEW k \in Nat, k \in S PROVE k + 1 \in S
  <2>1. PICK f : Good(k, f)
    BY <1>2
  <2> DEFINE g == [n \in 0..(k + 1) |-> IF n = k + 1 THEN G[f[k]] ELSE f[n]]
  <2>2. f \in [0..k -> D] /\ k \in 0..k /\ G[f[k]] \in D
    BY <2>1
  <2>3. \A n \in 0..(k + 1) : n = k + 1 \/ n \in 0..k
    OBVIOUS
  <2>4. g \in [0..(k + 1) -> D]
    BY <2>2, <2>3
  <2>5. /\ \A n \in 0..k : g[n] = f[n]
        /\ g[k + 1] = G[f[k]]
    OBVIOUS
  <2>6. ASSUME NEW n \in 0..(k + 1)
        PROVE  g[n] = IF n = 0 THEN a ELSE G[g[n - 1]]
    <3> HIDE DEF g
    <3>1. CASE n = k + 1
      <4>1. n # 0 /\ n - 1 = k /\ g[k] = f[k]
        BY <2>2, <2>5, <3>1
      <4> QED BY <2>5, <3>1, <4>1
    <3>2. CASE n \in 0..k
      <4>1. n # 0 => n - 1 \in 0..k /\ g[n - 1] = f[n - 1]
        BY <2>5, <3>2
      <4>2. f[n] = IF n = 0 THEN a ELSE G[f[n - 1]]
        BY <2>1, <3>2
      <4> QED BY <2>5, <3>2, <4>1, <4>2
    <3> QED BY <2>3, <3>1, <3>2
  <2>7. Good(k + 1, g)
    <3> HIDE DEF g
    <3> QED BY <2>4, <2>6
  <2>8. k + 1 \in Nat
    OBVIOUS
  <2> HIDE DEF g, Good
  <2> QED BY <2>7, <2>8
<1>3. N \in S
  <2> HIDE DEF S
  <2> QED BY <1>1, <1>2, SetInduction
<1>4. PICK f : Good(N, f)
  BY <1>3
<1>5. f \in [0..N -> D] /\ f = [n \in 0..N |-> f[n]]
  BY <1>4
<1>6. f = [n \in 0..N |-> IF n = 0 THEN a ELSE G[f[n - 1]]]
  BY <1>4, <1>5
<1> QED BY <1>5, <1>6

(* So the recursive function of the property is the one that is meant.      *)
LEMMA ReplacedUnfolds ==
    ASSUME Typed, NEW n \in 0..MaxRevisions, NEW r \in Revision
    PROVE  replaced[n][r] = IF n = 0 \/ revision[r].replaces = NoRevision THEN {}
                            ELSE {revision[r].replaces}
                                     \cup replaced[n - 1][revision[r].replaces]
<1> DEFINE D == [Revision -> SUBSET Revision]
           none == [k \in Revision |-> {}]
           G == [g \in D |-> [k \in Revision |->
                    IF revision[k].replaces = NoRevision THEN {}
                    ELSE {revision[k].replaces} \cup g[revision[k].replaces]]]
           Next1(f, m) ==
               [k \in Revision |->
                    IF m = 0 \/ revision[k].replaces = NoRevision THEN {}
                    ELSE {revision[k].replaces} \cup f[m - 1][revision[k].replaces]]
<1>1. \A k \in Revision : revision[k].replaces \in Revision \cup {NoRevision}
  BY DEF Typed, Row
<1>2. none \in D
  OBVIOUS
<1>3. ASSUME NEW g \in D PROVE G[g] \in D
  <2>1. \A k \in Revision :
            (IF revision[k].replaces = NoRevision THEN {}
             ELSE {revision[k].replaces} \cup g[revision[k].replaces]) \in SUBSET Revision
    BY <1>1
  <2> QED BY <2>1
<1>4. G \in [D -> D]
  BY <1>3
<1>5. MaxRevisions \in Nat
  BY ReviewAssumption
<1>6. PICK f \in [0..MaxRevisions -> D] :
          f = [m \in 0..MaxRevisions |-> IF m = 0 THEN none ELSE G[f[m - 1]]]
  <2> HIDE DEF D, G, none
  <2> QED BY <1>2, <1>4, <1>5, Iteration
<1>7. ASSUME NEW m \in 0..MaxRevisions PROVE f[m] = Next1(f, m)
  <2>1. CASE m = 0
    <3>1. f[m] = none
      BY <1>6, <2>1
    <3>2. Next1(f, m) = none
      BY <2>1
    <3> QED BY <3>1, <3>2
  <2>2. CASE m # 0
    <3>1. f[m - 1] \in D /\ f[m] = G[f[m - 1]]
      <4>1. m - 1 \in 0..MaxRevisions
        BY <1>5, <2>2
      <4> HIDE DEF D, G, none
      <4> QED BY <1>6, <2>2, <4>1
    <3>2. Next1(f, m) = G[f[m - 1]]
      BY <2>2, <3>1
    <3> QED BY <3>1, <3>2
  <2> QED BY <2>1, <2>2
<1>8. f = [m \in 0..MaxRevisions |-> Next1(f, m)]
  <2>1. f = [m \in 0..MaxRevisions |-> f[m]]
    OBVIOUS
  <2> HIDE DEF Next1
  <2> QED BY <1>7, <2>1
<1>9. replaced = [m \in 0..MaxRevisions |-> Next1(replaced, m)]
  <2>1. replaced = CHOOSE g : g = [m \in 0..MaxRevisions |-> Next1(g, m)]
    BY DEF replaced
  <2> HIDE DEF Next1
  <2> QED BY <1>8, <2>1
<1>10. replaced[n] = Next1(replaced, n)
  <2> HIDE DEF Next1
  <2> QED BY <1>9
<1> QED BY <1>10

(* x comes after r in the chain: whatever holds the successor of r and the  *)
(* successors of all it holds, holds x.                                     *)
Closed(U) ==
    \A u \in U : revision[u].replaces # NoRevision => revision[u].replaces \in U

After(r, x) ==
    /\ revision[r].replaces # NoRevision
    /\ \A U \in SUBSET Revision : Closed(U) /\ revision[r].replaces \in U => x \in U

LEMMA ReplacedComesAfter ==
    ASSUME Typed, ReplacedDeprecated
    PROVE  \A n \in 0..MaxRevisions, r \in Revision : \A x \in replaced[n][r] :
               After(r, x) /\ revision[x].status = "deprecated"
<1> DEFINE Q(n) == \A r \in Revision : \A x \in replaced[n][r] :
                       After(r, x) /\ revision[x].status = "deprecated"
           S == {n \in Nat : n <= MaxRevisions => Q(n)}
<1>0. MaxRevisions \in Nat
  BY ReviewAssumption
<1>1. \A k \in Revision : revision[k].replaces \in Revision \cup {NoRevision}
  BY DEF Typed, Row
<1>2. 0 \in S
  <2>1. ASSUME NEW r \in Revision PROVE replaced[0][r] = {}
    <3>1. 0 \in 0..MaxRevisions
      BY <1>0
    <3> QED BY <3>1, ReplacedUnfolds
  <2> QED BY <2>1
<1>3. ASSUME NEW n \in Nat, n \in S PROVE n + 1 \in S
  <2> SUFFICES ASSUME n + 1 <= MaxRevisions,
                      NEW r \in Revision, NEW x \in replaced[n + 1][r]
               PROVE  After(r, x) /\ revision[x].status = "deprecated"
    OBVIOUS
  <2> DEFINE s == revision[r].replaces
  <2>1. Q(n) /\ n \in 0..MaxRevisions /\ n + 1 \in 0..MaxRevisions
    BY <1>0, <1>3
  <2>2. /\ s # NoRevision /\ s \in Revision
        /\ x = s \/ x \in replaced[n][s]
    <3>1. replaced[n + 1][r] =
              IF n + 1 = 0 \/ revision[r].replaces = NoRevision THEN {}
              ELSE {s} \cup replaced[(n + 1) - 1][s]
      BY <2>1, ReplacedUnfolds
    <3>2. (n + 1) - 1 = n
      OBVIOUS
    <3> QED BY <1>1, <3>1, <3>2
  <2>3. CASE x = s
    BY <2>2, <2>3 DEF After, ReplacedDeprecated
  <2>4. CASE x \in replaced[n][s]
    <3>1. After(s, x) /\ revision[x].status = "deprecated"
      BY <2>1, <2>2, <2>4
    <3>2. After(r, x)
      BY <2>2, <3>1 DEF After, Closed
    <3> QED BY <3>1, <3>2
  <2> QED BY <2>2, <2>3, <2>4
<1>4. Nat \subseteq S
  <2> HIDE DEF S
  <2> QED BY <1>2, <1>3, SetInduction
<1>5. \A n \in 0..MaxRevisions : n \in Nat /\ n <= MaxRevisions
  BY <1>0
<1> QED BY <1>4, <1>5

(* A revision that came after itself would belong to a set of such          *)
(* revisions that replace each other.                                       *)
LEMMA NothingComesAfterItself ==
    ASSUME Typed, ReplacesWellFounded, NEW r \in Revision
    PROVE  ~After(r, r)
<1> DEFINE Ring == {k \in Revision : After(k, k)}
<1>1. \A k \in Revision : revision[k].replaces \in Revision \cup {NoRevision}
  BY DEF Typed, Row
<1>2. ASSUME NEW k \in Ring PROVE revision[k].replaces \in Ring
  <2> DEFINE s == revision[k].replaces
  <2>1. k \in Revision /\ After(k, k) /\ s \in Revision
    BY <1>1 DEF After
  <2>2. revision[s].replaces # NoRevision
    <3> SUFFICES ASSUME revision[s].replaces = NoRevision PROVE FALSE
      OBVIOUS
    <3>1. Closed({s}) /\ {s} \in SUBSET Revision /\ s \in {s}
      BY <2>1 DEF Closed
    <3>2. k = s
      BY <2>1, <3>1 DEF After
    <3> QED BY <2>1, <3>2 DEF After
  <2>3. ASSUME NEW U \in SUBSET Revision, Closed(U), revision[s].replaces \in U
        PROVE  s \in U
    <3>1. Closed(U \cup {s}) /\ U \cup {s} \in SUBSET Revision
      BY <2>1, <2>3 DEF Closed
    <3>2. k \in U \cup {s}
      BY <2>1, <3>1 DEF After
    <3>3. CASE k \in U
      BY <2>1, <2>3, <3>3 DEF Closed, After
    <3>4. CASE k = s
      BY <2>3, <3>4
    <3> QED BY <3>2, <3>3, <3>4
  <2>4. After(s, s)
    BY <2>2, <2>3 DEF After
  <2> QED BY <2>1, <2>4
<1>3. Ring = {}
  <2> SUFFICES ASSUME Ring # {} PROVE FALSE
    OBVIOUS
  <2>1. \E k \in Ring : revision[k].replaces \notin Ring
    BY DEF ReplacesWellFounded
  <2> HIDE DEF Ring
  <2> QED BY <1>2, <2>1
<1> QED BY <1>3

-----------------------------------------------------------------------------
(* The rows, the recorded decisions, the stored contents, the index and     *)
(* every request's locals are of their types; only existing revisions have  *)
(* decisions.                                                               *)
THEOREM TypeCorrect == Spec => []TypeOK
<1>1. Inv => TypeOK
  BY DEF Inv, Typed, TypeOK, Row, Req
<1> QED BY <1>1, Invariant, PTL

(* POST .../review and the compilation: whatever is active, or was compiled *)
(* into the index, has a recorded approval, however requests interleave.    *)
THEOREM ApprovalComesFirst == Spec => []AnswerableApproved
<1>1. Inv => AnswerableApproved
  BY DEF Inv
<1> QED BY <1>1, Invariant, PTL

(* guard_source_revision_status: a recorded rejection or retirement is      *)
(* final, whatever decision raced it.                                       *)
THEOREM NoResurrection == Spec => []RejectedStaysOut
<1>1. Inv => RejectedStaysOut
  BY DEF Inv
<1> QED BY <1>1, Invariant, PTL

(* POST .../revisions: the numbers of the revisions have no gap, and each   *)
(* has its object, however uploads race, give up or are cut off.            *)
THEOREM UploadsAreSound == Spec => []NumberedAndStored
<1>1. Inv => NumberedAndStored
  BY DEF Inv
<1> QED BY <1>1, Invariant, PTL

(* validate_revision_replacement and the row a deprecation keeps locked:    *)
(* the chain of replacements, however long, never leads back and passes     *)
(* deprecated revisions only.                                               *)
THEOREM ReplacementChain == Spec => []ChainLeadsBack
<1>1. Inv => ChainLeadsBack
  <2> SUFFICES ASSUME Inv PROVE ChainLeadsBack
    OBVIOUS
  <2>1. MaxRevisions \in 0..MaxRevisions
    BY ReviewAssumption
  <2>2. \A r \in Revision : \A x \in replaced[MaxRevisions][r] :
            After(r, x) /\ revision[x].status = "deprecated"
    BY <2>1, ReplacedComesAfter DEF Inv
  <2>3. \A r \in Revision : ~After(r, r)
    BY NothingComesAfterItself DEF Inv
  <2> QED BY <2>2, <2>3 DEF ChainLeadsBack, Existing
<1> QED BY <1>1, Invariant, PTL
=============================================================================
