---------------------------- MODULE SourceReview ----------------------------
(***************************************************************************)
(* The revisions of one source: uploads (apps/api/src/app.ts 1112-1292),   *)
(* the editorial decisions and the deprecations (1394-1588), the triggers  *)
(* that guard them (db/migrations/0023, 0038) and the compilation that     *)
(* makes the active ones answerable (index/indexCompiler.ts 120-145).      *)
(*                                                                         *)
(* Requests run side by side under READ COMMITTED, one action per SQL      *)
(* statement that another request can come before; what follows the last   *)
(* such statement of a transaction goes with its commit. No request locks  *)
(* a row before it reads it.                                               *)
(***************************************************************************)
EXTENDS Integers, FiniteSets, FiniteSetsExt

CONSTANTS
    Request,
    MaxRevisions,   \* bound on the revisions of the source
    Content,        \* what may be uploaded; stored under its hash
    MaxAttempts     \* attempts of an upload at a revision number, 3 in app.ts

ASSUME ReviewAssumption ==
    /\ MaxRevisions \in Nat \ {0} /\ MaxAttempts \in Nat \ {0}
    /\ IsFiniteSet(Request)

Revision == 1..MaxRevisions
NoRevision == 0
Decision == {"approve", "reject", "retire"}
Status == {"none", "pending_review", "active", "deprecated"}

VARIABLES
    revision,   \* source_revisions: status, replaces_revision_id, the file
    reviews,    \* source_revision_reviews: pairs of revision and decision
    stored,     \* contents in the object store
    index,      \* the revisions whose spans the latest index release holds
    request     \* the requests in progress

vars == <<revision, reviews, stored, index, request>>

Idle == [at |-> "idle", op |-> "none", rev |-> NoRevision, other |-> NoRevision,
         content |-> "none", seen |-> {}, attempt |-> 0]

NoRow == [status |-> "none", replaces |-> NoRevision, content |-> "none"]
Existing == {r \in Revision : revision[r].status # "none"}
ActiveRevisions == {r \in Revision : revision[r].status = "active"}

At(q, place) == request[q].at = place
Begin(q, r) == request' = [request EXCEPT ![q] = r]
Goto(q, place) == request' = [request EXCEPT ![q].at = place]
End(q) == request' = [request EXCEPT ![q] = Idle]

-----------------------------------------------------------------------------
(***************************************************************************)
(* The locks that other requests hold until they commit.                   *)
(***************************************************************************)

\* A deprecation that has linked its replacement holds that row.
RowHeldBy(r, p) ==
    At(p, "deprecate.update") /\ request[p].other = r
RowFree(q, r) == \A p \in Request \ {q} : ~RowHeldBy(r, p)

\* A review that is inserted and not committed holds its key, which is unique.
ReviewFree(q, r, d) ==
    \A p \in Request \ {q} : ~(/\ At(p, "review.update")
                               /\ request[p].rev = r /\ request[p].op = d)

\* Mutant: the guard of a deprecated revision is gone.
LegalChangeBack(old, new) == old # "none" /\ new \in {"active", "deprecated"}

\* guard_source_revision_status.
LegalChange(old, new) ==
    \/ old = new
    \/ old = "pending_review" /\ new \in {"active", "deprecated"}
    \/ old = "active" /\ new = "deprecated"

\* validate_revision_replacement.
LegalReplacement(new, old) == new # old /\ revision[old].status = "active"

-----------------------------------------------------------------------------
Init ==
    /\ revision = [r \in Revision |-> NoRow]
    /\ reviews = {}
    /\ stored = {}
    /\ index = {}
    /\ request = [q \in Request |-> Idle]

(***************************************************************************)
(* POST /sources/:id/revisions: the object first, then the revision.       *)
(***************************************************************************)

\* Mutant: the object is written after the revision, if nothing comes between.
BeginUploadRowFirst(q, c) ==
    /\ At(q, "idle")
    /\ Begin(q, [Idle EXCEPT !.op = "upload", !.content = c, !.at = "upload.max"])
    /\ UNCHANGED <<revision, reviews, stored, index>>

\* headObject: content that is already stored is not written again.
BeginUpload(q, c) ==
    /\ At(q, "idle")
    /\ Begin(q, [Idle EXCEPT !.op = "upload", !.content = c,
                             !.at = IF c \in stored THEN "upload.max"
                                    ELSE "upload.put"])
    /\ UNCHANGED <<revision, reviews, stored, index>>

PutObject(q) ==
    /\ At(q, "upload.put")
    /\ stored' = stored \cup {request[q].content}
    /\ Goto(q, "upload.max")
    /\ UNCHANGED <<revision, reviews, index>>

\* The greatest revision number; MaxRevisions bounds the model here.
ReadMax(q) ==
    /\ At(q, "upload.max")
    /\ LET max == Max(Existing \cup {NoRevision})
       IN  IF max < MaxRevisions
           THEN request' = [request EXCEPT ![q].at = "upload.insert",
                                           ![q].rev = max + 1]
           ELSE End(q)
    /\ UNCHANGED <<revision, reviews, stored, index>>

\* Mutant: the number is read once, and the insert tried until it succeeds.
InsertUntilDone(q) ==
    /\ At(q, "upload.insert")
    /\ LET n == request[q].rev
       IN  IF revision[n].status = "none"
           THEN /\ revision' = [revision EXCEPT
                      ![n] = [NoRow EXCEPT !.status = "pending_review",
                                           !.content = request[q].content]]
                /\ End(q)
           ELSE UNCHANGED <<revision, request>>
    /\ UNCHANGED <<reviews, stored, index>>

\* Mutant: one attempt more than the bound.
InsertRevisionOnceMore(q) ==
    /\ At(q, "upload.insert")
    /\ LET n == request[q].rev
       IN  IF revision[n].status = "none"
           THEN /\ revision' = [revision EXCEPT
                      ![n] = [NoRow EXCEPT !.status = "pending_review",
                                           !.content = request[q].content]]
                /\ End(q)
           ELSE /\ UNCHANGED revision
                /\ IF request[q].attempt < MaxAttempts
                   THEN request' = [request EXCEPT ![q].at = "upload.max",
                                                   ![q].attempt = @ + 1]
                   ELSE End(q)
    /\ UNCHANGED <<reviews, stored, index>>

\* The revision, its file and its status event, or a number that is taken:
\* the transaction starts over, three times in all.
InsertRevision(q) ==
    /\ At(q, "upload.insert")
    /\ LET n == request[q].rev
       IN  IF revision[n].status = "none"
           THEN /\ revision' = [revision EXCEPT
                      ![n] = [NoRow EXCEPT !.status = "pending_review",
                                           !.content = request[q].content]]
                /\ End(q)
           ELSE /\ UNCHANGED revision
                /\ IF request[q].attempt + 1 < MaxAttempts
                   THEN request' = [request EXCEPT ![q].at = "upload.max",
                                                   ![q].attempt = @ + 1]
                   ELSE End(q)
    /\ UNCHANGED <<reviews, stored, index>>

-----------------------------------------------------------------------------
(***************************************************************************)
(* POST .../review: approve, reject or retire.                             *)
(***************************************************************************)

FromStatus(d) == IF d = "retire" THEN "active" ELSE "pending_review"
ToStatus(d) == IF d = "approve" THEN "active" ELSE "deprecated"

\* The status is read without a lock; another one than the decision starts
\* from answers 409.
BeginReview(q, r, d) ==
    /\ At(q, "idle")
    /\ revision[r].status = FromStatus(d)
    /\ Begin(q, [Idle EXCEPT !.at = "review.insert", !.op = d, !.rev = r])
    /\ UNCHANGED <<revision, reviews, stored, index>>

\* The review goes first: the trigger looks for it. A second review with the
\* same decision waits for the first and fails if that one commits.
InsertReview(q) ==
    /\ At(q, "review.insert")
    /\ ReviewFree(q, request[q].rev, request[q].op)
    /\ IF <<request[q].rev, request[q].op>> \in reviews THEN End(q)
       ELSE Goto(q, "review.update")
    /\ UNCHANGED <<revision, reviews, stored, index>>

\* The update, the status event and the commit. The trigger sees the status
\* the row has now, not the one that was read.
CommitReview(q) ==
    LET r == request[q].rev
        to == ToStatus(request[q].op)
    IN  /\ At(q, "review.update")
        /\ RowFree(q, r)
        /\ IF LegalChange(revision[r].status, to)
           THEN /\ revision' = [revision EXCEPT ![r].status = to]
                /\ reviews' = reviews \cup {<<r, request[q].op>>}
           ELSE UNCHANGED <<revision, reviews>>
        /\ End(q)
        /\ UNCHANGED <<stored, index>>

-----------------------------------------------------------------------------
(***************************************************************************)
(* POST .../deprecate, with or without a replacement.                      *)
(***************************************************************************)

BeginDeprecate(q, r, other) ==
    /\ At(q, "idle")
    /\ revision[r].status = "active"
    /\ Begin(q, [Idle EXCEPT !.op = "deprecate", !.rev = r, !.other = other,
                             !.at = IF other = NoRevision THEN "deprecate.update"
                                    ELSE "deprecate.link"])
    /\ UNCHANGED <<revision, reviews, stored, index>>

\* Mutant: the replacement need not be active.
LinkAnyReplacement(q) ==
    LET other == request[q].other
    IN  /\ At(q, "deprecate.link")
        /\ RowFree(q, other)
        /\ \/ /\ revision[other].status = "none"
              /\ request' = [request EXCEPT ![q].at = "deprecate.update",
                                            ![q].other = NoRevision]
           \/ /\ revision[other].status # "none"
              /\ IF LegalReplacement(other, request[q].rev)
                 THEN Goto(q, "deprecate.update")
                 ELSE End(q)
        /\ UNCHANGED <<revision, reviews, stored, index>>

\* The replacement is pointed at the revision if it is active once its row is
\* free; if not, no row is updated and the deprecation goes on without it.
LinkReplacement(q) ==
    LET other == request[q].other
    IN  /\ At(q, "deprecate.link")
        /\ RowFree(q, other)
        /\ \/ /\ revision[other].status # "active"
              /\ request' = [request EXCEPT ![q].at = "deprecate.update",
                                            ![q].other = NoRevision]
           \/ /\ revision[other].status = "active"
              /\ IF LegalReplacement(other, request[q].rev)
                 THEN Goto(q, "deprecate.update")
                 ELSE End(q)
        /\ UNCHANGED <<revision, reviews, stored, index>>

\* The update of the revision itself, its event and the commit, which makes
\* the link visible, too.
CommitDeprecate(q) ==
    LET r == request[q].rev
        other == request[q].other
    IN  /\ At(q, "deprecate.update")
        /\ RowFree(q, r)
        /\ revision' = [n \in Revision |->
               IF n = r THEN [revision[n] EXCEPT !.status = "deprecated"]
               ELSE IF n = other THEN [revision[n] EXCEPT !.replaces = r]
               ELSE revision[n]]
        /\ End(q)
        /\ UNCHANGED <<reviews, stored, index>>

\* Two deprecations that wait for each other's row: one of them is cancelled.
Victim(q) ==
    /\ At(q, "deprecate.update")
    /\ \E p \in Request \ {q} : /\ At(p, "deprecate.update")
                                /\ RowHeldBy(request[q].rev, p)
                                /\ RowHeldBy(request[p].rev, q)
    /\ End(q)
    /\ UNCHANGED <<revision, reviews, stored, index>>

-----------------------------------------------------------------------------
(***************************************************************************)
(* POST /index-releases: the spans of the active revisions.                *)
(***************************************************************************)
\* Mutant: every revision that was ever decided on is compiled.
SpansFromAll == {r \in Existing : \E d \in Decision : <<r, d>> \in reviews}

SpansFrom == ActiveRevisions

BeginCompile(q) ==
    /\ At(q, "idle") /\ SpansFrom # {}
    /\ Begin(q, [Idle EXCEPT !.at = "compile.commit", !.op = "compile",
                             !.seen = SpansFrom])
    /\ UNCHANGED <<revision, reviews, stored, index>>

CommitCompile(q) ==
    /\ At(q, "compile.commit")
    /\ index' = request[q].seen
    /\ End(q)
    /\ UNCHANGED <<revision, reviews, stored>>

\* The connection is lost, or the server stops: an open transaction is rolled
\* back; an object that was put stays.
Abort(q) ==
    /\ ~At(q, "idle")
    /\ End(q)
    /\ UNCHANGED <<revision, reviews, stored, index>>

Step(q) ==
    \/ PutObject(q) \/ ReadMax(q) \/ InsertRevision(q)
    \/ InsertReview(q) \/ CommitReview(q)
    \/ LinkReplacement(q) \/ CommitDeprecate(q) \/ Victim(q)
    \/ CommitCompile(q)

Next ==
    \E q \in Request :
        \/ \E c \in Content : BeginUpload(q, c)
        \/ \E r \in Revision, d \in Decision : BeginReview(q, r, d)
        \/ \E r \in Revision, other \in Revision \cup {NoRevision} :
              BeginDeprecate(q, r, other)
        \/ BeginCompile(q)
        \/ Step(q)
        \/ Abort(q)

Spec == Init /\ [][Next]_vars

\* PostgreSQL queues the requests that wait for a row or a key, so one that
\* waits is not overtaken for ever.
FairSpec == Spec /\ \A q \in Request : SF_vars(Step(q))

-----------------------------------------------------------------------------
(***************************************************************************)
(*                             Properties                                  *)
(***************************************************************************)

TypeOK ==
    /\ revision \in [Revision -> [status : Status,
                                  replaces : Revision \cup {NoRevision},
                                  content : Content \cup {"none"}]]
    /\ reviews \subseteq Existing \X Decision
    /\ stored \subseteq Content
    /\ index \subseteq Revision
    /\ \A q \in Request :
          /\ request[q].rev \in Revision \cup {NoRevision}
          /\ request[q].other \in Revision \cup {NoRevision}
          /\ request[q].seen \subseteq Revision
          /\ request[q].attempt \in 0..(MaxAttempts - 1)

\* "A revision only becomes answerable through a recorded human decision"
\* (app.ts 1484-1488): whatever is active, and whatever the index holds even
\* if it was retired since, has a recorded approval.
AnswerableApproved ==
    \A r \in ActiveRevisions \cup index : <<r, "approve">> \in reviews

\* No resurrection (0038): a revision with a recorded rejection or retirement
\* is deprecated, also when an approval of it was under way.
RejectedStaysOut ==
    \A r \in Revision :
        (<<r, "reject">> \in reviews \/ <<r, "retire">> \in reviews)
            => revision[r].status = "deprecated"

\* Uploads that race take consecutive numbers, and no revision exists without
\* its object (app.ts 1187-1196).
NumberedAndStored ==
    \A r \in Existing : /\ \A n \in 1..r : n \in Existing
                        /\ revision[r].content \in stored

\* The revisions that one replaces, directly or through others, in at most n
\* steps.
replaced[n \in 0..MaxRevisions] ==
    [r \in Revision |->
        IF n = 0 \/ revision[r].replaces = NoRevision THEN {}
        ELSE {revision[r].replaces} \cup replaced[n - 1][revision[r].replaces]]

\* The replacement chain (0023) leads from a revision to those it replaces,
\* all of them deprecated, and never back to the revision.
ChainLeadsBack ==
    \A r \in Existing :
        /\ r \notin replaced[MaxRevisions][r]
        /\ \A n \in replaced[MaxRevisions][r] : revision[n].status = "deprecated"

\* Every request ends, those that wait for each other's rows included.
EveryRequestEnds == \A q \in Request : ~At(q, "idle") ~> At(q, "idle")
=============================================================================
