---------------------------- MODULE KnowledgeProofs ----------------------------
(***************************************************************************)
(* Proofs about KnowledgeWorkflow, for any changesets, aliases, sessions    *)
(* and requests.                                                            *)
(*                                                                         *)
(* Two arguments.  A changeset never returns to a draft, and its items only *)
(* change in a draft, so what was submitted, or read of it after that, is   *)
(* what it is and what a release pins.  And a request that has read an alias row holds it, *)
(* so the release it supersedes is still the one the alias points at when   *)
(* it commits, unless there was no row to lock.                             *)
(***************************************************************************)
EXTENDS KnowledgeWorkflow, TLAPS

Tx == [job : Job, locals : Locals]

Typed ==
    /\ TypeOK
    /\ tx \in [Session -> Tx \cup {<<>>}]
    /\ \A q \in Session : pc[q] # "idle" => tx[q] \in Tx

(* The changeset has left its draft: its items are frozen.                  *)
Frozen(c) == cstate[c] \notin {"absent", "draft"}

(* The items are those that were submitted, and those any informed approver *)
(* of them has read; before that there is no history.                       *)
HistoryIsCurrent == \A c \in Changeset :
    /\ submitted[c] = IF Frozen(c) THEN {items[c]} ELSE {}
    /\ \A r \in approved[c] : r.informed => r.items = items[c]
    /\ ~Frozen(c) => approved[c] = {}

Approves(q) == Op(q) = "move" /\ tx[q].job.to = "approved"

(* What an approver read of a frozen changeset is what it is.               *)
ReadIsCurrent ==
    \A q \in Session :
        pc[q] # "idle" /\ Approves(q) /\ Local(q).seenState \notin {"absent", "draft"}
        => Frozen(Cs(q)) /\ Local(q).seenItems = items[Cs(q)]

(* A release leaves its changeset published, for good, and pins its items.  *)
ReleasedIsPublished ==
    \A i \in 1 .. Len(releases) :
        /\ cstate[releases[i].changeset] = "published"
        /\ releases[i].items = items[releases[i].changeset]

Publishing == {"checked", "superseding", "moving", "moved"}

(* Only publications go that far, and a rollback that has locked the alias  *)
(* row found one.                                                           *)
InPlace ==
    \A q \in Session :
        /\ pc[q] \in Publishing => Op(q) = "publish"
        /\ pc[q] = "locked" /\ Op(q) = "rollback" => Local(q).prev # 0

OneHolder ==
    \A q, o \in Session : \A a \in Alias : HoldsAlias(q, a) /\ HoldsAlias(o, a) => q = o

(* A held row is the one that was read.                                     *)
HeldIsCurrent ==
    \A q \in Session : \A a \in Alias :
        HoldsAlias(q, a) /\ Local(q).prev # 0 => alias[a] = Local(q).prev

Inv ==
    /\ Typed
    /\ HistoryIsCurrent
    /\ ReadIsCurrent
    /\ ReleasedIsPublished
    /\ OneReleasePerChangeset
    /\ InPlace
    /\ OneHolder
    /\ HeldIsCurrent

-----------------------------------------------------------------------------
(* The kinds of requests and what each is about.                            *)
LEMMA JobKinds ==
    ASSUME NEW j \in Job
    PROVE  /\ j.op \in {"add", "move", "publish", "rollback"}
           /\ j.op = "add" => j.changeset \in Changeset /\ j.concept \in Concept
           /\ j.op = "move" => j.changeset \in Changeset /\ j.to \in Targets
                               /\ j.guarded \in BOOLEAN
           /\ j.op = "publish" => j.changeset \in Changeset /\ j.alias \in Alias
           /\ j.op = "rollback" => j.alias \in Alias /\ j.release \in ReleaseId
<1>1. CASE j \in AddJob
  BY <1>1 DEF AddJob
<1>2. CASE j \in MoveJob
  BY <1>2 DEF MoveJob
<1>3. CASE j \in PublishJob
  BY <1>3 DEF PublishJob
<1>4. CASE j \in RollbackJob
  BY <1>4 DEF RollbackJob
<1> QED BY <1>1, <1>2, <1>3, <1>4 DEF Job

(* The transitions: a draft is left for good, and so is a published         *)
(* changeset.                                                               *)
LEMMA Transitions ==
    ASSUME NEW s \in ChangesetState, NEW to \in CHANGESET_TRANSITIONS[s]
    PROVE  /\ to \in ChangesetState \ {"absent", "draft"}
           /\ s \notin {"absent", "published", "rejected"}
           /\ to = "approved" => s = "submitted"
           /\ to = "published" => s = "approved"
<1> DEFINE T(x) == CASE x = "draft" -> {"submitted"}
                     [] x = "submitted" -> {"changes_requested", "approved", "rejected"}
                     [] x = "changes_requested" -> {"submitted"}
                     [] x = "approved" -> {"published"}
                     [] OTHER -> {}
<1>1. to \in T(s)
  BY DEF CHANGESET_TRANSITIONS
<1>2. CASE s = "draft"
  BY <1>1, <1>2 DEF ChangesetState
<1>3. CASE s = "submitted"
  BY <1>1, <1>3 DEF ChangesetState
<1>4. CASE s = "changes_requested"
  BY <1>1, <1>4 DEF ChangesetState
<1>5. CASE s = "approved"
  BY <1>1, <1>5 DEF ChangesetState
<1>6. CASE s \notin {"draft", "submitted", "changes_requested", "approved"}
  <2>1. T(s) = {}
    BY <1>6
  <2> QED BY <1>1, <2>1
<1> QED BY <1>2, <1>3, <1>4, <1>5, <1>6

LEMMA FreshTyped == Fresh \in Locals
BY DEF Fresh, Locals, ChangesetState

LEMMA ReleaseTyped ==
    ASSUME Typed, NEW i \in 1 .. Len(releases)
    PROVE  releases[i] \in Release /\ releases[i].changeset \in Changeset
<1>1. releases \in Seq(Release)
  BY DEF Typed, TypeOK
<1>2. releases[i] \in Release
  BY <1>1
<1> QED BY <1>2 DEF Release

(* A release appended to others, some of them changed.                      *)
LEMMA Appended ==
    ASSUME NEW s \in Seq(Release), NEW t, NEW e \in Release,
           t = [i \in 1 .. Len(s) |-> t[i]],
           \A i \in 1 .. Len(s) : t[i] \in Release
    PROVE  /\ Append(t, e) \in Seq(Release)
           /\ Len(Append(t, e)) = Len(s) + 1
           /\ Append(t, e)[Len(s) + 1] = e
           /\ \A i \in 1 .. Len(s) : Append(t, e)[i] = t[i]
<1>1. Len(s) \in Nat
  OBVIOUS
<1>2. t \in Seq(Release) /\ Len(t) = Len(s)
  <2>1. t \in [1 .. Len(s) -> Release]
    OBVIOUS
  <2>2. t \in Seq(Release)
    BY <1>1, <2>1
  <2> QED BY <1>1, <2>1, <2>2
<1> HIDE DEF Release
<1> QED BY <1>1, <1>2

-----------------------------------------------------------------------------
(* What a request that ends leaves behind: the others as they are.          *)
LEMMA Ends ==
    ASSUME Inv, NEW q \in Session, Finish(q)
    PROVE  /\ pc' \in [Session -> PC]
           /\ tx' \in [Session -> Tx \cup {<<>>}]
           /\ \A o \in Session : pc'[o] # "idle" =>
                  o # q /\ pc'[o] = pc[o] /\ tx'[o] = tx[o] /\ tx'[o] \in Tx
           /\ \A o \in Session : \A a \in Alias :
                  HoldsAlias(o, a)' => o # q /\ HoldsAlias(o, a) /\ tx'[o] = tx[o]
           /\ InPlace'
           /\ OneHolder'
<1>1. pc' = [pc EXCEPT ![q] = "idle"] /\ tx' = [tx EXCEPT ![q] = <<>>]
  BY DEF Finish
<1>2. pc' \in [Session -> PC] /\ tx' \in [Session -> Tx \cup {<<>>}]
  BY <1>1 DEF Inv, Typed, TypeOK, PC
<1>3. /\ pc'[q] = "idle"
      /\ \A o \in Session \ {q} : pc'[o] = pc[o] /\ tx'[o] = tx[o]
  BY <1>1 DEF Inv, Typed, TypeOK
<1>4. \A o \in Session : pc'[o] # "idle" =>
          o # q /\ pc'[o] = pc[o] /\ tx'[o] = tx[o] /\ tx'[o] \in Tx
  BY <1>3 DEF Inv, Typed
<1>5. \A o \in Session : \A a \in Alias :
          HoldsAlias(o, a)' => o # q /\ HoldsAlias(o, a) /\ tx'[o] = tx[o]
  <2> SUFFICES ASSUME NEW o \in Session, NEW a \in Alias, HoldsAlias(o, a)'
               PROVE  o # q /\ HoldsAlias(o, a) /\ tx'[o] = tx[o]
    OBVIOUS
  <2>1. pc'[o] # "idle"
    BY DEF HoldsAlias
  <2>2. o # q /\ pc'[o] = pc[o] /\ tx'[o] = tx[o]
    BY <1>4, <2>1
  <2> QED BY <2>2 DEF HoldsAlias, Op, Al, Local
<1>6. InPlace'
  BY <1>4 DEF Inv, InPlace, Publishing, Op, Local
<1>7. OneHolder'
  BY <1>5 DEF Inv, OneHolder
<1> QED BY <1>2, <1>4, <1>5, <1>6, <1>7

(* A request that ends while nothing else changes keeps Inv.                *)
LEMMA OnlyARequestEnds ==
    ASSUME Inv, NEW q \in Session, Finish(q), UNCHANGED <<content, outcome, history>>
    PROVE  Inv'
<1>1. UNCHANGED <<cstate, items, releases, alias, submitted, approved>>
  BY DEF content, outcome, history
<1>2. Typed'
  BY <1>1, Ends DEF Inv, Typed, TypeOK, Tx
<1>3. HistoryIsCurrent' /\ ReleasedIsPublished' /\ OneReleasePerChangeset'
  BY <1>1 DEF Inv, HistoryIsCurrent, ReleasedIsPublished, OneReleasePerChangeset, Frozen
<1>4. ReadIsCurrent'
  <2>1. \A o \in Session : pc'[o] # "idle" => pc[o] # "idle" /\ tx'[o] = tx[o]
    BY Ends
  <2> QED BY <1>1, <2>1 DEF Inv, ReadIsCurrent, Approves, Frozen, Op, Local, Cs
<1>5. HeldIsCurrent'
  <2>1. \A o \in Session : \A a \in Alias :
            HoldsAlias(o, a)' => HoldsAlias(o, a) /\ tx'[o] = tx[o]
    BY Ends
  <2> QED BY <1>1, <2>1 DEF Inv, HeldIsCurrent, Local
<1> QED BY <1>2, <1>3, <1>4, <1>5, Ends DEF Inv

(* A request that moves on while nothing else changes keeps Inv if it is a  *)
(* publication where only publications are, and if the alias row it holds   *)
(* then is free and the one it has read.                                    *)
LEMMA OnlyARequestMoves ==
    ASSUME Inv, UNCHANGED <<content, outcome, history>>,
           NEW q \in Session, NEW label \in PC \ {"idle"}, NEW t \in Tx,
           pc' = [pc EXCEPT ![q] = label], tx' = [tx EXCEPT ![q] = t],
           (/\ t.job.op = "move" /\ t.job.to = "approved"
            /\ t.locals.seenState \notin {"absent", "draft"})
               => /\ Frozen(t.job.changeset)
                  /\ t.locals.seenItems = items[t.job.changeset],
           label \in Publishing => t.job.op = "publish",
           label = "locked" /\ t.job.op = "rollback" => t.locals.prev # 0,
           \A a \in Alias : HoldsAlias(q, a)' =>
               AliasFree(q, a) /\ (t.locals.prev # 0 => alias[a] = t.locals.prev)
    PROVE  Inv'
<1>1. UNCHANGED <<cstate, items, releases, alias, submitted, approved>>
  BY DEF content, outcome, history
<1>2. /\ pc'[q] = label /\ tx'[q] = t
      /\ \A o \in Session \ {q} : pc'[o] = pc[o] /\ tx'[o] = tx[o]
  BY DEF Inv, Typed, TypeOK
<1>3. Typed'
  <2>1. pc' \in [Session -> PC] /\ tx' \in [Session -> Tx \cup {<<>>}]
    BY DEF Inv, Typed, TypeOK
  <2>2. \A o \in Session : pc'[o] # "idle" => tx'[o] \in Tx
    BY <1>2 DEF Inv, Typed
  <2> QED BY <1>1, <2>1, <2>2 DEF Inv, Typed, TypeOK, Tx
<1>4. HistoryIsCurrent' /\ ReleasedIsPublished' /\ OneReleasePerChangeset'
  BY <1>1 DEF Inv, HistoryIsCurrent, ReleasedIsPublished, OneReleasePerChangeset, Frozen
<1>5. ReadIsCurrent'
  BY <1>1, <1>2 DEF Inv, ReadIsCurrent, Approves, Frozen, Op, Local, Cs
<1>6. InPlace'
  BY <1>2 DEF Inv, InPlace, Op, Local
<1>7. \A o \in Session \ {q} : \A a \in Alias : HoldsAlias(o, a)' = HoldsAlias(o, a)
  BY <1>2 DEF HoldsAlias, Op, Al, Local
<1>8. OneHolder'
  BY <1>7 DEF Inv, OneHolder, AliasFree
<1>9. HeldIsCurrent'
  <2> SUFFICES ASSUME NEW o \in Session, NEW a \in Alias,
                      HoldsAlias(o, a)', Local(o)'.prev # 0
               PROVE  alias'[a] = Local(o)'.prev
    BY DEF HeldIsCurrent
  <2>1. CASE o = q
    BY <1>1, <1>2, <2>1 DEF Local
  <2>2. CASE o # q
    BY <1>1, <1>2, <1>7, <2>2 DEF Inv, HeldIsCurrent, Local
  <2> QED BY <2>1, <2>2
<1> QED BY <1>3, <1>4, <1>5, <1>6, <1>8, <1>9 DEF Inv

-----------------------------------------------------------------------------
LEMMA InitInv == Init => Inv
<1> SUFFICES ASSUME Init PROVE Inv
  OBVIOUS
<1>1. \A q \in Session : pc[q] = "idle"
  BY DEF Init
<1>2. Typed
  <2>1. releases \in Seq(Release) /\ Len(releases) = 0
    BY DEF Init
  <2> QED BY <1>1, <2>1 DEF Init, Typed, TypeOK, ChangesetState, PC
<1>3. \A i \in 1 .. Len(releases) : FALSE
  BY DEF Init
<1>4. HistoryIsCurrent /\ ReleasedIsPublished /\ OneReleasePerChangeset
  BY <1>3 DEF Init, HistoryIsCurrent, ReleasedIsPublished, OneReleasePerChangeset, Frozen
<1>5. ReadIsCurrent /\ InPlace /\ OneHolder /\ HeldIsCurrent
  BY <1>1 DEF ReadIsCurrent, InPlace, OneHolder, HeldIsCurrent,
              HoldsAlias, Publishing
<1> QED BY <1>2, <1>4, <1>5 DEF Inv

(* Steps that decide nothing and write nothing another session can see.     *)
Reads(q) ==
    \/ lockChangeset(q) \/ FindNothingToLock(q)
    \/ LockApproved(q) \/ GateAndLockAlias(q) \/ SupersedePrevious(q)
    \/ MoveAlias(q) \/ LockCurrent(q) \/ Abort(q)

LEMMA ArrivingKeepsInv ==
    ASSUME Inv, NEW q \in Session, NEW j \in Job, Arrive(q, j)
    PROVE  Inv'
<1> DEFINE approves == j.op = "move" /\ j.to = "approved"
           reads == approves \/ (j.op = "move" /\ j.guarded)
           locals == IF approves
                     THEN [Fresh EXCEPT !.seenState = cstate[j.changeset],
                                        !.seenItems = items[j.changeset]]
                     ELSE IF j.op = "move" /\ j.guarded
                     THEN [Fresh EXCEPT !.seenState = cstate[j.changeset]]
                     ELSE Fresh
           t == [job |-> j, locals |-> locals]
<1>1. /\ pc' = [pc EXCEPT ![q] = "begin"] /\ tx' = [tx EXCEPT ![q] = t]
      /\ UNCHANGED <<content, outcome, history>>
  BY DEF Arrive
<1>2. reads => j.changeset \in Changeset
  BY JobKinds
<1>3. reads => cstate[j.changeset] \in ChangesetState /\ items[j.changeset] \in SUBSET Concept
  BY <1>2 DEF Inv, Typed, TypeOK
<1>4. locals \in Locals
  BY <1>3, FreshTyped DEF Locals
<1>5. approves /\ locals.seenState \notin {"absent", "draft"} =>
          Frozen(j.changeset) /\ locals.seenItems = items[j.changeset]
  BY DEF Fresh, Frozen
<1>6. t \in Tx /\ t.job = j /\ t.locals = locals
  BY <1>4 DEF Tx
<1> HIDE DEF t, locals
<1>7. pc'[q] = "begin"
  BY <1>1 DEF Inv, Typed, TypeOK
<1>8. \A a \in Alias : ~HoldsAlias(q, a)'
  BY <1>7 DEF HoldsAlias
<1> QED BY <1>1, <1>5, <1>6, <1>8, OnlyARequestMoves DEF PC, Publishing

LEMMA ReadsKeepInv ==
    ASSUME Inv, NEW q \in Session, Reads(q)
    PROVE  Inv'
<1>0. pc[q] # "idle" /\ tx[q] \in Tx
  BY DEF Reads, lockChangeset, FindNothingToLock, LockApproved, GateAndLockAlias,
         SupersedePrevious, MoveAlias, LockCurrent, Abort, Inv, Typed
<1>1. /\ tx[q].job \in Job /\ tx[q].locals \in Locals
      /\ tx[q] = [job |-> tx[q].job, locals |-> tx[q].locals]
  BY <1>0 DEF Tx
<1>2. Approves(q) /\ Local(q).seenState \notin {"absent", "draft"} =>
          Frozen(Cs(q)) /\ Local(q).seenItems = items[Cs(q)]
  BY <1>0 DEF Inv, ReadIsCurrent
<1>3. UNCHANGED <<content, outcome, history>>
  BY DEF Reads, lockChangeset, FindNothingToLock, LockApproved, GateAndLockAlias,
         SupersedePrevious, MoveAlias, LockCurrent, Abort
<1>4. CASE Finish(q)
  BY <1>3, <1>4, OnlyARequestEnds
(* A request that goes on to `label` with `locals`: what it read of its     *)
(* changeset is unchanged.                                                  *)
<1>5. ASSUME NEW label \in PC \ {"idle"}, NEW locals \in Locals,
             Goto(q, label, locals),
             locals.seenState = Local(q).seenState,
             locals.seenItems = Local(q).seenItems,
             label \in Publishing => Op(q) = "publish",
             label = "locked" /\ Op(q) = "rollback" => locals.prev # 0,
             (/\ label \in {"locked", "superseding", "moving", "moved"}
              /\ Op(q) \in {"publish", "rollback"})
                 => /\ locals.prev # 0 \/ label = "moved" => AliasFree(q, Al(q))
                    /\ locals.prev # 0 => alias[Al(q)] = locals.prev
      PROVE  Inv'
  <2> DEFINE t == [job |-> tx[q].job, locals |-> locals]
  <2>1. t \in Tx /\ t.job = tx[q].job /\ t.locals = locals
    BY <1>1 DEF Tx
  <2>2. pc' = [pc EXCEPT ![q] = label] /\ tx' = [tx EXCEPT ![q] = t]
    BY <1>5 DEF Goto, Inv, Typed
  <2> HIDE DEF t
  <2>3. pc'[q] = label /\ tx'[q] = t
    BY <2>2 DEF Inv, Typed, TypeOK
  <2>4. (/\ t.job.op = "move" /\ t.job.to = "approved"
         /\ t.locals.seenState \notin {"absent", "draft"})
            => /\ Frozen(t.job.changeset)
               /\ t.locals.seenItems = items[t.job.changeset]
    BY <1>2, <1>5, <2>1 DEF Approves, Op, Cs
  <2>5. ASSUME NEW a \in Alias, HoldsAlias(q, a)'
        PROVE  AliasFree(q, a) /\ (t.locals.prev # 0 => alias[a] = t.locals.prev)
    <3>1. /\ label \in {"locked", "superseding", "moving", "moved"}
          /\ Op(q) \in {"publish", "rollback"} /\ a = Al(q)
          /\ locals.prev # 0 \/ label = "moved"
      BY <2>1, <2>3, <2>5 DEF HoldsAlias, Op, Al, Local
    <3> QED BY <1>5, <2>1, <3>1
  <2>6. /\ label \in Publishing => t.job.op = "publish"
        /\ label = "locked" /\ t.job.op = "rollback" => t.locals.prev # 0
    BY <1>5, <2>1 DEF Op
  <2> QED BY <1>3, <2>1, <2>2, <2>4, <2>5, <2>6, OnlyARequestMoves
<1>6. CASE lockChangeset(q)
  <2>1. Goto(q, "locked", Local(q)) /\ Op(q) \in {"add", "move"}
    BY <1>6 DEF lockChangeset
  <2>2. Local(q) \in Locals
    BY <1>1 DEF Local
  <2> QED BY <1>5, <2>1, <2>2 DEF PC, Publishing
<1>7. CASE LockApproved(q) /\ ~Finish(q)
  <2>1. Goto(q, "checked", Local(q)) /\ Op(q) = "publish"
    BY <1>7 DEF LockApproved
  <2>2. Local(q) \in Locals
    BY <1>1 DEF Local
  <2> QED BY <1>5, <2>1, <2>2 DEF PC, Publishing
<1>8. CASE GateAndLockAlias(q) /\ ~Finish(q)
  <2> DEFINE prev == alias[Al(q)]
             label == IF prev = 0 THEN "moving" ELSE "superseding"
             locals == [Local(q) EXCEPT !.prev = prev]
  <2>1. pc[q] = "checked" /\ Op(q) = "publish"
    BY <1>8 DEF GateAndLockAlias, Inv, InPlace, Publishing
  <2>2. Al(q) \in Alias /\ prev \in Nat
    BY <1>1, <2>1, JobKinds DEF Op, Al, Inv, Typed, TypeOK
  <2>3. Goto(q, label, locals) /\ (prev # 0 => AliasFree(q, Al(q)))
    BY <1>8 DEF GateAndLockAlias
  <2>4. /\ locals \in Locals /\ locals.prev = prev
        /\ locals.seenState = Local(q).seenState
        /\ locals.seenItems = Local(q).seenItems
    BY <1>1, <2>2 DEF Locals, Local
  <2>5. label \in {"moving", "superseding"} /\ label # "moved"
    OBVIOUS
  <2> HIDE DEF locals, label, prev
  <2>6. label \in PC \ {"idle"}
    BY <2>5 DEF PC
  <2> QED BY <1>5, <2>1, <2>3, <2>4, <2>5, <2>6 DEF prev
<1>9. CASE SupersedePrevious(q)
  <2> DEFINE matches == releases[Local(q).prev].state = "published"
             locals == [Local(q) EXCEPT !.superseding = matches]
  <2>1. pc[q] = "superseding" /\ Op(q) = "publish" /\ Goto(q, "moving", locals)
    BY <1>9 DEF SupersedePrevious, Inv, InPlace, Publishing
  <2>2. Al(q) \in Alias
    BY <1>1, <2>1, JobKinds DEF Op, Al
  <2>3. /\ locals \in Locals /\ locals.prev = Local(q).prev
        /\ locals.seenState = Local(q).seenState
        /\ locals.seenItems = Local(q).seenItems
    BY <1>1 DEF Locals, Local
  <2> HIDE DEF locals
  <2>4. Local(q).prev # 0 => HoldsAlias(q, Al(q))
    BY <2>1 DEF HoldsAlias
  <2>5. Local(q).prev # 0 => AliasFree(q, Al(q)) /\ alias[Al(q)] = Local(q).prev
    BY <2>2, <2>4 DEF Inv, OneHolder, HeldIsCurrent, AliasFree
  <2> QED BY <1>5, <2>1, <2>3, <2>5 DEF PC, Publishing
<1>10. CASE MoveAlias(q)
  <2>1. /\ pc[q] = "moving" /\ Op(q) = "publish"
        /\ AliasFree(q, Al(q)) /\ Goto(q, "moved", Local(q))
    BY <1>10 DEF MoveAlias, Inv, InPlace, Publishing
  <2>2. Al(q) \in Alias
    BY <1>1, <2>1, JobKinds DEF Op, Al
  <2>3. Local(q).prev # 0 => HoldsAlias(q, Al(q))
    BY <2>1 DEF HoldsAlias
  <2>4. Local(q).prev # 0 => alias[Al(q)] = Local(q).prev
    BY <2>2, <2>3 DEF Inv, HeldIsCurrent
  <2>5. Local(q) \in Locals
    BY <1>1 DEF Local
  <2> QED BY <1>5, <2>1, <2>4, <2>5 DEF PC, Publishing
<1>11. CASE LockCurrent(q) /\ ~Finish(q)
  <2> DEFINE current == alias[Al(q)]
             locals == [Local(q) EXCEPT !.prev = current]
  <2>1. /\ Op(q) = "rollback" /\ Goto(q, "locked", locals)
        /\ current # 0 /\ AliasFree(q, Al(q))
    BY <1>11 DEF LockCurrent
  <2>2. Al(q) \in Alias /\ current \in Nat
    BY <1>1, <2>1, JobKinds DEF Op, Al, Inv, Typed, TypeOK
  <2>3. /\ locals \in Locals /\ locals.prev = current
        /\ locals.seenState = Local(q).seenState
        /\ locals.seenItems = Local(q).seenItems
    BY <1>1, <2>2 DEF Locals, Local
  <2> HIDE DEF locals, current
  <2> QED BY <1>5, <2>1, <2>3 DEF PC, Publishing, current
<1> QED BY <1>4, <1>6, <1>7, <1>8, <1>9, <1>10, <1>11
        DEF Reads, FindNothingToLock, Abort

(* Steps that write the changeset: its items change in a draft only, which  *)
(* no approval, release or current copy of it depends on.                   *)
LEMMA ChangesetWritesKeepInv ==
    ASSUME Inv,
           \/ \E c \in Changeset : createChangeset(c)
           \/ \E q \in Session : addChangesetItem(q) \/ transitionChangeset(q)
    PROVE  Inv'
<1>1. ASSUME NEW c \in Changeset, createChangeset(c) PROVE Inv'
  <2>1. /\ cstate[c] = "absent" /\ cstate' = [cstate EXCEPT ![c] = "draft"]
        /\ UNCHANGED <<items, releases, alias, submitted, approved, pc, tx>>
    BY <1>1 DEF createChangeset, outcome, history
  <2>2. /\ cstate' \in [Changeset -> ChangesetState]
        /\ cstate'[c] = "draft" /\ \A d \in Changeset \ {c} : cstate'[d] = cstate[d]
    BY <2>1 DEF Inv, Typed, TypeOK, ChangesetState
  <2>3. Typed'
    BY <2>1, <2>2 DEF Inv, Typed, TypeOK
  <2>4. \A d \in Changeset : Frozen(d)' = Frozen(d)
    BY <2>1, <2>2 DEF Frozen
  <2>5. HistoryIsCurrent'
    BY <2>1, <2>4 DEF Inv, HistoryIsCurrent
  <2>6. ReadIsCurrent'
    <3> SUFFICES ASSUME NEW q \in Session, pc[q] # "idle", Approves(q),
                        Local(q).seenState \notin {"absent", "draft"}
                 PROVE  Frozen(Cs(q))' /\ Local(q).seenItems = items[Cs(q)]
      BY <2>1 DEF ReadIsCurrent, Approves, Op, Cs, Local
    <3>1. Cs(q) \in Changeset /\ UNCHANGED Cs(q)
      BY <2>1, JobKinds DEF Inv, Typed, Tx, Approves, Op, Cs
    <3>2. Frozen(Cs(q)) /\ Local(q).seenItems = items[Cs(q)]
      BY DEF Inv, ReadIsCurrent
    <3> QED BY <2>2, <3>1, <3>2, <2>1 DEF Frozen
  <2>7. ReleasedIsPublished' /\ OneReleasePerChangeset'
    <3>1. \A i \in 1 .. Len(releases) : releases[i].changeset \in Changeset
      BY ReleaseTyped DEF Inv
    <3> QED BY <2>1, <2>2, <3>1 DEF Inv, ReleasedIsPublished, OneReleasePerChangeset
  <2>8. InPlace' /\ OneHolder' /\ HeldIsCurrent'
    BY <2>1 DEF Inv, InPlace, OneHolder, HeldIsCurrent, HoldsAlias,
                Op, Al, Local
  <2> QED BY <2>3, <2>5, <2>6, <2>7, <2>8 DEF Inv
(* What is left of the two requests on a changeset once their own writes    *)
(* are known: they end, and no release and no alias changes.                *)
<1>2. ASSUME NEW q \in Session, pc[q] = "locked", Op(q) \in {"add", "move"},
             Finish(q), UNCHANGED <<releases, alias>>,
             cstate' \in [Changeset -> ChangesetState],
             items' \in [Changeset -> SUBSET Concept],
             submitted' \in [Changeset -> SUBSET SUBSET Concept],
             approved' \in [Changeset -> SUBSET Review],
             \A d \in Changeset : Frozen(d) =>
                 /\ Frozen(d)' /\ items'[d] = items[d]
                 /\ cstate[d] = "published" => cstate'[d] = "published",
             HistoryIsCurrent'
      PROVE  Inv'
  <2>1. Typed'
    BY <1>2, Ends DEF Inv, Typed, TypeOK, Tx
  <2>2. HistoryIsCurrent'
    BY <1>2
  <2>3. ReadIsCurrent'
    <3> SUFFICES ASSUME NEW o \in Session, pc'[o] # "idle", Approves(o)',
                        Local(o)'.seenState \notin {"absent", "draft"}
                 PROVE  Frozen(Cs(o))' /\ Local(o)'.seenItems = items'[Cs(o)']
      BY DEF ReadIsCurrent
    <3>1. pc[o] # "idle" /\ tx'[o] = tx[o] /\ tx[o] \in Tx
      BY <1>2, Ends
    <3>2. /\ Op(o)' = Op(o) /\ Cs(o)' = Cs(o) /\ Local(o)' = Local(o)
          /\ Approves(o) /\ Cs(o) \in Changeset
      BY <3>1, JobKinds DEF Approves, Op, Cs, Local, Tx
    <3>3. Frozen(Cs(o)) /\ Local(o).seenItems = items[Cs(o)]
      BY <3>1, <3>2 DEF Inv, ReadIsCurrent
    <3>4. Frozen(Cs(o))' <=> cstate'[Cs(o)] \notin {"absent", "draft"}
      BY <3>2 DEF Frozen
    <3>5. cstate'[Cs(o)] \notin {"absent", "draft"} /\ items'[Cs(o)] = items[Cs(o)]
      BY <1>2, <3>2, <3>3 DEF Frozen
    <3> QED BY <3>2, <3>3, <3>4, <3>5
  <2>4. ReleasedIsPublished' /\ OneReleasePerChangeset'
    <3>1. \A i \in 1 .. Len(releases) : releases[i].changeset \in Changeset
      BY ReleaseTyped DEF Inv
    <3>2. \A d \in Changeset : cstate[d] = "published" =>
              cstate'[d] = "published" /\ items'[d] = items[d]
      BY <1>2 DEF Frozen
    <3> QED BY <1>2, <3>1, <3>2 DEF Inv, ReleasedIsPublished, OneReleasePerChangeset
  <2>5. HeldIsCurrent'
    BY <1>2, Ends DEF Inv, HeldIsCurrent, Local
  <2> QED BY <1>2, <2>1, <2>2, <2>3, <2>4, <2>5, Ends DEF Inv
<1>3. ASSUME NEW q \in Session, addChangesetItem(q) PROVE Inv'
  <2> DEFINE c == Cs(q)
             concept == tx[q].job.concept
  <2>1. /\ pc[q] = "locked" /\ Op(q) = "add" /\ Finish(q)
        /\ UNCHANGED <<cstate, releases, alias, submitted, approved>>
        /\ \/ cstate[c] \in Editable /\ items' = [items EXCEPT ![c] = @ \cup {concept}]
           \/ UNCHANGED items
    BY <1>3 DEF addChangesetItem, outcome, history
  <2>2. c \in Changeset /\ concept \in Concept
    BY <2>1, JobKinds DEF Inv, Typed, Tx, Op, Cs
  <2> HIDE DEF c, concept
  <2>3. /\ items' \in [Changeset -> SUBSET Concept]
        /\ \A d \in Changeset : Frozen(d) => items'[d] = items[d]
    BY <2>1, <2>2 DEF Inv, Typed, TypeOK, Editable, Frozen
  <2>4. \A d \in Changeset : Frozen(d)' = Frozen(d)
    BY <2>1 DEF Frozen
  <2>5. HistoryIsCurrent'
    BY <2>1, <2>3, <2>4 DEF Inv, HistoryIsCurrent
  <2>6. /\ cstate' \in [Changeset -> ChangesetState]
        /\ submitted' \in [Changeset -> SUBSET SUBSET Concept]
        /\ approved' \in [Changeset -> SUBSET Review]
    BY <2>1 DEF Inv, Typed, TypeOK
  <2> QED BY <1>2, <2>1, <2>3, <2>4, <2>5, <2>6
<1>4. ASSUME NEW q \in Session, transitionChangeset(q) PROVE Inv'
  <2> DEFINE c == Cs(q)
             to == tx[q].job.to
             expects == tx[q].job.guarded
             moves == /\ expects => Local(q).seenState = cstate[c]
                      /\ to \in CHANGESET_TRANSITIONS[cstate[c]]
             informed == expects \/ Local(q).seenState \notin {"absent", "draft"}
             review == [items |-> Local(q).seenItems, informed |-> informed]
             decides == to = "approved"
             submits == cstate[c] = "draft"
  <2>1. /\ pc[q] = "locked" /\ Op(q) = "move" /\ Finish(q)
        /\ UNCHANGED <<items, releases, alias>>
    BY <1>4 DEF transitionChangeset, outcome
  <2>2. CASE ~moves
    BY <1>4, <2>1, <2>2, OnlyARequestEnds DEF transitionChangeset, content, outcome, history
  <2>3. CASE moves
    <3>1. /\ cstate' = [cstate EXCEPT ![c] = to]
          /\ submitted' = IF submits THEN [submitted EXCEPT ![c] = {items[c]}] ELSE submitted
          /\ approved' = IF decides THEN [approved EXCEPT ![c] = {review}] ELSE approved
      BY <1>4, <2>3 DEF transitionChangeset
    <3>2. /\ tx[q] \in Tx /\ c \in Changeset
          /\ review \in Review /\ review.informed = informed
          /\ review.items = Local(q).seenItems
      BY <2>1, JobKinds DEF Inv, Typed, Tx, Op, Cs, Local, Locals, Review
    <3>3. cstate[c] \in ChangesetState /\ items[c] \in SUBSET Concept
      BY <3>2 DEF Inv, Typed, TypeOK
    <3>4. /\ to \in ChangesetState \ {"absent", "draft"}
          /\ cstate[c] \notin {"absent", "published"}
          /\ to = "approved" => cstate[c] = "submitted"
      BY <2>3, <3>3, Transitions
    <3>5. decides /\ informed => Local(q).seenItems = items[c]
      <4>1. decides /\ informed => Local(q).seenState \notin {"absent", "draft"}
        BY <2>3, <3>4
      <4> QED BY <2>1, <4>1 DEF Inv, ReadIsCurrent, Approves
    <3> HIDE DEF c, to, decides, submits, informed, review
    <3>6. /\ cstate' \in [Changeset -> ChangesetState]
          /\ cstate'[c] = to /\ \A d \in Changeset \ {c} : cstate'[d] = cstate[d]
      BY <3>1, <3>2, <3>4 DEF Inv, Typed, TypeOK
    <3>7. /\ approved' \in [Changeset -> SUBSET Review]
          /\ \A d \in Changeset \ {c} : approved'[d] = approved[d]
          /\ approved'[c] = IF decides THEN {review} ELSE approved[c]
      BY <3>1, <3>2 DEF Inv, Typed, TypeOK
    <3>8. /\ submitted' \in [Changeset -> SUBSET SUBSET Concept]
          /\ \A d \in Changeset \ {c} : submitted'[d] = submitted[d]
          /\ submitted'[c] = IF submits THEN {items[c]} ELSE submitted[c]
      BY <3>1, <3>2, <3>3 DEF Inv, Typed, TypeOK
    <3>9. \A d \in Changeset : Frozen(d) =>
              Frozen(d)' /\ (cstate[d] = "published" => cstate'[d] = "published")
      BY <3>4, <3>6 DEF Frozen
    <3>10. ASSUME NEW d \in Changeset
           PROVE  /\ submitted'[d] = IF Frozen(d)' THEN {items'[d]} ELSE {}
                  /\ \A r \in approved'[d] : r.informed => r.items = items'[d]
                  /\ ~Frozen(d)' => approved'[d] = {}
      <4>1. CASE d = c
        <5>1. cstate'[d] \notin {"absent", "draft"} /\ (Frozen(d) <=> ~submits)
          BY <2>3, <3>3, <3>4, <3>6, <4>1 DEF Frozen, submits
        <5>2. submitted'[d] = {items[d]}
          BY <3>2, <3>8, <4>1, <5>1 DEF Inv, HistoryIsCurrent
        <5>3. \A r \in approved'[d] : r.informed => r.items = items[d]
          BY <3>2, <3>5, <3>7, <4>1 DEF Inv, HistoryIsCurrent
        <5>4. items'[d] = items[d]
          BY <2>1
        <5> QED BY <5>1, <5>2, <5>3, <5>4 DEF Frozen
      <4>2. CASE d # c
        <5>1. cstate'[d] = cstate[d] /\ UNCHANGED items
          BY <2>1, <3>6, <4>2
        <5> QED BY <3>7, <3>8, <4>2, <5>1 DEF Inv, HistoryIsCurrent, Frozen
      <4> QED BY <4>1, <4>2
    <3>11. items' \in [Changeset -> SUBSET Concept]
      BY <2>1 DEF Inv, Typed, TypeOK
    <3>12. HistoryIsCurrent'
      BY <3>10 DEF HistoryIsCurrent
    <3> QED BY <1>2, <2>1, <3>6, <3>7, <3>8, <3>9, <3>11, <3>12
  <2> QED BY <2>2, <2>3
<1> QED BY <1>1, <1>3, <1>4

(* Steps that move an alias: the one that makes them holds the alias row.   *)
LEMMA RollBackKeepsInv ==
    ASSUME Inv, NEW q \in Session, RollBack(q)
    PROVE  Inv'
<1> DEFINE a == Al(q)
           target == tx[q].job.release
           moves == target <= Len(releases) /\ releases[target].state # "created"
<1>1. /\ pc[q] = "locked" /\ Op(q) = "rollback" /\ Finish(q)
      /\ UNCHANGED <<cstate, items, releases, submitted, approved>>
  BY DEF RollBack, content, history
<1>2. CASE ~moves
  BY <1>1, <1>2, OnlyARequestEnds DEF RollBack, content, outcome, history
<1>3. CASE moves
  <2>1. alias' = [alias EXCEPT ![a] = target]
    BY <1>3 DEF RollBack
  <2>2. a \in Alias /\ target \in ReleaseId
    BY <1>1, JobKinds DEF Inv, Typed, Tx, Op, Al
  <2>3. target \in 0 .. Len(releases)
    <3>1. Len(releases) \in Nat
      BY DEF Inv, Typed, TypeOK
    <3> QED BY <1>3, <2>2, <3>1 DEF ReleaseId
  <2> HIDE DEF a, target
  <2>4. /\ alias' \in [Alias -> 0 .. Len(releases)]
        /\ \A b \in Alias \ {a} : alias'[b] = alias[b]
    BY <2>1, <2>2, <2>3 DEF Inv, Typed, TypeOK
  <2>5. Typed'
    BY <1>1, <2>4, Ends DEF Inv, Typed, TypeOK, Tx
  <2>6. HistoryIsCurrent' /\ ReleasedIsPublished' /\ OneReleasePerChangeset'
    BY <1>1 DEF Inv, HistoryIsCurrent, ReleasedIsPublished, OneReleasePerChangeset, Frozen
  <2>7. ReadIsCurrent'
    <3>1. \A o \in Session : pc'[o] # "idle" => pc[o] # "idle" /\ tx'[o] = tx[o]
      BY <1>1, Ends
    <3> QED BY <1>1, <3>1 DEF Inv, ReadIsCurrent, Approves, Frozen, Op, Local, Cs
  <2>8. HeldIsCurrent'
    <3> SUFFICES ASSUME NEW o \in Session, NEW b \in Alias, HoldsAlias(o, b)',
                        Local(o)'.prev # 0
                 PROVE  alias'[b] = Local(o)'.prev
      BY DEF HeldIsCurrent
    <3>1. o # q /\ HoldsAlias(o, b) /\ tx'[o] = tx[o]
      BY <1>1, Ends
    <3>2. HoldsAlias(q, a)
      BY <1>1 DEF HoldsAlias, Inv, InPlace, a
    <3>3. b # a
      BY <2>2, <3>1, <3>2 DEF Inv, OneHolder
    <3> QED BY <2>4, <3>1, <3>3 DEF Inv, HeldIsCurrent, Local
  <2> QED BY <1>1, <2>5, <2>6, <2>7, <2>8, Ends DEF Inv
<1> QED BY <1>2, <1>3

(* What the commit of a publication does, and the row it holds.             *)
LEMMA CommitOf ==
    ASSUME Inv, NEW q \in Session, CommitPublication(q), ~UNCHANGED releases
    PROVE  LET c == Cs(q)
               n == Len(releases) + 1
           IN
           /\ c \in Changeset /\ Al(q) \in Alias /\ n \in Nat \ {0}
           /\ cstate[c] = "approved" /\ cstate' = [cstate EXCEPT ![c] = "published"]
           /\ alias' = [alias EXCEPT ![Al(q)] = n]
           /\ releases' \in Seq(Release) /\ Len(releases') = n
           /\ releases'[n] = [changeset |-> c, items |-> items[c], state |-> "published"]
           /\ \A i \in 1 .. Len(releases) :
                  /\ releases'[i].changeset = releases[i].changeset
                  /\ releases'[i].items = releases[i].items
                  /\ \/ releases'[i].state = releases[i].state
                     \/ alias[Al(q)] = i
           /\ HoldsAlias(q, Al(q))
<1> DEFINE c == Cs(q)
           Left(i) == Local(q).superseding /\ i = Local(q).prev
           new == [changeset |-> c, items |-> items[c], state |-> "published"]
           rest == [i \in 1 .. Len(releases) |->
                       IF Left(i) THEN [releases[i] EXCEPT !.state = "superseded"]
                       ELSE releases[i]]
<1>1. /\ pc[q] = "moved" /\ Op(q) = "publish"
      /\ "published" \in CHANGESET_TRANSITIONS[cstate[c]]
      /\ releases' = Append(rest, new)
      /\ alias' = [alias EXCEPT ![Al(q)] = Len(releases) + 1]
      /\ cstate' = [cstate EXCEPT ![c] = "published"]
  BY DEF CommitPublication, Inv, InPlace, Publishing
<1>2. c \in Changeset /\ Al(q) \in Alias
  BY <1>1, JobKinds DEF Inv, Typed, Tx, Op, Cs, Al
<1>3. cstate[c] = "approved"
  BY <1>1, <1>2, Transitions DEF Inv, Typed, TypeOK
<1>4. new \in Release
  BY <1>2 DEF Inv, Typed, TypeOK, Release
<1>5. releases \in Seq(Release) /\ Len(releases) \in Nat
  BY DEF Inv, Typed, TypeOK
<1>6. HoldsAlias(q, Al(q))
  BY <1>1 DEF HoldsAlias
<1>7. ASSUME NEW i \in 1 .. Len(releases)
      PROVE  /\ rest[i] \in Release
             /\ rest[i].changeset = releases[i].changeset
             /\ rest[i].items = releases[i].items
             /\ rest[i].state = releases[i].state \/ alias[Al(q)] = i
  <2>1. releases[i] \in Release
    BY <1>5
  <2>2. CASE ~Left(i)
    BY <2>1, <2>2
  <2>3. CASE Left(i)
    <3>1. rest[i] = [releases[i] EXCEPT !.state = "superseded"]
      BY <2>3
    <3>2. alias[Al(q)] = i
      BY <1>2, <1>6, <2>3 DEF Inv, HeldIsCurrent
    <3> QED BY <2>1, <3>1, <3>2 DEF Release
  <2> QED BY <2>2, <2>3
<1>8. rest = [i \in 1 .. Len(releases) |-> rest[i]]
  OBVIOUS
<1> HIDE DEF rest, new
<1>9. /\ releases' \in Seq(Release) /\ Len(releases') = Len(releases) + 1
      /\ releases'[Len(releases) + 1] = new
      /\ \A i \in 1 .. Len(releases) : releases'[i] = rest[i]
  BY <1>1, <1>4, <1>5, <1>7, <1>8, Appended
<1> QED BY <1>1, <1>2, <1>3, <1>5, <1>6, <1>7, <1>9 DEF new

LEMMA CommitKeepsInv ==
    ASSUME Inv, NEW q \in Session, CommitPublication(q)
    PROVE  Inv'
<1> DEFINE c == Cs(q)
           n == Len(releases) + 1
<1>1. Finish(q) /\ UNCHANGED <<items, submitted, approved>>
  BY DEF CommitPublication, history
<1>2. CASE UNCHANGED releases
  <2>1. "published" \notin CHANGESET_TRANSITIONS[cstate[c]]
    <3>1. Len(releases) \in Nat
      BY DEF Inv, Typed, TypeOK
    <3> SUFFICES ASSUME "published" \in CHANGESET_TRANSITIONS[cstate[c]]
                 PROVE  FALSE
      OBVIOUS
    <3> DEFINE rest == [i \in 1 .. Len(releases) |->
                  IF Local(q).superseding /\ i = Local(q).prev
                  THEN [releases[i] EXCEPT !.state = "superseded"] ELSE releases[i]]
               new == [changeset |-> c, items |-> items[c], state |-> "published"]
    <3>2. releases = Append(rest, new)
      BY <1>2 DEF CommitPublication
    <3> QED BY <3>1, <3>2
  <2>2. UNCHANGED <<cstate, alias>>
    BY <2>1 DEF CommitPublication
  <2> QED BY <1>1, <1>2, <2>2, OnlyARequestEnds DEF content, outcome, history
<1>3. CASE ~UNCHANGED releases
  <2>1. /\ c \in Changeset /\ Al(q) \in Alias /\ n \in Nat \ {0}
        /\ cstate[c] = "approved" /\ cstate' = [cstate EXCEPT ![c] = "published"]
        /\ alias' = [alias EXCEPT ![Al(q)] = n]
        /\ HoldsAlias(q, Al(q))
    BY <1>3, CommitOf
  <2>2. /\ releases' \in Seq(Release) /\ Len(releases') = n
        /\ releases'[n] = [changeset |-> c, items |-> items[c], state |-> "published"]
        /\ \A i \in 1 .. Len(releases) :
               /\ releases'[i].changeset = releases[i].changeset
               /\ releases'[i].items = releases[i].items
    BY <1>3, CommitOf
  <2>3. Len(releases) \in Nat /\ \A i \in 1 .. n : i = n \/ i \in 1 .. Len(releases)
    <3>1. Len(releases) \in Nat
      BY DEF Inv, Typed, TypeOK
    <3> QED BY <3>1
  <2> HIDE DEF c, n
  <2>4. /\ cstate' \in [Changeset -> ChangesetState]
        /\ cstate'[c] = "published"
        /\ \A d \in Changeset \ {c} : cstate'[d] = cstate[d]
    BY <2>1 DEF Inv, Typed, TypeOK, ChangesetState
  <2>5. /\ alias' \in [Alias -> 0 .. n]
        /\ \A b \in Alias \ {Al(q)} : alias'[b] = alias[b]
    <3>1. alias \in [Alias -> 0 .. Len(releases)]
      BY DEF Inv, Typed, TypeOK
    <3>2. 0 .. Len(releases) \subseteq 0 .. n /\ n \in 0 .. n
      BY <2>1, <2>3 DEF n
    <3> QED BY <2>1, <3>1, <3>2
  <2>6. Typed'
    BY <1>1, <2>2, <2>4, <2>5, Ends DEF Inv, Typed, TypeOK, Tx
  <2>7. \A d \in Changeset : Frozen(d)' = Frozen(d)
    BY <2>1, <2>4 DEF Frozen
  <2>8. HistoryIsCurrent'
    BY <1>1, <2>7 DEF Inv, HistoryIsCurrent
  <2>9. ReadIsCurrent'
    <3> SUFFICES ASSUME NEW o \in Session, pc'[o] # "idle", Approves(o)',
                        Local(o)'.seenState \notin {"absent", "draft"}
                 PROVE  Frozen(Cs(o))' /\ Local(o)'.seenItems = items'[Cs(o)']
      BY DEF ReadIsCurrent
    <3>1. pc[o] # "idle" /\ tx'[o] = tx[o] /\ tx[o] \in Tx
      BY <1>1, Ends
    <3>2. /\ Op(o)' = Op(o) /\ Cs(o)' = Cs(o) /\ Local(o)' = Local(o)
          /\ Approves(o) /\ Cs(o) \in Changeset
      BY <3>1, JobKinds DEF Approves, Op, Cs, Local, Tx
    <3>3. Frozen(Cs(o)) /\ Local(o).seenItems = items[Cs(o)]
      BY <3>1, <3>2 DEF Inv, ReadIsCurrent
    <3> QED BY <1>1, <2>1, <2>4, <3>2, <3>3 DEF Frozen
  <2>10. \A i \in 1 .. Len(releases) : /\ releases[i].changeset \in Changeset \ {c}
                                       /\ cstate[releases[i].changeset] = "published"
    BY <2>1, ReleaseTyped DEF Inv, ReleasedIsPublished
  <2>11. ReleasedIsPublished'
    <3> SUFFICES ASSUME NEW i \in 1 .. n
                 PROVE  /\ cstate'[releases'[i].changeset] = "published"
                        /\ releases'[i].items = items'[releases'[i].changeset]
      BY <2>2 DEF ReleasedIsPublished
    <3>1. CASE i = n
      BY <1>1, <2>2, <2>4, <3>1
    <3>2. CASE i \in 1 .. Len(releases)
      BY <1>1, <2>2, <2>4, <2>10, <3>2 DEF Inv, ReleasedIsPublished
    <3> QED BY <2>3, <3>1, <3>2
  <2>12. OneReleasePerChangeset'
    <3> SUFFICES ASSUME NEW i \in 1 .. n, NEW j \in 1 .. n,
                        releases'[i].changeset = releases'[j].changeset
                 PROVE  i = j
      BY <2>2 DEF OneReleasePerChangeset
    <3>1. CASE i \in 1 .. Len(releases) /\ j \in 1 .. Len(releases)
      BY <2>2, <3>1 DEF Inv, OneReleasePerChangeset
    <3>2. CASE i = n \/ j = n
      BY <2>2, <2>3, <2>10, <3>2
    <3> QED BY <2>3, <3>1, <3>2
  <2>13. HeldIsCurrent'
    <3> SUFFICES ASSUME NEW o \in Session, NEW b \in Alias, HoldsAlias(o, b)',
                        Local(o)'.prev # 0
                 PROVE  alias'[b] = Local(o)'.prev
      BY DEF HeldIsCurrent
    <3>1. o # q /\ HoldsAlias(o, b) /\ tx'[o] = tx[o]
      BY <1>1, Ends
    <3>2. b # Al(q)
      BY <2>1, <3>1 DEF Inv, OneHolder
    <3> QED BY <2>5, <3>1, <3>2 DEF Inv, HeldIsCurrent, Local
  <2> QED BY <1>1, <2>6, <2>8, <2>9, <2>11, <2>12, <2>13, Ends DEF Inv
<1> QED BY <1>2, <1>3

LEMMA StepKeepsInv == Inv /\ [Next]_vars => Inv'
<1> SUFFICES ASSUME Inv, [Next]_vars PROVE Inv'
  OBVIOUS
<1>1. CASE UNCHANGED vars
  BY <1>1 DEF vars, content, outcome, history, Inv, Typed, TypeOK, HistoryIsCurrent,
              Frozen, ReadIsCurrent, Approves, ReleasedIsPublished, OneReleasePerChangeset,
              InPlace, OneHolder, HeldIsCurrent, HoldsAlias, Op, Cs, Al, Local
<1>2. ASSUME NEW q \in Session, Step(q) \/ Abort(q) PROVE Inv'
  <2>1. CASE Reads(q)
    BY <2>1, ReadsKeepInv
  <2>2. CASE addChangesetItem(q) \/ transitionChangeset(q)
    BY <2>2, ChangesetWritesKeepInv
  <2>3. CASE CommitPublication(q) \/ RollBack(q)
    BY <2>3, CommitKeepsInv, RollBackKeepsInv
  <2> QED BY <1>2, <2>1, <2>2, <2>3 DEF Step, Reads
<1> QED BY <1>1, <1>2, ArrivingKeepsInv, ChangesetWritesKeepInv DEF Next

LEMMA Invariant == Spec => []Inv
BY InitInv, StepKeepsInv, PTL DEF Spec

-----------------------------------------------------------------------------
(* Changesets, releases, aliases, approvals and every request's locals are  *)
(* of their types; an alias points at a release that exists.                *)
THEOREM TypeCorrect == Spec => []TypeOK
<1>1. Inv => TypeOK
  BY DEF Inv, Typed
<1> QED BY <1>1, Invariant, PTL

(* publishChangeset: no changeset becomes a release twice, however          *)
(* publications, transitions and crashes interleave.                        *)
THEOREM ReleasedOnce == Spec => []OneReleasePerChangeset
<1>1. Inv => OneReleasePerChangeset
  BY DEF Inv
<1> QED BY <1>1, Invariant, PTL

(* transitionChangeset and publishChangeset: a release pins the items that  *)
(* were submitted, and an approver who named the state it expects, or had   *)
(* read the changeset after its submission, has read just those, whoever    *)
(* sent requests in between.                                                *)
THEOREM SubmissionIsPinned == Spec => []ReleasedAsSubmitted
<1>1. ASSUME Inv, NEW i \in 1 .. Len(releases), NEW c, c = releases[i].changeset
      PROVE  /\ submitted[c] = {releases[i].items}
             /\ \A r \in approved[c] : r.informed => r.items = releases[i].items
  <2>1. c \in Changeset /\ cstate[c] = "published" /\ releases[i].items = items[c]
    BY <1>1, ReleaseTyped DEF Inv, ReleasedIsPublished
  <2> QED BY <1>1, <2>1 DEF Inv, HistoryIsCurrent, Frozen
<1>2. Inv => ReleasedAsSubmitted
  BY <1>1 DEF ReleasedAsSubmitted
<1> QED BY <1>2, Invariant, PTL

(* The update of the previous release in publishChangeset: a release is     *)
(* superseded only by the publication that takes an alias away from it.     *)
THEOREM SupersedingIsSound == Spec => SupersededWhenLeft
<1> DEFINE Left(i) == \E a \in Alias : /\ alias[a] = i /\ alias'[a] # i
                                       /\ releases'[alias'[a]].state = "published"
           Sound == \A i \in 1 .. Len(releases) :
               releases[i].state = "published" /\ releases'[i].state = "superseded"
               => Left(i)
<1>1. Inv /\ [Next]_vars => [Sound]_vars
  <2> SUFFICES ASSUME Inv, Next, NEW i \in 1 .. Len(releases),
                      releases[i].state # releases'[i].state
               PROVE  Left(i)
    OBVIOUS
  <2>1. ~UNCHANGED releases
    OBVIOUS
  <2>2. PICK q \in Session : CommitPublication(q)
    BY <2>1 DEF Next, createChangeset, Arrive, Step, lockChangeset, FindNothingToLock,
        addChangesetItem, transitionChangeset, LockApproved, GateAndLockAlias,
        SupersedePrevious, MoveAlias, LockCurrent, RollBack, Abort, outcome
  <2>3. /\ Al(q) \in Alias /\ alias[Al(q)] = i
        /\ alias' = [alias EXCEPT ![Al(q)] = Len(releases) + 1]
        /\ releases'[Len(releases) + 1].state = "published"
    <3> HIDE DEF Left
    <3>1. /\ Al(q) \in Alias
          /\ alias' = [alias EXCEPT ![Al(q)] = Len(releases) + 1]
          /\ releases'[Len(releases) + 1]
                 = [changeset |-> Cs(q), items |-> items[Cs(q)], state |-> "published"]
          /\ releases'[i].state = releases[i].state \/ alias[Al(q)] = i
      BY <2>1, <2>2, CommitOf
    <3> QED BY <3>1
  <2>4. alias'[Al(q)] = Len(releases) + 1 /\ Len(releases) + 1 # i
    BY <2>3 DEF Inv, Typed, TypeOK
  <2> QED BY <2>3, <2>4
<1> QED BY <1>1, Invariant, PTL DEF Spec, SupersededWhenLeft
=============================================================================
