-------------------------- MODULE KnowledgeWorkflow --------------------------
(***************************************************************************)
(* Changesets, their review and the knowledge releases they become          *)
(* (apps/api/src/knowledge): editors collect concept revisions in a draft,  *)
(* reviewers decide on what they have read, and a publication turns an      *)
(* approved changeset into a release and moves an alias to it.              *)
(*                                                                         *)
(* Every request is one READ COMMITTED transaction that begins by locking   *)
(* the changeset (or, for a rollback, the alias) and whose writes are       *)
(* private until it commits.  The requests are those the permission checks  *)
(* let through; each session sends one after the other.                     *)
(***************************************************************************)
EXTENDS Naturals, Sequences, FiniteSets

CONSTANTS
    Changeset,
    Concept,         \* a changeset proposes one revision of a concept at most
    Alias,           \* 'staging', 'production'
    Session,         \* editors and reviewers with a request in flight
    (* Bounds of an instance. *)
    Evidence,        \* the evaluation runs a publication may bring along
    FlagValues,      \* the values the enforcement flag evaluates to
    Targets          \* the states a transition may be asked for

ASSUME EvidenceAssumption == Evidence \subseteq {"none", "passed", "failed"}
ASSUME FlagAssumption == FlagValues \subseteq BOOLEAN
ASSUME TargetAssumption ==
    Targets \subseteq {"submitted", "changes_requested", "approved", "published", "rejected"}

VARIABLES
    cstate,      \* knowledge_changesets.state
    items,       \* changeset_items
    releases,    \* knowledge_releases, with knowledge_release_items
    alias,       \* knowledge_release_aliases.release_id, 0 without a row
    submitted,   \* history: the items it had when it left its draft
    approved,    \* history: what its approver had read
    pc, tx       \* the requests: progress and local variables

content == <<cstate, items>>
outcome == <<releases, alias>>
history == <<submitted, approved>>
vars == <<content, outcome, history, pc, tx>>

ChangesetState == {"absent", "draft", "submitted", "changes_requested",
                   "approved", "published", "rejected"}
Release == [changeset : Changeset, items : SUBSET Concept,
            state : {"created", "published", "superseded"}]
(* A changeset becomes one release at most, see OneReleasePerChangeset.     *)
ReleaseId == 1 .. Cardinality(Changeset)

(* The items an approver had read, and whether the approval named the state *)
(* it expects or the changeset had been read after it left its draft.       *)
Review == [items : SUBSET Concept, informed : BOOLEAN]

AddJob == [op : {"add"}, changeset : Changeset, concept : Concept]
MoveJob == [op : {"move"}, changeset : Changeset, guarded : BOOLEAN, to : Targets]
PublishJob == [op : {"publish"}, changeset : Changeset, alias : Alias,
               evidence : Evidence, enforced : FlagValues]
RollbackJob == [op : {"rollback"}, alias : Alias, release : ReleaseId]
Job == AddJob \cup MoveJob \cup PublishJob \cup RollbackJob

(* The sender's copy of a changeset, and the alias read under lock.         *)
Locals == [seenState : ChangesetState, seenItems : SUBSET Concept,
           prev : Nat, superseding : BOOLEAN]
Fresh == [seenState |-> "absent", seenItems |-> {},
          prev |-> 0, superseding |-> FALSE]

(* Where a transaction is: waiting for its first lock, past it, and so on.  *)
PC == {"idle", "begin", "locked", "checked", "superseding", "moving", "moved"}

TypeOK ==
    /\ cstate \in [Changeset -> ChangesetState]
    /\ items \in [Changeset -> SUBSET Concept]
    /\ releases \in Seq(Release)
    /\ alias \in [Alias -> 0 .. Len(releases)]
    /\ submitted \in [Changeset -> SUBSET SUBSET Concept]
    /\ approved \in [Changeset -> SUBSET Review]
    /\ pc \in [Session -> PC]
    /\ \A q \in Session : pc[q] # "idle" => tx[q].job \in Job /\ tx[q].locals \in Locals

Op(q) == tx[q].job.op
Cs(q) == tx[q].job.changeset
Al(q) == tx[q].job.alias
Local(q) == tx[q].locals

-----------------------------------------------------------------------------
(* Row locks, held to the end of the transaction.                           *)

HoldsChangeset(q, c) ==
    pc[q] \notin {"idle", "begin"} /\ Op(q) # "rollback" /\ Cs(q) = c

(* Mutant: the alias is read without `for update`.                          *)
HoldsAliasOnceWritten(q, a) == pc[q] = "moved" /\ Al(q) = a

(* An alias row that does not exist is not locked before it is inserted.    *)
HoldsAlias(q, a) ==
    /\ pc[q] \in {"locked", "superseding", "moving", "moved"}
    /\ Op(q) \in {"publish", "rollback"} /\ Al(q) = a
    /\ Local(q).prev # 0 \/ pc[q] = "moved"

HoldsRelease(q, i) ==
    pc[q] # "idle" /\ Local(q).superseding /\ Local(q).prev = i

ChangesetFree(q, c) == \A o \in Session \ {q} : ~HoldsChangeset(o, c)
AliasFree(q, a) == \A o \in Session \ {q} : ~HoldsAlias(o, a)
ReleaseFree(q, i) == \A o \in Session \ {q} : ~HoldsRelease(o, i)

-----------------------------------------------------------------------------
(* Mutant: what was published may be submitted again.                       *)
TransitionsReopening ==
    [s \in ChangesetState |->
        CASE s = "draft" -> {"submitted"}
          [] s = "submitted" -> {"changes_requested", "approved", "rejected"}
          [] s = "changes_requested" -> {"submitted"}
          [] s = "approved" -> {"published"}
          [] s = "published" -> {"submitted"}
          [] OTHER -> {}]

(* The service's table; the trigger changeset_state_guard repeats it.       *)
CHANGESET_TRANSITIONS ==
    [s \in ChangesetState |->
        CASE s = "draft" -> {"submitted"}
          [] s = "submitted" -> {"changes_requested", "approved", "rejected"}
          [] s = "changes_requested" -> {"submitted"}
          [] s = "approved" -> {"published"}
          [] OTHER -> {}]

(* Mutant: items may still be added once changes have been requested.       *)
EditableUntilApproved == {"draft", "changes_requested"}

Editable == {"draft"}

(* Drafts written before, by the service or straight into the tables; no    *)
(* release yet and no request in flight.                                    *)
Init ==
    /\ cstate \in [Changeset -> {"absent", "draft"}]
    /\ items \in [Changeset -> SUBSET Concept]
    /\ \A c \in Changeset : cstate[c] = "absent" => items[c] = {}
    /\ releases = <<>>
    /\ alias = [a \in Alias |-> 0]
    /\ submitted = [c \in Changeset |-> {}]
    /\ approved = [c \in Changeset |-> {}]
    /\ pc = [q \in Session |-> "idle"]
    /\ tx = [q \in Session |-> <<>>]

Goto(q, label, locals) ==
    /\ pc' = [pc EXCEPT ![q] = label]
    /\ tx' = [tx EXCEPT ![q] = [job |-> @.job, locals |-> locals]]

Finish(q) ==
    /\ pc' = [pc EXCEPT ![q] = "idle"]
    /\ tx' = [tx EXCEPT ![q] = <<>>]

createChangeset(c) ==
    /\ cstate[c] = "absent"
    /\ cstate' = [cstate EXCEPT ![c] = "draft"]
    /\ UNCHANGED <<items, outcome, history, pc, tx>>

(* The sender has read the changeset, and a publication has evaluated the   *)
(* flag, before the transaction; both may be stale when they are used.      *)
Arrive(q, j) ==
    /\ pc[q] = "idle"
    /\ pc' = [pc EXCEPT ![q] = "begin"]
    /\ tx' = [tx EXCEPT ![q] =
           [job |-> j,
            locals |-> IF j.op = "move" /\ j.to = "approved"
                       THEN [Fresh EXCEPT !.seenState = cstate[j.changeset],
                                          !.seenItems = items[j.changeset]]
                       ELSE IF j.op = "move" /\ j.guarded
                       THEN [Fresh EXCEPT !.seenState = cstate[j.changeset]]
                       ELSE Fresh]]
    /\ UNCHANGED <<content, outcome, history>>

(* lockChangeset joins the items: without one there is no row to lock, and  *)
(* the request ends as EMPTY_CHANGESET or NOT_FOUND.                        *)
lockChangeset(q) ==
    /\ pc[q] = "begin" /\ Op(q) \in {"add", "move"}
    /\ items[Cs(q)] # {}
    /\ ChangesetFree(q, Cs(q))
    /\ Goto(q, "locked", Local(q))
    /\ UNCHANGED <<content, outcome, history>>

FindNothingToLock(q) ==
    /\ pc[q] = "begin" /\ Op(q) \in {"add", "move"}
    /\ items[Cs(q)] = {}
    /\ Finish(q)
    /\ UNCHANGED <<content, outcome, history>>

(* addChangesetItem; a second revision of a concept breaks the unique key.  *)
addChangesetItem(q) ==
    LET c == Cs(q)  concept == tx[q].job.concept IN
    /\ pc[q] = "locked" /\ Op(q) = "add"
    /\ IF cstate[c] \in Editable /\ concept \notin items[c]
       THEN items' = [items EXCEPT ![c] = @ \cup {concept}]
       ELSE UNCHANGED items
    /\ Finish(q)
    /\ UNCHANGED <<cstate, outcome, history>>

(* transitionChangeset: the caller's expected state, where it sends one, is *)
(* the one it read.  Nothing compares the items it read with those there    *)
(* are now.                                                                 *)
transitionChangeset(q) ==
    LET c == Cs(q)  to == tx[q].job.to
        expects == tx[q].job.guarded
        informed == expects \/ Local(q).seenState \notin {"absent", "draft"}
    IN
    /\ pc[q] = "locked" /\ Op(q) = "move"
    /\ Finish(q)
    /\ IF /\ expects => Local(q).seenState = cstate[c]
          /\ to \in CHANGESET_TRANSITIONS[cstate[c]]
       THEN /\ cstate' = [cstate EXCEPT ![c] = to]
            /\ submitted' = IF cstate[c] = "draft"
                            THEN [submitted EXCEPT ![c] = {items[c]}] ELSE submitted
            /\ approved' = IF to = "approved"
                           THEN [approved EXCEPT ![c] =
                                    {[items |-> Local(q).seenItems, informed |-> informed]}]
                           ELSE approved
       ELSE UNCHANGED <<cstate, history>>
    /\ UNCHANGED <<items, outcome>>

-----------------------------------------------------------------------------
(* publishChangeset.                                                        *)

LockApproved(q) ==
    /\ pc[q] = "begin" /\ Op(q) = "publish"
    /\ ChangesetFree(q, Cs(q))
    /\ IF cstate[Cs(q)] = "approved" /\ items[Cs(q)] # {}
       THEN Goto(q, "checked", Local(q))
       ELSE Finish(q)
    /\ UNCHANGED <<content, outcome, history>>

(* The release is new, so no gate result of it exists: without enforcement  *)
(* nothing is evaluated, with it the evidence must pass.  Then the alias    *)
(* row, if there is one, is read under lock.                                *)
GateAndLockAlias(q) ==
    LET prev == alias[Al(q)] IN
    /\ pc[q] = "checked"
    /\ IF tx[q].job.enforced /\ tx[q].job.evidence # "passed"
       THEN Finish(q)
       ELSE /\ prev # 0 => AliasFree(q, Al(q))
            /\ Goto(q, IF prev = 0 THEN "moving" ELSE "superseding",
                    [Local(q) EXCEPT !.prev = prev])
    /\ UNCHANGED <<content, outcome, history>>

(* update ... set state = 'superseded' where id = prev and published.       *)
SupersedePrevious(q) ==
    LET matches == releases[Local(q).prev].state = "published" IN
    /\ pc[q] = "superseding"
    /\ matches => ReleaseFree(q, Local(q).prev)
    /\ Goto(q, "moving", [Local(q) EXCEPT !.superseding = matches])
    /\ UNCHANGED <<content, outcome, history>>

(* The upsert waits for a transaction that has inserted or moved the row.   *)
MoveAlias(q) ==
    /\ pc[q] = "moving"
    /\ AliasFree(q, Al(q))
    /\ Goto(q, "moved", Local(q))
    /\ UNCHANGED <<content, outcome, history>>

(* The last update passes the trigger or everything is rolled back.         *)
CommitPublication(q) ==
    LET c == Cs(q)
        new == [changeset |-> c, items |-> items[c], state |-> "published"]
        Left(i) == Local(q).superseding /\ i = Local(q).prev
    IN
    /\ pc[q] = "moved"
    /\ IF "published" \in CHANGESET_TRANSITIONS[cstate[c]]
       THEN /\ releases' = Append(
                   [i \in 1 .. Len(releases) |->
                       IF Left(i) THEN [releases[i] EXCEPT !.state = "superseded"]
                       ELSE releases[i]], new)
            /\ alias' = [alias EXCEPT ![Al(q)] = Len(releases) + 1]
            /\ cstate' = [cstate EXCEPT ![c] = "published"]
       ELSE UNCHANGED <<releases, alias, cstate>>
    /\ Finish(q)
    /\ UNCHANGED <<items, history>>

-----------------------------------------------------------------------------
(* rollbackAlias: only the alias moves.                                     *)

LockCurrent(q) ==
    LET current == alias[Al(q)] IN
    /\ pc[q] = "begin" /\ Op(q) = "rollback"
    /\ current # 0 => AliasFree(q, Al(q))
    /\ IF current \in {0, tx[q].job.release}
       THEN Finish(q)
       ELSE Goto(q, "locked", [Local(q) EXCEPT !.prev = current])
    /\ UNCHANGED <<content, outcome, history>>

(* Mutant: the target is taken as it was sent.                              *)
RollBackUnchecked(q) ==
    /\ pc[q] = "locked" /\ Op(q) = "rollback"
    /\ alias' = [alias EXCEPT ![Al(q)] = tx[q].job.release]
    /\ Finish(q)
    /\ UNCHANGED <<content, releases, history>>

RollBack(q) ==
    LET target == tx[q].job.release IN
    /\ pc[q] = "locked" /\ Op(q) = "rollback"
    /\ IF target <= Len(releases) /\ releases[target].state # "created"
       THEN alias' = [alias EXCEPT ![Al(q)] = target]
       ELSE UNCHANGED alias
    /\ Finish(q)
    /\ UNCHANGED <<content, releases, history>>

(* The connection or the process is lost; nothing was committed.  A request *)
(* lost before its first statement is one that was never sent.              *)
Abort(q) ==
    /\ pc[q] \notin {"idle", "begin"}
    /\ Finish(q)
    /\ UNCHANGED <<content, outcome, history>>

-----------------------------------------------------------------------------
Step(q) ==
    \/ lockChangeset(q) \/ FindNothingToLock(q)
    \/ addChangesetItem(q) \/ transitionChangeset(q)
    \/ LockApproved(q) \/ GateAndLockAlias(q) \/ SupersedePrevious(q)
    \/ MoveAlias(q) \/ CommitPublication(q)
    \/ LockCurrent(q) \/ RollBack(q)

Next ==
    \/ \E c \in Changeset : createChangeset(c)
    \/ \E q \in Session : \/ \E j \in Job : Arrive(q, j)
                          \/ Step(q) \/ Abort(q)

Spec == Init /\ [][Next]_vars

-----------------------------------------------------------------------------
(* Properties.                                                              *)

(* "publication and item freeze must be atomic", releaseService.ts:92: a    *)
(* changeset is never released twice, however publications, transitions     *)
(* and crashes interleave.                                                  *)
OneReleasePerChangeset ==
    \A i, j \in 1 .. Len(releases) :
        releases[i].changeset = releases[j].changeset => i = j

(* "submit freezes the review snapshot", changesetService.ts:235, though it *)
(* stores no copy: a release holds exactly the items that were submitted,   *)
(* whatever requests followed.  They are also those its approver had read,  *)
(* if that one named the state it expects or had read the changeset after   *)
(* its submission; an approval that does neither is accepted on what was    *)
(* read of a draft, however it went on.                                     *)
ReleasedAsSubmitted ==
    \A i \in 1 .. Len(releases) :
        LET c == releases[i].changeset IN
        /\ submitted[c] = {releases[i].items}
        /\ \A r \in approved[c] : r.informed => r.items = releases[i].items

(* "supersede the previous published release pointed at by this alias",     *)
(* releaseService.ts:184: a release is superseded only in the step that     *)
(* moves an alias away from it, to a published release.                     *)
SupersededWhenLeft ==
    [][\A i \in 1 .. Len(releases) :
           releases[i].state = "published" /\ releases'[i].state = "superseded"
           => \E a \in Alias : /\ alias[a] = i /\ alias'[a] # i
                               /\ releases'[alias'[a]].state = "published"]_vars
=============================================================================
