--------------------------- MODULE IndexPromotion ---------------------------
(***************************************************************************)
(* Promotion and rollback of index releases (apps/api/src/index) behind the *)
(* launch gate (apps/api/src/eval/gateService.ts), at the granularity of    *)
(* the SQL statements the requests run.                                     *)
(*                                                                         *)
(* Every request is one READ COMMITTED transaction: a statement reads what  *)
(* is committed when it runs, a locking statement waits for the row, and    *)
(* what the request writes is private until it commits.  state, alias,      *)
(* gate, pin, overridden are the committed tables; the other variables are  *)
(* the local variables of the requests and of the builders.                 *)
(***************************************************************************)
EXTENDS Naturals, Sequences, FiniteSets

CONSTANTS
    Release,         \* index releases
    Alias,           \* 'staging', 'production'
    Request,         \* promotion and rollback requests, each handled once
    Profile,         \* shared configuration rows joined by the promotion
    ProfileOf,       \* the one each release is built with
    Policy,          \* rows of gate_policies: the versions of every key
    LaunchPolicy,    \* those of the key clearance is asked for, launch_v1
    Overridable,     \* those whose thresholds allow an override
    NoRelease,       \* an alias without a row
    NoJob,           \* a request that has not arrived, or was not served
    (* Bounds of an instance. *)
    Evaluable,       \* the releases whose gates get evaluated
    FlagValues,      \* the values the enforcement flag takes
    BuildKinds       \* what a builder may owe a release it compiled

ASSUME ProfileAssumption == ProfileOf \in [Release -> Profile]
ASSUME PolicyAssumption == LaunchPolicy \subseteq Policy /\ Overridable \subseteq Policy
ASSUME NoReleaseAssumption == NoRelease \notin Release
ASSUME BoundAssumption ==
    /\ Evaluable \subseteq Release
    /\ FlagValues \subseteq BOOLEAN
    /\ BuildKinds \subseteq {"none", "embed", "verify"}

VARIABLES
    state,        \* index_releases.state
    alias,        \* index_aliases.release_id
    pin,          \* index_releases.gate_result_id: the policy of that result
    gate,         \* gate_results.result by release and policy
    overridden,   \* audit_events with action 'gate.override'
    enforced,     \* the flag eval_gate_enforced_promotion
    followUp,     \* the write a builder still owes its release
    trail,        \* the audited moves of each alias
    pc,           \* how far each request is
    tx            \* the local variables of each request

tables == <<state, alias, pin, trail>>
gates == <<gate, overridden, enforced>>
vars == <<tables, gates, followUp, pc, tx>>

ReleaseState == {"absent", "ready", "promoted", "retired", "failed"}
Job == [op : {"promote", "rollback"}, release : Release, alias : Alias]
Tx == [job : Job \cup {NoJob},        \* what the request asks for
       strict : BOOLEAN,              \* gateEnforced, read before the transaction
       failedBefore : SUBSET Policy,  \* history: gates standing failed on arrival
       prev : Release \cup {NoRelease},  \* previousReleaseId; current.release_id
       pinning : SUBSET Policy,       \* the policy of the gate result it has pinned
       retiring : BOOLEAN]            \* prev has been demoted
Fresh == [job |-> NoJob, strict |-> FALSE, failedBefore |-> {},
          prev |-> NoRelease, pinning |-> {}, retiring |-> FALSE]

Terminal == {"done", "unserved"}
(* The steps of a promotion between BEGIN and COMMIT, in order.             *)
Promoting == {"begin", "locking", "locked", "checking", "clearing",
              "cleared", "swapped", "retiring", "finishing"}
RollingBack == {"rollback", "current", "target", "moved"}
Active == Promoting \cup RollingBack
PC == {"idle"} \cup Promoting \cup RollingBack \cup Terminal

PROMOTABLE_STATES == {"ready", "promoted"}

TypeOK ==
    /\ state \in [Release -> ReleaseState]
    /\ alias \in [Alias -> Release \cup {NoRelease}]
    /\ pin \in [Release -> SUBSET Policy]
    /\ gate \in [Release -> [Policy -> {"none", "passed", "failed"}]]
    /\ overridden \subseteq Release \X Policy
    /\ enforced \in BOOLEAN
    /\ followUp \in [Release -> {"none", "embed", "verify"}]
    /\ trail \in [Alias -> Seq([from : Release \cup {NoRelease}, to : Release])]
    /\ pc \in [Request -> PC]
    /\ tx \in [Request -> Tx]
    /\ \A q \in Request : pc[q] \in Active \cup {"done"} => tx[q].job \in Job

-----------------------------------------------------------------------------
(* Row locks.  Each holds from the statement that takes it to the end of    *)
(* the transaction.                                                         *)

Rel(q) == tx[q].job.release
Al(q) == tx[q].job.alias

(* FOR UPDATE of the joined select: the release, then its profile.          *)
HoldsRelease(q, r) == pc[q] \in Promoting \ {"begin"} /\ Rel(q) = r

(* Mutant: `for update of ir` leaves the shared rows unlocked.              *)
HoldsNoProfile(q, p) == FALSE

HoldsProfile(q, p) ==
    pc[q] \in Promoting \ {"begin", "locking"} /\ ProfileOf[Rel(q)] = p

(* The write lock on the release a promotion demotes.                       *)
HoldsPrevious(q, r) ==
    pc[q] \in Promoting /\ tx[q].retiring /\ tx[q].prev = r

(* Mutant: the alias is read without `for update`.                          *)
HoldsAliasOnceWritten(q, a) ==
    pc[q] \in {"swapped", "retiring", "finishing", "moved"} /\ Al(q) = a

(* FOR UPDATE of an absent alias row locks nothing; the upsert locks it.    *)
HoldsAlias(q, a) ==
    /\ pc[q] \in Active
    /\ Al(q) = a
    /\ tx[q].prev # NoRelease \/ pc[q] \in {"swapped", "retiring", "finishing"}

(* The foreign key of the moved alias row: FOR KEY SHARE on the target,     *)
(* which conflicts with FOR UPDATE only.                                    *)
HoldsKey(q, r) == pc[q] = "moved" /\ Rel(q) = r

ReleaseFree(q, r) ==
    \A o \in Request \ {q} : ~HoldsRelease(o, r) /\ ~HoldsPrevious(o, r)
KeysFree(q, r) == \A o \in Request \ {q} : ~HoldsKey(o, r)
ProfileFree(q, p) == \A o \in Request \ {q} : ~HoldsProfile(o, p)
AliasFree(q, a) == \A o \in Request \ {q} : ~HoldsAlias(o, a)

-----------------------------------------------------------------------------
(* The gate of a release, as the statements of gateService see it.          *)

Cleared(r, p) == gate[r][p] = "passed" \/ <<r, p>> \in overridden
StandsFailed(r, p) == gate[r][p] = "failed" /\ <<r, p>> \notin overridden

failedGateExists(r) == \E p \in Policy : StandsFailed(r, p)

(* Mutant: any launch gate result clears.                                   *)
gateEvaluated(r, p) == p \in LaunchPolicy /\ gate[r][p] # "none"

(* The result of launch policy p is there and clears.                       *)
gateClearance(r, p) == p \in LaunchPolicy /\ gate[r][p] # "none" /\ Cleared(r, p)

-----------------------------------------------------------------------------
(* A deployment some earlier, finished promotions left: an alias without a  *)
(* row or on a promoted release, and no request in flight.                  *)
Init ==
    /\ alias \in [Alias -> Release \cup {NoRelease}]
    /\ state \in [Release -> {"absent", "ready", "promoted"}]
    /\ \A r \in Release : state[r] = "promoted" <=> \E a \in Alias : alias[a] = r
    /\ pin = [r \in Release |-> {}]
    /\ gate = [r \in Release |-> [p \in Policy |-> "none"]]
    /\ overridden = {}
    /\ enforced \in FlagValues
    /\ followUp = [r \in Release |-> "none"]
    /\ trail = [a \in Alias |-> <<>>]
    /\ pc = [q \in Request |-> "idle"]
    /\ tx = [q \in Request |-> Fresh]

Advance(q, label, locals) ==
    /\ pc' = [pc EXCEPT ![q] = label]
    /\ tx' = [tx EXCEPT ![q] = locals]

Goto(q, label) == pc' = [pc EXCEPT ![q] = label] /\ UNCHANGED tx

(* An exception rolls the transaction back; its locks and writes are gone.  *)
Refuse(q) == Advance(q, "unserved", Fresh)

(* A request arrives.  A promotion evaluates the flag before it begins its  *)
(* transaction, so strict may be stale by the time it is used.              *)
Arrive(q, j) ==
    /\ pc[q] = "idle"
    /\ Advance(q, IF j.op = "promote" THEN "begin" ELSE "rollback",
               [Fresh EXCEPT !.job = j,
                             !.strict = j.op = "promote" /\ enforced,
                             !.failedBefore = {p \in Policy : StandsFailed(j.release, p)}])
    /\ UNCHANGED <<tables, gates, followUp>>

(* select ... join configuration, profile, model ... for update: no `of`    *)
(* clause, so the shared rows are locked too, after the release.            *)
LockRelease(q) ==
    /\ pc[q] = "begin"
    /\ ReleaseFree(q, Rel(q)) /\ KeysFree(q, Rel(q))
    /\ IF state[Rel(q)] = "absent" THEN Refuse(q) ELSE Goto(q, "locking")
    /\ UNCHANGED <<tables, gates, followUp>>

LockProfile(q) ==
    /\ pc[q] = "locking"
    /\ ProfileFree(q, ProfileOf[Rel(q)])
    /\ IF state[Rel(q)] \in PROMOTABLE_STATES THEN Goto(q, "locked") ELSE Refuse(q)
    /\ UNCHANGED <<tables, gates, followUp>>

(* The alias row, if there is one, is read under lock.                      *)
LockAlias(q) ==
    LET current == alias[Al(q)] IN
    /\ pc[q] = "locked"
    /\ current # NoRelease => AliasFree(q, Al(q))
    /\ IF current = Rel(q)
       THEN Refuse(q)
       ELSE Advance(q, "checking", [tx[q] EXCEPT !.prev = current])
    /\ UNCHANGED <<tables, gates, followUp>>

(* Mutant: gates are consulted under enforcement only.                      *)
CheckGateIfStrict(q) ==
    /\ pc[q] = "checking"
    /\ Goto(q, IF tx[q].strict THEN "clearing" ELSE "cleared")
    /\ UNCHANGED <<tables, gates, followUp>>

CheckFailedGate(q) ==
    /\ pc[q] = "checking"
    /\ Goto(q, IF tx[q].strict \/ failedGateExists(Rel(q)) THEN "clearing" ELSE "cleared")
    /\ UNCHANGED <<tables, gates, followUp>>

(* assertPromotionGate, then pinGateResult on the locked release.  The      *)
(* results are joined to their policies by key and cut by a `limit 1`       *)
(* without an order: of several versions of launch_v1, any one decides.     *)
AssertPromotionGate(q) ==
    /\ pc[q] = "clearing"
    /\ \/ \E p \in LaunchPolicy :
              /\ gateClearance(Rel(q), p)
              /\ Advance(q, "cleared", [tx[q] EXCEPT !.pinning = {p}])
       \/ /\ \/ \E p \in LaunchPolicy : StandsFailed(Rel(q), p)
             \/ \A p \in LaunchPolicy : gate[Rel(q)][p] = "none"
          /\ Refuse(q)
    /\ UNCHANGED <<tables, gates, followUp>>

(* insert ... on conflict do update, then state = 'promoted'.  The insert   *)
(* of a row another transaction has inserted waits for that transaction.    *)
SwapAlias(q) ==
    /\ pc[q] = "cleared"
    /\ AliasFree(q, Al(q))
    /\ Goto(q, "swapped")
    /\ UNCHANGED <<tables, gates, followUp>>

(* The committed aliases, and the move this transaction has not committed.  *)
StillReferenced(q) == \E a \in Alias \ {Al(q)} : alias[a] = tx[q].prev

CountReferences(q) ==
    /\ pc[q] = "swapped"
    /\ Goto(q, IF tx[q].prev = NoRelease \/ StillReferenced(q)
               THEN "finishing" ELSE "retiring")
    /\ UNCHANGED <<tables, gates, followUp>>

(* update ... set state = 'retired' where id = prev and state = 'promoted'. *)
(* A row that does not match is neither locked nor waited for.              *)
RetirePrevious(q) ==
    LET matches == state[tx[q].prev] = "promoted" IN
    /\ pc[q] = "retiring"
    /\ matches => ReleaseFree(q, tx[q].prev)
    /\ Advance(q, "finishing", [tx[q] EXCEPT !.retiring = matches])
    /\ UNCHANGED <<tables, gates, followUp>>

(* The request is answered: of its locals only the history remains.         *)
Answer(q) == Advance(q, "done", [tx[q] EXCEPT !.prev = NoRelease,
                                              !.pinning = {},
                                              !.retiring = FALSE])

(* The move of the alias and the audit event that records it.               *)
Move(q) ==
    /\ alias' = [alias EXCEPT ![Al(q)] = Rel(q)]
    /\ trail' = [trail EXCEPT ![Al(q)] =
                     Append(@, [from |-> tx[q].prev, to |-> Rel(q)])]

(* Mutant: every other promoted release is demoted.                         *)
CommitDemotingOthers(q) ==
    /\ pc[q] = "finishing"
    /\ Move(q)
    /\ state' = [r \in Release |->
                     IF r = Rel(q) THEN "promoted"
                     ELSE IF state[r] = "promoted" THEN "retired" ELSE state[r]]
    /\ Answer(q)
    /\ UNCHANGED <<pin, gates, followUp>>

CommitPromotion(q) ==
    /\ pc[q] = "finishing"
    /\ Move(q)
    /\ state' = [r \in Release |->
                     IF r = Rel(q) THEN "promoted"
                     ELSE IF tx[q].retiring /\ r = tx[q].prev THEN "retired"
                     ELSE state[r]]
    /\ pin' = IF tx[q].pinning # {} THEN [pin EXCEPT ![Rel(q)] = tx[q].pinning] ELSE pin
    /\ Answer(q)
    /\ UNCHANGED <<gates, followUp>>

-----------------------------------------------------------------------------
(* rollbackIndexAlias: the alias is locked, the target is only read.        *)

(* Mutant: a rollback of an alias without a row waits for one.              *)
LockCurrentOnceThere(q) ==
    LET current == alias[Al(q)] IN
    /\ pc[q] = "rollback"
    /\ current # NoRelease /\ AliasFree(q, Al(q))
    /\ IF current = Rel(q)
       THEN Refuse(q)
       ELSE Advance(q, "current", [tx[q] EXCEPT !.prev = current])
    /\ UNCHANGED <<tables, gates, followUp>>

LockCurrent(q) ==
    LET current == alias[Al(q)] IN
    /\ pc[q] = "rollback"
    /\ current # NoRelease => AliasFree(q, Al(q))
    /\ IF current \in {NoRelease, Rel(q)}
       THEN Refuse(q)
       ELSE Advance(q, "current", [tx[q] EXCEPT !.prev = current])
    /\ UNCHANGED <<tables, gates, followUp>>

ReadTarget(q) ==
    /\ pc[q] = "current"
    /\ IF state[Rel(q)] \in {"absent", "failed"} THEN Refuse(q) ELSE Goto(q, "target")
    /\ UNCHANGED <<tables, gates, followUp>>

MoveAlias(q) ==
    /\ pc[q] = "target"
    /\ \A o \in Request \ {q} : ~HoldsRelease(o, Rel(q))
    /\ Goto(q, "moved")
    /\ UNCHANGED <<tables, gates, followUp>>

CommitRollback(q) ==
    /\ pc[q] = "moved"
    /\ Move(q)
    /\ Answer(q)
    /\ UNCHANGED <<state, pin, gates, followUp>>

-----------------------------------------------------------------------------
(* A transaction ends without a trace: the connection or the process is     *)
(* lost, or PostgreSQL picks it as the victim of a deadlock.                *)
Abort(q) ==
    /\ pc[q] \in Active
    /\ Refuse(q)
    /\ UNCHANGED <<tables, gates, followUp>>

(* q's next statement waits for a row lock that o holds.                    *)
WaitsFor(q, o) ==
    /\ o # q
    /\ \/ /\ pc[q] = "begin"
          /\ HoldsRelease(o, Rel(q)) \/ HoldsPrevious(o, Rel(q)) \/ HoldsKey(o, Rel(q))
       \/ pc[q] = "locking" /\ HoldsProfile(o, ProfileOf[Rel(q)])
       \/ /\ pc[q] \in {"locked", "rollback"}
          /\ alias[Al(q)] # NoRelease /\ HoldsAlias(o, Al(q))
       \/ pc[q] = "cleared" /\ HoldsAlias(o, Al(q))
       \/ /\ pc[q] = "retiring" /\ state[tx[q].prev] = "promoted"
          /\ HoldsRelease(o, tx[q].prev) \/ HoldsPrevious(o, tx[q].prev)
       \/ pc[q] = "target" /\ HoldsRelease(o, Rel(q))

Deadlocked(S) == S # {} /\ \A q \in S : \E o \in S : WaitsFor(q, o)

DeadlockVictim(q) ==
    /\ \E S \in SUBSET Request : q \in S /\ Deadlocked(S)
    /\ Abort(q)

-----------------------------------------------------------------------------
(* The builders.  A compilation is one transaction: its release appears     *)
(* 'ready'.  The semantic build then embeds it and writes 'ready' again;    *)
(* the rebuild verifier then compares it and may write 'failed'.  Neither   *)
(* second write looks at the state it replaces.                             *)

(* The foreign key to the configuration waits for a promotion holding it.   *)
Compile(r, owed) ==
    /\ state[r] = "absent"
    /\ \A q \in Request : ~HoldsProfile(q, ProfileOf[r])
    /\ state' = [state EXCEPT ![r] = "ready"]
    /\ followUp' = [followUp EXCEPT ![r] = owed]
    /\ UNCHANGED <<alias, pin, trail, gates, pc, tx>>

RowFree(r) == \A q \in Request : ~HoldsRelease(q, r) /\ ~HoldsPrevious(q, r)

FinishSemanticBuild(r) ==
    /\ followUp[r] = "embed"
    /\ RowFree(r)
    /\ state' = [state EXCEPT ![r] = "ready"]
    /\ followUp' = [followUp EXCEPT ![r] = "none"]
    /\ UNCHANGED <<alias, pin, trail, gates, pc, tx>>

(* Mutant: a state the table's check constraint does not know.              *)
RejectRebuild(r) ==
    /\ followUp[r] = "verify"
    /\ state' = [state EXCEPT ![r] = "rejected"]
    /\ followUp' = [followUp EXCEPT ![r] = "none"]
    /\ UNCHANGED <<alias, pin, trail, gates, pc, tx>>

FailRebuild(r) ==
    /\ followUp[r] = "verify"
    /\ RowFree(r)
    /\ state' = [state EXCEPT ![r] = "failed"]
    /\ followUp' = [followUp EXCEPT ![r] = "none"]
    /\ UNCHANGED <<alias, pin, trail, gates, pc, tx>>

(* The builder owes nothing more: the rebuild is equivalent, or it crashed. *)
LeaveBuild(r) ==
    /\ followUp[r] # "none"
    /\ followUp' = [followUp EXCEPT ![r] = "none"]
    /\ UNCHANGED <<tables, gates, pc, tx>>

-----------------------------------------------------------------------------
(* Gate results are append-only, one per policy row and subject.  An        *)
(* evaluation uses the newest active version of its key; rows are added and *)
(* retired by migrations and operators, so over time any version is used.   *)
EvaluateGate(r, p, verdict) ==
    /\ state[r] # "absent"
    /\ gate[r][p] = "none"
    /\ gate' = [gate EXCEPT ![r][p] = verdict]
    /\ UNCHANGED <<tables, overridden, enforced, followUp, pc, tx>>

OverrideGateFailure(r, p) ==
    /\ p \in Overridable
    /\ StandsFailed(r, p)
    /\ overridden' = overridden \cup {<<r, p>>}
    /\ UNCHANGED <<tables, gate, enforced, followUp, pc, tx>>

SetEnforcement(on) ==
    /\ enforced' = on
    /\ UNCHANGED <<tables, gate, overridden, followUp, pc, tx>>

-----------------------------------------------------------------------------
(* The next statement of request q.                                         *)
Step(q) ==
    \/ LockRelease(q) \/ LockProfile(q) \/ LockAlias(q)
    \/ CheckFailedGate(q) \/ AssertPromotionGate(q)
    \/ SwapAlias(q) \/ CountReferences(q) \/ RetirePrevious(q)
    \/ CommitPromotion(q)
    \/ LockCurrent(q) \/ ReadTarget(q) \/ MoveAlias(q) \/ CommitRollback(q)

Builder(r) ==
    \/ \E owed \in BuildKinds : Compile(r, owed)
    \/ FinishSemanticBuild(r) \/ FailRebuild(r) \/ LeaveBuild(r)

Evaluator(r, p) ==
    \/ \E verdict \in {"passed", "failed"} : EvaluateGate(r, p, verdict)
    \/ OverrideGateFailure(r, p)

Next ==
    \/ \E q \in Request : \/ \E j \in Job : Arrive(q, j)
                          \/ Step(q) \/ Abort(q)
    \/ \E r \in Release : Builder(r)
    \/ \E r \in Evaluable, p \in Policy : Evaluator(r, p)
    \/ \E on \in FlagValues : SetEnforcement(on)

Spec == Init /\ [][Next]_vars

(* A request in a transaction keeps running its statements, the database    *)
(* grants a free lock and breaks every deadlock.                            *)
Fairness ==
    \A q \in Request : WF_vars(Step(q)) /\ WF_vars(DeadlockVictim(q))

FairSpec == Spec /\ Fairness

-----------------------------------------------------------------------------
(* Properties.                                                              *)

(* A gate result pinned on a release is one that clears it, and stays so:   *)
(* the artifact that pinGateResult records (gateService.ts:517) never       *)
(* names a failed gate nobody overrode.                                     *)
PinnedGateCleared ==
    \A r \in Release : \A p \in pin[r] :
        \/ gate[r][p] = "passed"
        \/ gate[r][p] = "failed" /\ <<r, p>> \in overridden

(* The gate failures a request found when it arrived, and nobody has        *)
(* overridden since.                                                        *)
Unanswered(q) == {p \in tx[q].failedBefore : <<Rel(q), p>> \notin overridden}

(* A promotion that read the flag as set, or found a failure that is not    *)
(* overridden to this day, has left a launch gate result pinned, and what   *)
(* is pinned clears: neither a stale flag nor an evaluation that runs       *)
(* meanwhile lets it pass on no result at all (indexAliasService.ts:96-104).*)
GatedPromotionPinned ==
    \A q \in Request :
        /\ pc[q] = "done" /\ tx[q].job.op = "promote"
        /\ tx[q].strict \/ Unanswered(q) # {}
        => pin[Rel(q)] \cap LaunchPolicy # {}

(* The audit trail of an alias ends where the alias points, and every move  *)
(* that found a row starts from the release the move before it installed:   *)
(* no update of an existing row is lost or recorded out of order.           *)
TrailFollowsAlias ==
    \A a \in Alias :
        LET t == trail[a] IN
        /\ t # <<>> => t[Len(t)].to = alias[a]
        /\ \A i \in 2 .. Len(t) : t[i].from \in {t[i - 1].to, NoRelease}

(* What keeps promotions from retiring a release the other alias still      *)
(* serves is the lock on the shared profile row: where all releases share   *)
(* it and nothing is rolled back, an alias never resolves to a retired one. *)
SharedProfileSerializes ==
    /\ \A r, s \in Release : ProfileOf[r] = ProfileOf[s]
    /\ \A q \in Request : pc[q] \in Active \cup {"done"} => tx[q].job.op = "promote"
    => \A a \in Alias : alias[a] # NoRelease => state[alias[a]] # "retired"

(* "The swap is a single transaction ... they see either the old or the new *)
(* release, never a partial state", indexAliasService.ts:34-38: whatever    *)
(* the interleaving of statements, the service implements AliasRegister.    *)
Register == INSTANCE AliasRegister WITH alias <- alias, state <- state
AliasesAreAtomic == Register!Spec

(* Every request is answered: no lock is kept for good, and a deadlock of a *)
(* promotion with a promotion or a rollback ends with a victim.             *)
EveryRequestEnds == \A q \in Request : pc[q] # "idle" ~> pc[q] \in Terminal
=============================================================================
