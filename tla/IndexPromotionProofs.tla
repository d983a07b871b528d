------------------------ MODULE IndexPromotionProofs ------------------------
(***************************************************************************)
(* Proofs about IndexPromotion, for any sets of releases, aliases, requests,*)
(* profiles and policies: types; the gate, by what each request knows of it *)
(* since it asked; the row locks, by which the statements implement the     *)
(* atomic AliasRegister and the trail follows the aliases; and the profile  *)
(* row, by which promotions alone retire nothing that still serves.         *)
(***************************************************************************)
EXTENDS IndexPromotion, SequenceTheorems, TLAPS

USE DEF Rel, Al

-----------------------------------------------------------------------------
(* Types.                                                                   *)

(* The part of TypeOK about the requests, which most steps change alone.    *)
RequestsOK ==
    /\ pc \in [Request -> PC]
    /\ tx \in [Request -> Tx]
    /\ \A q \in Request : pc[q] \in Active \cup {"done"} => tx[q].job \in Job

(* The part about the tables, the gates and the builders.                   *)
TablesOK ==
    /\ state \in [Release -> ReleaseState]
    /\ alias \in [Alias -> Release \cup {NoRelease}]
    /\ pin \in [Release -> SUBSET Policy]
    /\ gate \in [Release -> [Policy -> {"none", "passed", "failed"}]]
    /\ overridden \subseteq Release \X Policy
    /\ enforced \in BOOLEAN
    /\ followUp \in [Release -> {"none", "embed", "verify"}]
    /\ trail \in [Alias -> Seq([from : Release \cup {NoRelease}, to : Release])]

LEMMA TypeParts == /\ TypeOK <=> TablesOK /\ RequestsOK
                   /\ TypeOK' <=> TablesOK' /\ RequestsOK'
  BY DEF TypeOK, TablesOK, RequestsOK

LEMMA FreshType == Fresh \in Tx
  BY DEF Fresh, Tx

LEMMA Labels ==
    /\ Active \subseteq PC /\ Terminal \subseteq PC /\ "idle" \in PC
    /\ "idle" \notin Active \cup {"done"} /\ "unserved" \notin Active \cup {"done"}
    /\ "done" \notin Active
  BY DEF PC, Active, Promoting, RollingBack, Terminal

(* A request that moves on with new locals stays well typed.                *)
LEMMA AdvanceType ==
    ASSUME RequestsOK, NEW q \in Request, NEW label \in PC, NEW locals \in Tx,
           label \in Active \cup {"done"} => locals.job \in Job,
           Advance(q, label, locals)
    PROVE  RequestsOK'
  BY DEF RequestsOK, Advance

(* A request that moves on with the locals it has stays well typed.         *)
LEMMA GotoType ==
    ASSUME RequestsOK, NEW q \in Request, NEW label \in PC, pc[q] \in Active,
           Goto(q, label)
    PROVE  RequestsOK'
  BY DEF RequestsOK, Goto

LEMMA RefuseType ==
    ASSUME RequestsOK, NEW q \in Request, Refuse(q)
    PROVE  RequestsOK'
  BY FreshType, Labels, AdvanceType DEF Refuse, Terminal

LEMMA AnswerType ==
    ASSUME RequestsOK, NEW q \in Request, pc[q] \in Active, Answer(q)
    PROVE  RequestsOK'
  <1> DEFINE locals == [tx[q] EXCEPT !.prev = NoRelease, !.pinning = {}, !.retiring = FALSE]
  <1>1. tx[q] \in Tx /\ tx[q].job \in Job
    BY DEF RequestsOK
  <1>2. locals \in Tx /\ locals.job = tx[q].job
    BY <1>1 DEF Tx
  <1>3. Advance(q, "done", locals)
    BY DEF Answer
  <1> QED
    BY <1>1, <1>2, <1>3, Labels, AdvanceType DEF Terminal

LEMMA InitType == Init => TypeOK
  <1> SUFFICES ASSUME Init PROVE TypeOK
    OBVIOUS
  <1>1. state \in [Release -> ReleaseState]
    BY DEF Init, ReleaseState
  <1>2. enforced \in BOOLEAN
    BY BoundAssumption DEF Init
  <1>3. trail \in [Alias -> Seq([from : Release \cup {NoRelease}, to : Release])]
    BY DEF Init
  <1>4. RequestsOK
    BY FreshType, Labels DEF Init, RequestsOK
  <1>5. /\ alias \in [Alias -> Release \cup {NoRelease}]
        /\ pin \in [Release -> SUBSET Policy]
        /\ gate \in [Release -> [Policy -> {"none", "passed", "failed"}]]
        /\ overridden \subseteq Release \X Policy
        /\ followUp \in [Release -> {"none", "embed", "verify"}]
    BY DEF Init
  <1> QED
    BY <1>1, <1>2, <1>3, <1>4, <1>5, TypeParts DEF TablesOK

LEMMA UnchangedTables ==
    ASSUME TablesOK, UNCHANGED <<tables, gates, followUp>>
    PROVE  TablesOK'
  BY DEF TablesOK, tables, gates

(* The statements of a request before its commit.                           *)
LEMMA StatementType ==
    ASSUME TypeOK, NEW q \in Request,
           \/ \E j \in Job : Arrive(q, j)
           \/ LockRelease(q) \/ LockProfile(q) \/ LockAlias(q)
           \/ CheckFailedGate(q) \/ AssertPromotionGate(q)
           \/ SwapAlias(q) \/ CountReferences(q) \/ RetirePrevious(q)
           \/ LockCurrent(q) \/ ReadTarget(q) \/ MoveAlias(q) \/ Abort(q)
    PROVE  TypeOK'
  <1> USE TypeParts, RefuseType, GotoType, AdvanceType, Labels
  <1>1. UNCHANGED <<tables, gates, followUp>>
    BY DEF Arrive, LockRelease, LockProfile, LockAlias, CheckFailedGate, AssertPromotionGate, SwapAlias,
           CountReferences, RetirePrevious, LockCurrent, ReadTarget, MoveAlias, Abort
  <1>2. tx[q] \in Tx /\ (pc[q] \in Active => tx[q].job \in Job)
    BY DEF RequestsOK
  <1>3. ASSUME NEW j \in Job, Arrive(q, j) PROVE RequestsOK'
    <2> DEFINE locals == [Fresh EXCEPT !.job = j,
                             !.strict = j.op = "promote" /\ enforced,
                             !.failedBefore = {p \in Policy : StandsFailed(j.release, p)}]
    <2>1. enforced \in BOOLEAN
      BY DEF TablesOK
    <2>2. locals \in Tx /\ locals.job = j
      BY <2>1 DEF Fresh, Tx
    <2>3. (IF j.op = "promote" THEN "begin" ELSE "rollback") \in Active
      BY DEF Active, Promoting, RollingBack
    <2> QED
      BY <1>3, <2>2, <2>3 DEF Arrive
  <1>4. CASE LockRelease(q) \/ LockProfile(q) \/ CheckFailedGate(q) \/ SwapAlias(q)
             \/ CountReferences(q) \/ ReadTarget(q) \/ MoveAlias(q) \/ Abort(q)
    BY <1>4, <1>1, UnchangedTables
    DEF LockRelease, LockProfile, CheckFailedGate, SwapAlias, CountReferences,
        ReadTarget, MoveAlias, Abort, Active, Promoting, RollingBack
  <1>5. CASE LockAlias(q) \/ LockCurrent(q)
    <2> DEFINE locals == [tx[q] EXCEPT !.prev = alias[Al(q)]]
    <2>1. pc[q] \in Active
      BY <1>5 DEF LockAlias, LockCurrent, Active, Promoting, RollingBack
    <2>2. alias[Al(q)] \in Release \cup {NoRelease}
      BY <1>2, <2>1 DEF TablesOK, Job
    <2>3. locals \in Tx /\ locals.job = tx[q].job
      BY <1>2, <2>2 DEF Tx
    <2>4. "checking" \in Active /\ "current" \in Active
      BY DEF Active, Promoting, RollingBack
    <2>5. Refuse(q) \/ Advance(q, "checking", locals) \/ Advance(q, "current", locals)
      BY <1>5 DEF LockAlias, LockCurrent
    <2> HIDE DEF locals
    <2>6. RequestsOK'
      BY <1>2, <2>1, <2>3, <2>4, <2>5
    <2> QED
      BY <1>1, <2>6, UnchangedTables
  <1>6. CASE AssertPromotionGate(q)
    <2> DEFINE Locals(p) == [tx[q] EXCEPT !.pinning = {p}]
    <2>1. pc[q] \in Active /\ "cleared" \in Active
      BY <1>6 DEF AssertPromotionGate, Active, Promoting
    <2>2. \A p \in LaunchPolicy : Locals(p) \in Tx /\ Locals(p).job = tx[q].job
      BY <1>2, PolicyAssumption DEF Tx
    <2>3. Refuse(q) \/ \E p \in LaunchPolicy : Advance(q, "cleared", Locals(p))
      BY <1>6 DEF AssertPromotionGate
    <2> HIDE DEF Locals
    <2>4. RequestsOK'
      BY <1>2, <2>1, <2>2, <2>3
    <2> QED
      BY <1>1, <2>4, UnchangedTables
  <1>7. CASE RetirePrevious(q)
    <2> DEFINE matches == state[tx[q].prev] = "promoted"
               locals == [tx[q] EXCEPT !.retiring = matches]
    <2>1. pc[q] \in Active /\ "finishing" \in Active
      BY <1>7 DEF RetirePrevious, Active, Promoting
    <2>2. locals \in Tx /\ locals.job = tx[q].job
      BY <1>2 DEF Tx
    <2>3. Advance(q, "finishing", locals)
      BY <1>7 DEF RetirePrevious
    <2> HIDE DEF locals
    <2>4. RequestsOK'
      BY <1>2, <2>1, <2>2, <2>3
    <2> QED
      BY <1>1, <2>4, UnchangedTables
  <1>8. CASE \E j \in Job : Arrive(q, j)
    BY <1>1, <1>3, <1>8, UnchangedTables
  <1> QED
    BY <1>4, <1>5, <1>6, <1>7, <1>8

(* Moving an alias to the release of a request keeps the register typed.    *)
LEMMA MoveType ==
    ASSUME TypeOK, NEW q \in Request, pc[q] \in Active, Move(q)
    PROVE  /\ alias' \in [Alias -> Release \cup {NoRelease}]
           /\ trail' \in [Alias -> Seq([from : Release \cup {NoRelease}, to : Release])]
  <1>1. Rel(q) \in Release /\ Al(q) \in Alias /\ tx[q].prev \in Release \cup {NoRelease}
    BY DEF TypeOK, Job, Tx
  <1>2. [from |-> tx[q].prev, to |-> Rel(q)] \in [from : Release \cup {NoRelease}, to : Release]
    BY <1>1
  <1>3. alias' \in [Alias -> Release \cup {NoRelease}]
    BY <1>1 DEF TypeOK, Move
  <1>4. trail' = [trail EXCEPT ![Al(q)] =
                      Append(trail[Al(q)], [from |-> tx[q].prev, to |-> Rel(q)])]
    BY DEF Move
  <1> DEFINE Moves == [from : Release \cup {NoRelease}, to : Release]
             entry == [from |-> tx[q].prev, to |-> Rel(q)]
             t == trail[Al(q)]
  <1>5. trail \in [Alias -> Seq(Moves)] /\ t \in Seq(Moves) /\ entry \in Moves
    BY <1>1, <1>2 DEF TypeOK
  <1>6. trail' = [trail EXCEPT ![Al(q)] = Append(t, entry)]
    BY <1>4
  <1> HIDE DEF Moves, entry, t
  <1>7. Append(t, entry) \in Seq(Moves)
    BY <1>5, AppendProperties
  <1>8. trail' \in [Alias -> Seq(Moves)]
    BY <1>5, <1>6, <1>7
  <1> QED
    BY <1>3, <1>8 DEF Moves

LEMMA CommitType ==
    ASSUME TypeOK, NEW q \in Request, CommitPromotion(q) \/ CommitRollback(q)
    PROVE  TypeOK'
  <1>1. pc[q] \in Active /\ Move(q) /\ Answer(q)
    BY DEF CommitPromotion, CommitRollback, Active, Promoting, RollingBack
  <1>2. RequestsOK'
    BY <1>1, AnswerType, TypeParts
  <1>3. state' \in [Release -> ReleaseState]
    BY DEF CommitPromotion, CommitRollback, TypeOK, ReleaseState
  <1>4. pin' \in [Release -> SUBSET Policy]
    BY DEF CommitPromotion, CommitRollback, TypeOK, Tx, tables
  <1>5. UNCHANGED <<gate, overridden, enforced, followUp>>
    BY DEF CommitPromotion, CommitRollback, gates
  <1> QED
    BY <1>1, <1>2, <1>3, <1>4, <1>5, MoveType, TypeParts DEF TablesOK

LEMMA BuilderType ==
    ASSUME TypeOK, NEW r \in Release, Builder(r)
    PROVE  TypeOK'
  <1>1. state' \in [Release -> ReleaseState]
    BY DEF Builder, Compile, FinishSemanticBuild, FailRebuild, LeaveBuild, TypeOK,
           ReleaseState, tables
  <1>2. followUp' \in [Release -> {"none", "embed", "verify"}]
    BY BoundAssumption
    DEF Builder, Compile, FinishSemanticBuild, FailRebuild, LeaveBuild, TypeOK
  <1>3. UNCHANGED <<alias, pin, trail, gates, pc, tx>>
    BY DEF Builder, Compile, FinishSemanticBuild, FailRebuild, LeaveBuild, tables
  <1> QED
    BY <1>1, <1>2, <1>3 DEF TypeOK, gates

LEMMA EvaluatorType ==
    ASSUME TypeOK,
           NEW r \in Evaluable, NEW p \in Policy, Evaluator(r, p)
    PROVE  TypeOK'
  <1>1. r \in Release
    BY BoundAssumption
  <1>2. ASSUME NEW verdict \in {"passed", "failed"}, EvaluateGate(r, p, verdict)
        PROVE  TypeOK'
    BY <1>1, <1>2 DEF EvaluateGate, TypeOK, tables
  <1>3. CASE OverrideGateFailure(r, p)
    <2>1. overridden' = overridden \cup {<<r, p>>} /\ <<r, p>> \in Release \X Policy
      BY <1>1, <1>3 DEF OverrideGateFailure
    <2>2. overridden' \subseteq Release \X Policy
      BY <2>1 DEF TypeOK
    <2>3. UNCHANGED <<tables, gate, enforced, followUp, pc, tx>>
      BY <1>3 DEF OverrideGateFailure
    <2> QED
      BY <2>2, <2>3 DEF TypeOK, tables
  <1> QED
    BY <1>2, <1>3 DEF Evaluator

LEMMA EnforcementType ==
    ASSUME TypeOK, NEW on \in FlagValues, SetEnforcement(on)
    PROVE  TypeOK'
  BY BoundAssumption DEF SetEnforcement, TypeOK, tables

(* Every variable keeps its type.                                           *)
THEOREM TypeCorrect == Spec => []TypeOK
  <1>1. TypeOK /\ [Next]_vars => TypeOK'
    <2> SUFFICES ASSUME TypeOK, [Next]_vars PROVE TypeOK'
      OBVIOUS
    <2>1. CASE UNCHANGED vars
      BY <2>1 DEF vars, tables, gates, TypeOK
    <2>2. ASSUME NEW q \in Request, NEW j \in Job, Arrive(q, j) PROVE TypeOK'
      BY <2>2, StatementType
    <2>3. ASSUME NEW q \in Request, Step(q) \/ Abort(q) PROVE TypeOK'
      BY <2>3, StatementType, CommitType DEF Step
    <2>4. ASSUME NEW r \in Release, Builder(r) PROVE TypeOK'
      BY <2>4, BuilderType
    <2>5. ASSUME NEW r \in Evaluable, NEW p \in Policy, Evaluator(r, p) PROVE TypeOK'
      BY <2>5, EvaluatorType
    <2>6. ASSUME NEW on \in FlagValues, SetEnforcement(on) PROVE TypeOK'
      BY <2>6, EnforcementType
    <2> QED
      BY <2>1, <2>2, <2>3, <2>4, <2>5, <2>6 DEF Next
  <1> QED
    BY <1>1, InitType, PTL DEF Spec
-----------------------------------------------------------------------------
(* The gate.  What a promotion found out about the gate of its release      *)
(* stays true to its end: results are append-only, overrides are never      *)
(* taken back, and the locals are its own.                                  *)

PastGate == {"cleared", "swapped", "retiring", "finishing"}

PinsCleared == \A r \in Release : \A p \in pin[r] : gate[r][p] # "none" /\ Cleared(r, p)

(* What holds of one request.                                               *)
GateOf(q) ==
    /\ pc[q] \in Promoting => tx[q].job.op = "promote"
    /\ pc[q] \in Promoting \ PastGate => tx[q].pinning = {}
    /\ pc[q] \in RollingBack => tx[q].job.op = "rollback" /\ ~tx[q].strict
    /\ pc[q] \in Active \cup {"done"} =>
           \A p \in tx[q].failedBefore : gate[Rel(q)][p] = "failed"
    /\ pc[q] \in PastGate =>
           /\ \A p \in tx[q].pinning : gateClearance(Rel(q), p)
           /\ tx[q].strict \/ Unanswered(q) # {} => tx[q].pinning # {}
    /\ /\ pc[q] = "done" /\ tx[q].job.op = "promote"
       /\ tx[q].strict \/ Unanswered(q) # {}
       => pin[Rel(q)] \cap LaunchPolicy # {}
    /\ pc[q] = "done" /\ tx[q].strict => tx[q].job.op = "promote"

GateInv == TypeOK /\ PinsCleared /\ \A q \in Request : GateOf(q)

(* Every step keeps the results there are, the overrides, and that a        *)
(* release has a launch gate result pinned.                                 *)
GatesKept ==
    /\ \A r \in Release, p \in Policy : gate[r][p] # "none" => gate'[r][p] = gate[r][p]
    /\ overridden \subseteq overridden'
    /\ \A r \in Release : pin[r] \cap LaunchPolicy # {} => pin'[r] \cap LaunchPolicy # {}

LEMMA GateOfStable ==
    ASSUME TypeOK, NEW q \in Request, GateOf(q), GatesKept,
           pc'[q] = pc[q], tx'[q] = tx[q]
    PROVE  GateOf(q)'
  <1>1. pc[q] \in Active \cup {"done"} =>
            Rel(q) \in Release /\ tx[q].failedBefore \subseteq Policy
    BY DEF TypeOK, Job, Tx
  <1>2. PastGate \subseteq Active
    BY DEF PastGate, Active, Promoting
  <1>3. ASSUME NEW p \in tx[q].pinning, pc[q] \in PastGate, gateClearance(Rel(q), p)
        PROVE  gateClearance(Rel(q), p)'
    BY <1>1, <1>2, <1>3, PolicyAssumption DEF gateClearance, Cleared, GatesKept
  <1>4. (Unanswered(q))' \subseteq Unanswered(q)
    BY DEF Unanswered, Rel, GatesKept
  <1>5. pc[q] \in PastGate => \A p \in tx[q].pinning : gateClearance(Rel(q), p)'
    BY <1>3 DEF GateOf
  <1>6. Rel(q)' = Rel(q)
    BY DEF Rel
  <1> QED
    BY <1>1, <1>2, <1>4, <1>5, <1>6 DEF GateOf, GatesKept

(* The pins a step leaves alone stay cleared.                               *)
LEMMA PinsClearedStable ==
    ASSUME TypeOK, PinsCleared, GatesKept, UNCHANGED pin
    PROVE  PinsCleared'
  BY DEF TypeOK, PinsCleared, GatesKept, Cleared

LEMMA GateInit == Init => GateInv
  <1> SUFFICES ASSUME Init PROVE GateInv
    OBVIOUS
  <1>1. PinsCleared
    BY DEF Init, PinsCleared
  <1>2. ASSUME NEW q \in Request PROVE GateOf(q)
    BY DEF Init, GateOf, Active, Promoting, RollingBack, PastGate
  <1> QED
    BY <1>1, <1>2, InitType DEF GateInv

(* The next statement of a request finds out, or keeps, what GateOf says.   *)
LEMMA GateStatement ==
    ASSUME GateInv, NEW q \in Request,
           \/ \E j \in Job : Arrive(q, j)
           \/ LockRelease(q) \/ LockProfile(q) \/ LockAlias(q)
           \/ CheckFailedGate(q) \/ AssertPromotionGate(q)
           \/ SwapAlias(q) \/ CountReferences(q) \/ RetirePrevious(q)
           \/ LockCurrent(q) \/ ReadTarget(q) \/ MoveAlias(q) \/ Abort(q)
    PROVE  GateOf(q)'
  <1>1. UNCHANGED <<state, alias, pin, trail, gate, overridden>>
    BY DEF Arrive, LockRelease, LockProfile, LockAlias, CheckFailedGate, AssertPromotionGate,
           SwapAlias, CountReferences, RetirePrevious, LockCurrent, ReadTarget, MoveAlias,
           Abort, tables, gates
  <1>2. /\ tx[q] \in Tx /\ GateOf(q)
        /\ pc \in [Request -> PC] /\ tx \in [Request -> Tx]
    BY DEF GateInv, TypeOK
  <1>3. ASSUME Refuse(q) PROVE GateOf(q)'
    BY <1>2, <1>3 DEF Refuse, Advance, GateOf, Active, Promoting, RollingBack, PastGate
  <1>4. ASSUME NEW j \in Job, Arrive(q, j) PROVE GateOf(q)'
    <2> DEFINE failed == {p \in Policy : StandsFailed(j.release, p)}
    <2>1. /\ pc'[q] = IF j.op = "promote" THEN "begin" ELSE "rollback"
          /\ tx'[q].job = j /\ tx'[q].failedBefore = failed /\ tx'[q].pinning = {}
          /\ tx'[q].strict = (j.op = "promote" /\ enforced)
      BY <1>2, <1>4 DEF Arrive, Advance, Fresh, Tx
    <2>2. j.op \in {"promote", "rollback"}
      BY DEF Job
    <2>3. \A p \in failed : gate[j.release][p] = "failed"
      BY DEF StandsFailed
    <2> HIDE DEF failed
    <2> QED
      BY <1>1, <2>1, <2>2, <2>3 DEF GateOf, Active, Promoting, RollingBack, PastGate
  <1>5. CASE LockRelease(q) \/ LockProfile(q) \/ SwapAlias(q) \/ CountReferences(q)
             \/ ReadTarget(q) \/ MoveAlias(q)
    BY <1>1, <1>2, <1>3, <1>5
    DEF LockRelease, LockProfile, SwapAlias, CountReferences, ReadTarget, MoveAlias, Goto,
        GateOf, gateClearance, Cleared, Unanswered, Rel,
        Active, Promoting, RollingBack, PastGate
  <1>6. CASE LockAlias(q) \/ LockCurrent(q) \/ RetirePrevious(q)
    <2>1. CASE Refuse(q)
      BY <1>3, <2>1
    <2>2. CASE ~Refuse(q)
      <3>1. /\ tx'[q].job = tx[q].job /\ tx'[q].strict = tx[q].strict
            /\ tx'[q].failedBefore = tx[q].failedBefore /\ tx'[q].pinning = tx[q].pinning
            /\ \/ pc[q] = "locked" /\ pc'[q] = "checking"
               \/ pc[q] = "rollback" /\ pc'[q] = "current"
               \/ pc[q] = "retiring" /\ pc'[q] = "finishing"
        BY <1>2, <1>6, <2>2 DEF LockAlias, LockCurrent, RetirePrevious, Advance, Tx
      <3> QED
        BY <1>1, <1>2, <3>1
        DEF GateOf, gateClearance, Cleared, Unanswered, Rel,
            Active, Promoting, RollingBack, PastGate
    <2> QED
      BY <2>1, <2>2
  <1>7. CASE CheckFailedGate(q)
    <2>1. /\ pc[q] = "checking" /\ tx'[q] = tx[q]
          /\ pc'[q] = IF tx[q].strict \/ failedGateExists(Rel(q))
                      THEN "clearing" ELSE "cleared"
      BY <1>2, <1>7 DEF CheckFailedGate, Goto
    <2>2. CASE tx[q].strict \/ failedGateExists(Rel(q))
      BY <1>1, <1>2, <2>1, <2>2 DEF GateOf, Active, Promoting, RollingBack, PastGate
    <2>3. CASE ~(tx[q].strict \/ failedGateExists(Rel(q)))
      (* Every failure it arrived with is overridden by now.                *)
      <3>1. Unanswered(q) = {}
        BY <1>2, <2>1, <2>3
        DEF failedGateExists, StandsFailed, Unanswered, GateOf, Active, Promoting, Tx
      <3>2. (Unanswered(q))' = {}
        BY <1>1, <2>1, <3>1 DEF Unanswered, Rel
      <3>3. tx[q].pinning = {}
        BY <1>2, <2>1 DEF GateOf, Promoting, PastGate
      <3> QED
        BY <1>1, <1>2, <2>1, <2>3, <3>2, <3>3
        DEF GateOf, Rel, Active, Promoting, RollingBack, PastGate
    <2> QED
      BY <2>2, <2>3
  <1>8. CASE AssertPromotionGate(q)
    <2>1. ASSUME NEW p \in LaunchPolicy, gateClearance(Rel(q), p), pc[q] = "clearing",
                 Advance(q, "cleared", [tx[q] EXCEPT !.pinning = {p}])
          PROVE  GateOf(q)'
      <3>1. /\ pc'[q] = "cleared"
            /\ tx'[q].job = tx[q].job /\ tx'[q].strict = tx[q].strict
            /\ tx'[q].failedBefore = tx[q].failedBefore /\ tx'[q].pinning = {p}
        BY <1>2, <2>1 DEF Advance, Tx
      <3>2. Rel(q)' = Rel(q) /\ gateClearance(Rel(q), p)'
        BY <1>1, <2>1, <3>1 DEF Rel, gateClearance, Cleared
      <3> QED
        BY <1>1, <1>2, <2>1, <3>1, <3>2
        DEF GateOf, Active, Promoting, RollingBack, PastGate
    <2>2. CASE Refuse(q)
      BY <1>3, <2>2
    <2>3. \/ Refuse(q)
          \/ \E p \in LaunchPolicy :
                 /\ gateClearance(Rel(q), p) /\ pc[q] = "clearing"
                 /\ Advance(q, "cleared", [tx[q] EXCEPT !.pinning = {p}])
      BY <1>8 DEF AssertPromotionGate
    <2> QED
      BY <2>1, <2>2, <2>3
  <1> QED
    BY <1>3, <1>4, <1>5, <1>6, <1>7, <1>8 DEF Abort

(* A commit pins what has been cleared, and answers the request.            *)
LEMMA GateCommit ==
    ASSUME GateInv, NEW q \in Request, CommitPromotion(q) \/ CommitRollback(q)
    PROVE  GatesKept /\ PinsCleared' /\ GateOf(q)'
  <1>1. /\ tx[q] \in Tx /\ GateOf(q) /\ PinsCleared
        /\ pc \in [Request -> PC] /\ tx \in [Request -> Tx]
        /\ pin \in [Release -> SUBSET Policy]
        /\ pc[q] \in Active => Rel(q) \in Release
    BY DEF GateInv, TypeOK, Job
  <1>2. UNCHANGED <<gate, overridden>>
    BY DEF CommitPromotion, CommitRollback, gates
  <1>3. /\ pc'[q] = "done" /\ tx'[q].job = tx[q].job /\ tx'[q].strict = tx[q].strict
        /\ tx'[q].failedBefore = tx[q].failedBefore
    <2>1. Answer(q)
      BY DEF CommitPromotion, CommitRollback
    <2> QED
      BY <1>1, <2>1 DEF Answer, Advance, Tx
  <1>4. CASE CommitPromotion(q)
    <2>1. /\ pc[q] \in PastGate /\ pc[q] \in Active /\ pc[q] \in Promoting
          /\ pin' = IF tx[q].pinning # {}
                    THEN [pin EXCEPT ![Rel(q)] = tx[q].pinning] ELSE pin
      BY <1>4 DEF CommitPromotion, PastGate, Active, Promoting
    <2>2. /\ \A p \in tx[q].pinning : gateClearance(Rel(q), p)
          /\ tx[q].strict \/ Unanswered(q) # {} => tx[q].pinning # {}
          /\ tx[q].job.op = "promote"
          /\ \A p \in tx[q].failedBefore : gate[Rel(q)][p] = "failed"
      BY <1>1, <2>1 DEF GateOf
    <2>3. tx[q].pinning # {} => tx[q].pinning \cap LaunchPolicy # {}
      BY <2>2 DEF gateClearance
    <2>4. GatesKept
      BY <1>1, <1>2, <2>1, <2>3 DEF GatesKept
    <2>5. PinsCleared'
      BY <1>1, <1>2, <2>1, <2>2 DEF PinsCleared, gateClearance, Cleared
    <2>6. Rel(q)' = Rel(q) /\ (Unanswered(q))' = Unanswered(q)
      BY <1>2, <1>3 DEF Unanswered, Rel
    <2>7. tx[q].pinning # {} => pin'[Rel(q)] \cap LaunchPolicy # {}
      BY <1>1, <2>1, <2>3
    <2>8. GateOf(q)'
      BY <1>2, <1>3, <2>2, <2>6, <2>7
      DEF GateOf, Active, Promoting, RollingBack, PastGate
    <2> QED
      BY <2>4, <2>5, <2>8
  <1>5. CASE CommitRollback(q)
    <2>1. pc[q] = "moved" /\ UNCHANGED pin
      BY <1>5 DEF CommitRollback
    <2>2. GatesKept /\ PinsCleared'
      BY <1>1, <1>2, <2>1 DEF GatesKept, PinsCleared, Cleared
    <2>3. GateOf(q)'
      BY <1>1, <1>2, <1>3, <2>1
      DEF GateOf, Active, Promoting, RollingBack, PastGate
    <2> QED
      BY <2>2, <2>3
  <1> QED
    BY <1>4, <1>5

LEMMA OthersWait ==
    ASSUME NEW q \in Request, Step(q) \/ Abort(q) \/ \E j \in Job : Arrive(q, j),
           pc \in [Request -> PC], tx \in [Request -> Tx]
    PROVE  \A o \in Request \ {q} : pc'[o] = pc[o] /\ tx'[o] = tx[o]
  BY DEF Step, Arrive, LockRelease, LockProfile, LockAlias, CheckFailedGate,
         AssertPromotionGate, SwapAlias, CountReferences, RetirePrevious, CommitPromotion,
         LockCurrent, ReadTarget, MoveAlias, CommitRollback, Abort, Advance, Goto,
         Refuse, Answer

LEMMA GateRequest ==
    ASSUME GateInv, NEW q \in Request,
           Step(q) \/ Abort(q) \/ \E j \in Job : Arrive(q, j)
    PROVE  PinsCleared' /\ \A o \in Request : GateOf(o)'
  <1>1. TypeOK /\ PinsCleared /\ (\A o \in Request : GateOf(o))
    BY DEF GateInv
  <1>2. GatesKept /\ PinsCleared' /\ GateOf(q)'
    <2>1. CASE CommitPromotion(q) \/ CommitRollback(q)
      BY <2>1, GateCommit
    <2>2. CASE ~(CommitPromotion(q) \/ CommitRollback(q))
      <3>1. UNCHANGED <<gate, overridden, pin>>
        BY <2>2 DEF Step, Arrive, LockRelease, LockProfile, LockAlias, CheckFailedGate,
           AssertPromotionGate, SwapAlias, CountReferences, RetirePrevious,
           LockCurrent, ReadTarget, MoveAlias, Abort, tables, gates
      <3>2. GatesKept
        BY <3>1 DEF GatesKept
      <3> QED
        BY <1>1, <2>2, <3>1, <3>2, PinsClearedStable, GateStatement DEF Step
    <2> QED
      BY <2>1, <2>2
  <1>3. \A o \in Request \ {q} : pc'[o] = pc[o] /\ tx'[o] = tx[o]
    BY <1>1, OthersWait DEF TypeOK
  <1>4. \A o \in Request \ {q} : GateOf(o)'
    BY <1>1, <1>2, <1>3, GateOfStable
  <1> QED
    BY <1>2, <1>4

(* The other actors never touch a request, a result or a pin there is.      *)
LEMMA GateOthers ==
    ASSUME GateInv,
           \/ \E r \in Release : Builder(r)
           \/ \E r \in Evaluable, p \in Policy : Evaluator(r, p)
           \/ \E on \in FlagValues : SetEnforcement(on)
           \/ UNCHANGED vars
    PROVE  PinsCleared' /\ \A o \in Request : GateOf(o)'
  <1>1. TypeOK /\ PinsCleared /\ (\A o \in Request : GateOf(o))
    BY DEF GateInv
  <1>2. UNCHANGED <<pin, pc, tx>>
    BY DEF Builder, Compile, FinishSemanticBuild, FailRebuild, LeaveBuild,
           Evaluator, EvaluateGate, OverrideGateFailure, SetEnforcement, vars, tables
  <1>3. GatesKept
    <2>1. CASE \E r \in Evaluable, p \in Policy : Evaluator(r, p)
      <3>1. PICK r \in Evaluable, p \in Policy : Evaluator(r, p)
        BY <2>1
      <3>2. CASE \E verdict \in {"passed", "failed"} : EvaluateGate(r, p, verdict)
        BY <1>1, <1>2, <3>2, BoundAssumption DEF EvaluateGate, GatesKept, TypeOK
      <3>3. CASE OverrideGateFailure(r, p)
        BY <1>2, <3>3 DEF OverrideGateFailure, GatesKept
      <3> QED
        BY <3>1, <3>2, <3>3 DEF Evaluator
    <2>2. CASE ~\E r \in Evaluable, p \in Policy : Evaluator(r, p)
      <3>1. UNCHANGED <<gate, overridden>>
        BY <2>2 DEF Builder, Compile, FinishSemanticBuild, FailRebuild, LeaveBuild,
                    SetEnforcement, vars, gates
      <3> QED
        BY <1>2, <3>1 DEF GatesKept
    <2> QED
      BY <2>1, <2>2
  <1>4. \A o \in Request : GateOf(o)'
    BY <1>1, <1>2, <1>3, GateOfStable
  <1> QED
    BY <1>1, <1>2, <1>3, <1>4, PinsClearedStable

LEMMA GateInvariant == Spec => []GateInv
  <1>1. GateInv /\ TypeOK' /\ [Next]_vars => GateInv'
    <2> SUFFICES ASSUME GateInv, TypeOK', [Next]_vars PROVE GateInv'
      OBVIOUS
    <2>1. PinsCleared' /\ \A o \in Request : GateOf(o)'
      BY GateRequest, GateOthers DEF Next
    <2> QED
      BY <2>1 DEF GateInv
  <1> QED
    BY <1>1, GateInit, TypeCorrect, PTL DEF Spec

(* A pinned gate result is one that clears its release, now and later.      *)
THEOREM PinnedGateIsCleared == Spec => []PinnedGateCleared
  <1>1. GateInv => PinnedGateCleared
    BY DEF GateInv, PinsCleared, PinnedGateCleared, Cleared, TypeOK
  <1> QED
    BY <1>1, GateInvariant, PTL

(* assertPromotionGate: a promotion that read the enforcement flag as set,  *)
(* or found a failure no override answers, leaves a launch result pinned.   *)
THEOREM GatedPromotionsPin == Spec => []GatedPromotionPinned
  <1>1. GateInv => GatedPromotionPinned
    BY DEF GateInv, GateOf, GatedPromotionPinned
  <1> QED
    BY <1>1, GateInvariant, PTL

-----------------------------------------------------------------------------
(* The lock invariant.                                                      *)

(* The steps that have read the alias, and those that know their release.   *)
AliasRead == {"checking", "clearing", "cleared", "swapped", "retiring", "finishing",
              "current", "target", "moved"}
Verified == {"locked", "checking", "clearing", "cleared", "swapped", "retiring",
             "finishing"}

(* What a request has read under a lock is still so.                        *)
LockOf(q) ==
    /\ pc[q] \notin AliasRead => tx[q].prev = NoRelease
    /\ pc[q] \in {"current", "target", "moved"} => tx[q].prev # NoRelease
    /\ pc[q] \in AliasRead =>
           /\ tx[q].prev # NoRelease => alias[Al(q)] = tx[q].prev
           /\ alias[Al(q)] # Rel(q)
    /\ pc[q] \in Verified => state[Rel(q)] \in PROMOTABLE_STATES
    /\ pc[q] \in {"target", "moved"} => state[Rel(q)] # "absent"
    /\ pc[q] = "retiring" => tx[q].prev # NoRelease
    /\ tx[q].retiring =>
           pc[q] = "finishing" /\ tx[q].prev # NoRelease /\ state[tx[q].prev] = "promoted"

(* No two requests hold locks that conflict.                                *)
Exclusive(q, o) ==
    /\ \A a \in Alias : ~(HoldsAlias(q, a) /\ HoldsAlias(o, a))
    /\ \A r \in Release :
           /\ HoldsRelease(q, r) => ~HoldsRelease(o, r) /\ ~HoldsPrevious(o, r) /\ ~HoldsKey(o, r)
           /\ HoldsPrevious(q, r) => ~HoldsPrevious(o, r)

LockInv == /\ TypeOK
           /\ \A q \in Request : LockOf(q)
           /\ \A q \in Request : \A o \in Request \ {q} : Exclusive(q, o)

LEMMA JobType ==
    ASSUME TypeOK, NEW q \in Request, pc[q] \in Active
    PROVE  /\ Rel(q) \in Release /\ Al(q) \in Alias
           /\ tx[q] \in Tx /\ tx[q].prev \in Release \cup {NoRelease}
           /\ tx[q].retiring \in BOOLEAN
  BY DEF TypeOK, Job, Tx

LEMMA LockInit == Init => LockInv
  <1> SUFFICES ASSUME Init PROVE LockInv
    OBVIOUS
  <1>1. ASSUME NEW q \in Request PROVE LockOf(q)
    BY DEF Init, LockOf, Fresh, AliasRead, Verified
  <1>2. ASSUME NEW q \in Request, NEW o \in Request PROVE Exclusive(q, o)
    BY DEF Init, Exclusive, HoldsAlias, HoldsRelease, HoldsPrevious, HoldsKey,
           Active, Promoting, RollingBack
  <1> QED
    BY <1>1, <1>2, InitType DEF LockInv

-----------------------------------------------------------------------------
(* A lock is new only where its statement waited for it.                    *)
Acquires(q) ==
    /\ \A a \in Alias : HoldsAlias(q, a)' => HoldsAlias(q, a) \/ AliasFree(q, a)
    /\ \A r \in Release :
           /\ HoldsRelease(q, r)' => HoldsRelease(q, r) \/ (ReleaseFree(q, r) /\ KeysFree(q, r))
           /\ HoldsPrevious(q, r)' => HoldsPrevious(q, r) \/ ReleaseFree(q, r)
           /\ HoldsKey(q, r)' =>
                  HoldsKey(q, r) \/ \A o \in Request \ {q} : ~HoldsRelease(o, r)

LEMMA ExclusionKept ==
    ASSUME LockInv, NEW q \in Request, Acquires(q),
           \A o \in Request \ {q} : pc'[o] = pc[o] /\ tx'[o] = tx[o]
    PROVE  \A p \in Request : \A o \in Request \ {p} : Exclusive(p, o)'
  <1> SUFFICES ASSUME NEW p \in Request, NEW o \in Request \ {p} PROVE Exclusive(p, o)'
    OBVIOUS
  <1>1. \A x \in Request \ {q} :
            /\ \A a \in Alias : HoldsAlias(x, a)' <=> HoldsAlias(x, a)
            /\ \A r \in Release : /\ HoldsRelease(x, r)' <=> HoldsRelease(x, r)
                                  /\ HoldsPrevious(x, r)' <=> HoldsPrevious(x, r)
                                  /\ HoldsKey(x, r)' <=> HoldsKey(x, r)
    BY DEF HoldsAlias, HoldsRelease, HoldsPrevious, HoldsKey
  <1>2. Exclusive(p, o) /\ Exclusive(o, p)
    BY DEF LockInv
  <1>3. CASE p # q /\ o # q
    BY <1>1, <1>2, <1>3 DEF Exclusive
  <1>4. CASE p = q
    BY <1>1, <1>2, <1>4 DEF Exclusive, Acquires, AliasFree, ReleaseFree, KeysFree
  <1>5. CASE o = q
    BY <1>1, <1>2, <1>5 DEF Exclusive, Acquires, AliasFree, ReleaseFree, KeysFree
  <1> QED
    BY <1>3, <1>4, <1>5

(* The facts of a request that another one's step leaves alone.             *)
LEMMA LockOfStable ==
    ASSUME LockInv, NEW q \in Request, pc'[q] = pc[q], tx'[q] = tx[q],
           UNCHANGED <<alias, state>>
    PROVE  LockOf(q)'
  BY DEF LockInv, LockOf

-----------------------------------------------------------------------------
(* The statements before the commit.                                        *)

LEMMA RefuseLocks ==
    ASSUME LockInv, NEW q \in Request, Refuse(q)
    PROVE  LockOf(q)' /\ Acquires(q)
  <1>1. pc'[q] = "unserved" /\ tx'[q] = Fresh
    BY DEF Refuse, Advance, LockInv, TypeOK
  <1>2. LockOf(q)'
    BY <1>1 DEF LockOf, Fresh, AliasRead, Verified
  <1>3. Acquires(q)
    BY <1>1 DEF Acquires, HoldsAlias, HoldsRelease, HoldsPrevious, HoldsKey,
                Active, Promoting, RollingBack
  <1> QED
    BY <1>2, <1>3

LEMMA ArriveLocks ==
    ASSUME LockInv, NEW q \in Request, NEW j \in Job, Arrive(q, j)
    PROVE  LockOf(q)' /\ Acquires(q)
  <1>1. /\ pc'[q] \in {"begin", "rollback"}
        /\ tx'[q].prev = NoRelease /\ tx'[q].retiring = FALSE
    BY DEF Arrive, Advance, LockInv, TypeOK, Fresh
  <1>2. LockOf(q)'
    BY <1>1 DEF LockOf, AliasRead, Verified
  <1>3. Acquires(q)
    BY <1>1 DEF Acquires, HoldsAlias, HoldsRelease, HoldsPrevious, HoldsKey,
                Active, Promoting, RollingBack
  <1> QED
    BY <1>2, <1>3

LEMMA GotoLocks ==
    ASSUME LockInv, NEW q \in Request, ~Refuse(q),
           \/ LockRelease(q) \/ LockProfile(q) \/ CheckFailedGate(q) \/ SwapAlias(q)
           \/ CountReferences(q) \/ ReadTarget(q) \/ MoveAlias(q)
    PROVE  LockOf(q)' /\ Acquires(q)
  <1>1. /\ tx'[q] = tx[q] /\ UNCHANGED <<alias, state>>
        /\ \/ /\ pc[q] = "begin" /\ pc'[q] = "locking"
              /\ ReleaseFree(q, Rel(q)) /\ KeysFree(q, Rel(q))
           \/ /\ pc[q] = "locking" /\ pc'[q] = "locked"
              /\ state[Rel(q)] \in PROMOTABLE_STATES
           \/ pc[q] = "checking" /\ pc'[q] \in {"clearing", "cleared"}
           \/ pc[q] = "cleared" /\ pc'[q] = "swapped" /\ AliasFree(q, Al(q))
           \/ pc[q] = "swapped" /\ pc'[q] = "finishing"
           \/ pc[q] = "swapped" /\ pc'[q] = "retiring" /\ tx[q].prev # NoRelease
           \/ pc[q] = "current" /\ pc'[q] = "target" /\ state[Rel(q)] # "absent"
           \/ /\ pc[q] = "target" /\ pc'[q] = "moved"
              /\ \A o \in Request \ {q} : ~HoldsRelease(o, Rel(q))
    BY DEF LockRelease, LockProfile, CheckFailedGate, SwapAlias, CountReferences,
           ReadTarget, MoveAlias, Goto, tables, LockInv, TypeOK
  <1>2. LockOf(q)
    BY DEF LockInv
  <1>3. LockOf(q)'
    BY <1>1, <1>2 DEF LockOf, AliasRead, Verified
  <1>4. Acquires(q)
    BY <1>1, <1>2 DEF Acquires, LockOf, AliasRead, HoldsAlias, HoldsRelease, HoldsPrevious,
                HoldsKey, Active, Promoting, RollingBack
  <1> QED
    BY <1>3, <1>4

(* The statements that read the alias, pin the gate or demote a release.    *)
LEMMA ReadingLocks ==
    ASSUME LockInv, NEW q \in Request, ~Refuse(q),
           LockAlias(q) \/ LockCurrent(q) \/ AssertPromotionGate(q) \/ RetirePrevious(q)
    PROVE  LockOf(q)' /\ Acquires(q)
  <1>1. tx[q] \in Tx /\ pc \in [Request -> PC] /\ tx \in [Request -> Tx] /\ LockOf(q)
    BY DEF LockInv, TypeOK
  <1>2. UNCHANGED <<alias, state>>
    BY DEF LockAlias, LockCurrent, AssertPromotionGate, RetirePrevious, tables
  <1>3. CASE LockAlias(q) \/ LockCurrent(q)
    <2>1. /\ tx'[q].job = tx[q].job /\ tx'[q].retiring = tx[q].retiring
          /\ tx'[q].prev = alias[Al(q)] /\ alias[Al(q)] # Rel(q)
          /\ alias[Al(q)] # NoRelease => AliasFree(q, Al(q))
          /\ \/ pc[q] = "locked" /\ pc'[q] = "checking"
             \/ pc[q] = "rollback" /\ pc'[q] = "current" /\ alias[Al(q)] # NoRelease
      BY <1>1, <1>3 DEF LockAlias, LockCurrent, Advance, Tx
    <2>2. LockOf(q)'
      BY <1>1, <1>2, <2>1 DEF LockOf, AliasRead, Verified
    <2>3. Acquires(q)
      BY <1>1, <2>1 DEF Acquires, LockOf, AliasRead, HoldsAlias, HoldsRelease, HoldsPrevious,
                        HoldsKey, Active, Promoting, RollingBack
    <2> QED
      BY <2>2, <2>3
  <1>4. CASE AssertPromotionGate(q)
    <2>1. /\ tx'[q].job = tx[q].job /\ tx'[q].retiring = tx[q].retiring
          /\ tx'[q].prev = tx[q].prev
          /\ pc[q] = "clearing" /\ pc'[q] = "cleared"
      BY <1>1, <1>4 DEF AssertPromotionGate, Advance, Tx
    <2>2. LockOf(q)'
      BY <1>1, <1>2, <2>1 DEF LockOf, AliasRead, Verified
    <2>3. Acquires(q)
      BY <1>1, <2>1 DEF Acquires, LockOf, AliasRead, HoldsAlias, HoldsRelease, HoldsPrevious,
                        HoldsKey, Active, Promoting, RollingBack
    <2> QED
      BY <2>2, <2>3
  <1>5. CASE RetirePrevious(q)
    <2>1. /\ tx'[q].job = tx[q].job /\ tx'[q].prev = tx[q].prev
          /\ tx'[q].retiring = (state[tx[q].prev] = "promoted")
          /\ state[tx[q].prev] = "promoted" => ReleaseFree(q, tx[q].prev)
          /\ pc[q] = "retiring" /\ pc'[q] = "finishing"
      BY <1>1, <1>5 DEF RetirePrevious, Advance, Tx
    <2>2. LockOf(q)'
      BY <1>1, <1>2, <2>1 DEF LockOf, AliasRead, Verified
    <2>3. Acquires(q)
      BY <1>1, <2>1 DEF Acquires, LockOf, AliasRead, HoldsAlias, HoldsRelease, HoldsPrevious,
                        HoldsKey, Active, Promoting, RollingBack
    <2> QED
      BY <2>2, <2>3
  <1> QED
    BY <1>3, <1>4, <1>5

(* A commit leaves nothing locked.                                          *)
LEMMA AnswerLocks ==
    ASSUME LockInv, NEW q \in Request, Answer(q)
    PROVE  LockOf(q)' /\ Acquires(q)
  <1>1. pc'[q] = "done" /\ tx'[q].prev = NoRelease /\ tx'[q].retiring = FALSE
    BY DEF Answer, Advance, LockInv, TypeOK, Tx
  <1>2. LockOf(q)'
    BY <1>1 DEF LockOf, AliasRead, Verified
  <1>3. Acquires(q)
    BY <1>1 DEF Acquires, HoldsAlias, HoldsRelease, HoldsPrevious, HoldsKey,
                Active, Promoting, RollingBack
  <1> QED
    BY <1>2, <1>3

(* What a request knows of rows it does not lock survives the commit of     *)
(* another: the alias moves under the committer's lock, its release is in   *)
(* no other promotion, and it demotes only what no other one has locked.    *)
LEMMA LockOfCommit ==
    ASSUME LockInv, NEW q \in Request, NEW o \in Request \ {q},
           CommitPromotion(q) \/ CommitRollback(q)
    PROVE  LockOf(o)'
  <1>1. /\ LockOf(q) /\ LockOf(o) /\ Exclusive(q, o) /\ Exclusive(o, q)
        /\ pc'[o] = pc[o] /\ tx'[o] = tx[o]
    BY OthersWait DEF LockInv, Step, TypeOK
  <1>2. /\ pc[q] \in Active /\ pc[q] \in AliasRead
        /\ alias' = [alias EXCEPT ![Al(q)] = Rel(q)]
    BY DEF CommitPromotion, CommitRollback, Move, Active, Promoting, RollingBack, AliasRead
  <1>3. /\ Rel(q) \in Release /\ Al(q) \in Alias /\ tx[q].prev \in Release \cup {NoRelease}
        /\ pc[o] \in AliasRead \cup Verified \cup {"target", "moved"} =>
               /\ Rel(o) \in Release /\ Al(o) \in Alias
               /\ tx[o].prev \in Release \cup {NoRelease}
        /\ alias \in [Alias -> Release \cup {NoRelease}]
        /\ state \in [Release -> ReleaseState]
    BY <1>2, JobType DEF LockInv, TypeOK, Active, Promoting, RollingBack, AliasRead, Verified
  <1>4. HoldsAlias(q, Al(q))
    BY <1>1, <1>2 DEF HoldsAlias, LockOf, CommitPromotion, CommitRollback, Active, Promoting,
                      RollingBack
  <1>5. HoldsRelease(q, Rel(q)) \/ HoldsKey(q, Rel(q))
    BY DEF CommitPromotion, CommitRollback, HoldsRelease, HoldsKey, Promoting
  <1>6. pc[o] \in AliasRead =>
            /\ tx[o].prev # NoRelease => alias'[Al(o)] = tx[o].prev
            /\ alias'[Al(o)] # Rel(o)
    <2> SUFFICES ASSUME pc[o] \in AliasRead
                 PROVE  /\ tx[o].prev # NoRelease => alias'[Al(o)] = tx[o].prev
                        /\ alias'[Al(o)] # Rel(o)
      OBVIOUS
    <2>1. CASE tx[o].prev # NoRelease
      <3>1. HoldsAlias(o, Al(o))
        BY <2>1 DEF HoldsAlias, AliasRead, Active, Promoting, RollingBack
      <3>2. Al(o) # Al(q)
        BY <1>1, <1>3, <1>4, <3>1 DEF Exclusive
      <3> QED
        BY <1>1, <1>2, <1>3, <2>1, <3>2 DEF LockOf
    <2>2. CASE tx[o].prev = NoRelease
      <3>1. HoldsRelease(o, Rel(o))
        BY <1>1, <2>2 DEF HoldsRelease, LockOf, AliasRead, Promoting
      <3>2. Rel(o) # Rel(q)
        BY <1>1, <1>3, <1>5, <3>1 DEF Exclusive
      <3> QED
        BY <1>1, <1>2, <1>3, <2>2, <3>2 DEF LockOf
    <2> QED
      BY <2>1, <2>2
  <1>7. /\ pc[o] \in Verified => state'[Rel(o)] \in PROMOTABLE_STATES
        /\ pc[o] \in {"target", "moved"} => state'[Rel(o)] # "absent"
        /\ tx[o].retiring => state'[tx[o].prev] = "promoted"
    <2>1. CASE CommitRollback(q)
      BY <1>1, <2>1 DEF CommitRollback, LockOf
    <2>2. CASE CommitPromotion(q)
      <3>1. state' = [r \in Release |->
                         IF r = Rel(q) THEN "promoted"
                         ELSE IF tx[q].retiring /\ r = tx[q].prev THEN "retired"
                         ELSE state[r]]
        BY <2>2 DEF CommitPromotion
      <3>2. tx[q].retiring => HoldsPrevious(q, tx[q].prev)
        BY <2>2 DEF CommitPromotion, HoldsPrevious, Promoting
      <3>3. ASSUME pc[o] \in Verified PROVE state'[Rel(o)] \in PROMOTABLE_STATES
        <4>1. HoldsRelease(o, Rel(o))
          BY <3>3 DEF HoldsRelease, Verified, Promoting
        <4>2. tx[q].retiring => tx[q].prev # Rel(o)
          BY <1>1, <1>3, <3>2, <3>3, <4>1 DEF Exclusive
        <4> QED
          BY <1>1, <1>3, <3>1, <3>3, <4>2 DEF LockOf, PROMOTABLE_STATES
      <3>4. ASSUME pc[o] \in {"target", "moved"} PROVE state'[Rel(o)] # "absent"
        BY <1>1, <1>3, <3>1, <3>4 DEF LockOf
      <3>5. ASSUME tx[o].retiring PROVE state'[tx[o].prev] = "promoted"
        <4>1. /\ pc[o] = "finishing" /\ tx[o].prev # NoRelease
              /\ state[tx[o].prev] = "promoted"
          BY <1>1, <3>5 DEF LockOf
        <4>2. HoldsPrevious(o, tx[o].prev) /\ tx[o].prev \in Release
          BY <1>3, <3>5, <4>1 DEF HoldsPrevious, Promoting, Verified
        <4>3. tx[q].retiring => tx[q].prev # tx[o].prev
          BY <1>1, <3>2, <4>2 DEF Exclusive
        <4> QED
          BY <3>1, <4>1, <4>2, <4>3
      <3> QED
        BY <3>3, <3>4, <3>5
    <2> QED
      BY <2>1, <2>2
  <1> QED
    BY <1>1, <1>6, <1>7 DEF LockOf

LEMMA RequestLocks ==
    ASSUME LockInv, TypeOK', NEW q \in Request,
           Step(q) \/ Abort(q) \/ \E j \in Job : Arrive(q, j)
    PROVE  LockInv'
  <1>1. \A o \in Request \ {q} : pc'[o] = pc[o] /\ tx'[o] = tx[o]
    BY OthersWait DEF LockInv, TypeOK
  <1>2. LockOf(q)' /\ Acquires(q)
    BY RefuseLocks, ArriveLocks, GotoLocks, ReadingLocks, AnswerLocks
    DEF Step, Abort, CommitPromotion, CommitRollback
  <1>3. ASSUME NEW o \in Request \ {q} PROVE LockOf(o)'
    <2>1. CASE CommitPromotion(q) \/ CommitRollback(q)
      BY <2>1, LockOfCommit
    <2>2. CASE ~(CommitPromotion(q) \/ CommitRollback(q))
      <3>1. UNCHANGED <<alias, state>>
        BY <2>2 DEF Step, Arrive, LockRelease, LockProfile, LockAlias, CheckFailedGate,
           AssertPromotionGate, SwapAlias, CountReferences, RetirePrevious,
           LockCurrent, ReadTarget, MoveAlias, Abort, tables
      <3> QED
        BY <1>1, <3>1, LockOfStable
    <2> QED
      BY <2>1, <2>2
  <1> QED
    BY <1>1, <1>2, <1>3, ExclusionKept DEF LockInv

(* A builder writes a new release, or one that no promotion has locked.     *)
Built(r, s) ==
    /\ s \in {"ready", "failed"}
    /\ state[r] = "absent" => s = "ready"
    /\ state[r] = "absent" \/ RowFree(r)
    /\ state' = [state EXCEPT ![r] = s]
    /\ UNCHANGED <<alias, trail, pc, tx>>

LEMMA BuilderWrites ==
    ASSUME TypeOK, NEW r \in Release, Builder(r), followUp[r] # "none" => state[r] # "absent"
    PROVE  UNCHANGED <<alias, state, trail, pc, tx>> \/ \E s \in ReleaseState : Built(r, s)
  <1>1. CASE \E owed \in BuildKinds : Compile(r, owed)
    BY <1>1 DEF Compile, Built, ReleaseState
  <1>2. CASE FinishSemanticBuild(r)
    BY <1>2 DEF FinishSemanticBuild, Built, ReleaseState
  <1>3. CASE FailRebuild(r)
    BY <1>3 DEF FailRebuild, Built, ReleaseState
  <1>4. CASE LeaveBuild(r)
    BY <1>4 DEF LeaveBuild, tables
  <1> QED
    BY <1>1, <1>2, <1>3, <1>4 DEF Builder

LEMMA BuilderLocks ==
    ASSUME LockInv, TypeOK', NEW r \in Release, NEW s \in ReleaseState, Built(r, s)
    PROVE  LockInv'
  <1>1. ASSUME NEW q \in Request PROVE LockOf(q)'
    <2>1. /\ LockOf(q) /\ UNCHANGED <<alias, pc, tx>>
          /\ state \in [Release -> ReleaseState]
          /\ tx[q] \in Tx
          /\ state' = [state EXCEPT ![r] = s] /\ s # "absent"
          /\ state[r] = "absent" \/ (~HoldsRelease(q, r) /\ ~HoldsPrevious(q, r))
      BY DEF LockInv, TypeOK, Built, RowFree
    <2>2. pc[q] \in Verified \cup {"target", "moved"} => Rel(q) \in Release
      BY JobType DEF LockInv, Verified, Active, Promoting, RollingBack
    <2>3. pc[q] \in Verified => state'[Rel(q)] \in PROMOTABLE_STATES
      BY <2>1, <2>2 DEF LockOf, HoldsRelease, Verified, Promoting, PROMOTABLE_STATES
    <2>4. pc[q] \in {"target", "moved"} => state'[Rel(q)] # "absent"
      BY <2>1, <2>2 DEF LockOf
    <2>5. tx[q].retiring => state'[tx[q].prev] = "promoted"
      BY <2>1 DEF LockOf, HoldsPrevious, Promoting, Tx
    <2> QED
      BY <2>1, <2>3, <2>4, <2>5 DEF LockOf
  <1>2. ASSUME NEW q \in Request, NEW o \in Request \ {q} PROVE Exclusive(q, o)'
    <2>1. Exclusive(q, o) /\ UNCHANGED <<pc, tx>>
      BY DEF LockInv, Built
    <2> QED
      BY <2>1 DEF Exclusive, HoldsAlias, HoldsRelease, HoldsPrevious, HoldsKey
  <1> QED
    BY <1>1, <1>2 DEF LockInv

(* A step that leaves the aliases, the releases and the requests alone.     *)
LEMMA LockStutter ==
    ASSUME LockInv, TypeOK', UNCHANGED <<alias, state, pc, tx>>
    PROVE  LockInv'
  <1>1. ASSUME NEW q \in Request PROVE LockOf(q)'
    BY LockOfStable
  <1>2. ASSUME NEW q \in Request, NEW o \in Request \ {q} PROVE Exclusive(q, o)'
    BY DEF LockInv, Exclusive, HoldsAlias, HoldsRelease, HoldsPrevious, HoldsKey
  <1> QED
    BY <1>1, <1>2 DEF LockInv

(* The evaluator and the switch of the flag touch none of them.             *)
LEMMA OthersStutter ==
    ASSUME \/ \E r \in Evaluable, p \in Policy : Evaluator(r, p)
           \/ \E on \in FlagValues : SetEnforcement(on)
           \/ UNCHANGED vars
    PROVE  UNCHANGED <<alias, state, trail, pc, tx>>
  BY DEF Evaluator, EvaluateGate, OverrideGateFailure, SetEnforcement, vars, tables

(* A builder owes something only of a release it has published.             *)
OwedBuilt == \A r \in Release : followUp[r] # "none" => state[r] # "absent"

LEMMA OwedStep ==
    ASSUME TypeOK, LockInv, OwedBuilt, [Next]_vars
    PROVE  OwedBuilt'
  <1>1. ASSUME NEW r \in Release, state[r] # "absent" PROVE state'[r] # "absent"
    BY <1>1 DEF TypeOK, Next, vars, tables, Builder, Evaluator, EvaluateGate, OverrideGateFailure,
           SetEnforcement, Compile, FinishSemanticBuild, FailRebuild, LeaveBuild, Step,
           Arrive, LockRelease, LockProfile, LockAlias, CheckFailedGate, AssertPromotionGate,
           SwapAlias, CountReferences, RetirePrevious, CommitPromotion, LockCurrent,
           ReadTarget, MoveAlias, CommitRollback, Abort
  <1>2. ASSUME NEW r \in Release, followUp[r] = "none", followUp'[r] # "none"
        PROVE  state'[r] # "absent"
    BY <1>2 DEF TypeOK, Next, vars, tables, Builder, Evaluator, EvaluateGate, OverrideGateFailure,
           SetEnforcement, Compile, FinishSemanticBuild, FailRebuild, LeaveBuild, Step,
           Arrive, LockRelease, LockProfile, LockAlias, CheckFailedGate, AssertPromotionGate,
           SwapAlias, CountReferences, RetirePrevious, CommitPromotion, LockCurrent,
           ReadTarget, MoveAlias, CommitRollback, Abort
  <1> QED
    BY <1>1, <1>2 DEF OwedBuilt

LEMMA LockInvariant == Spec => [](LockInv /\ OwedBuilt)
  <1>1. Init => LockInv /\ OwedBuilt
    BY LockInit DEF Init, OwedBuilt
  <1>2. LockInv /\ OwedBuilt /\ TypeOK' /\ [Next]_vars => LockInv' /\ OwedBuilt'
    <2> SUFFICES ASSUME LockInv, OwedBuilt, TypeOK', [Next]_vars PROVE LockInv' /\ OwedBuilt'
      OBVIOUS
    <2>1. TypeOK
      BY DEF LockInv
    <2>2. OwedBuilt'
      BY <2>1, OwedStep
    <2>3. LockInv'
      BY <2>1, RequestLocks, BuilderWrites, BuilderLocks, LockStutter, OthersStutter
      DEF Next, OwedBuilt
    <2> QED
      BY <2>2, <2>3
  <1> QED
    BY <1>1, <1>2, TypeCorrect, PTL DEF Spec

-----------------------------------------------------------------------------
(* The refinement.                                                          *)

LEMMA PromotionIsAtomic ==
    ASSUME LockInv, NEW q \in Request, CommitPromotion(q)
    PROVE  Register!Promote(Al(q), Rel(q))
  <1>1. /\ LockOf(q) /\ Rel(q) \in Release /\ Al(q) \in Alias
        /\ tx[q].prev \in Release \cup {NoRelease}
    BY JobType DEF LockInv, CommitPromotion, Active, Promoting
  <1>2. /\ alias[Al(q)] # Rel(q)
        /\ state[Rel(q)] \in {"ready", "promoted"}
        /\ tx[q].retiring => /\ tx[q].prev \in {alias[Al(q)]} \cap Release
                             /\ state[tx[q].prev] = "promoted"
    BY <1>1 DEF LockOf, CommitPromotion, AliasRead, Verified, PROMOTABLE_STATES
  <1> DEFINE demoted == IF tx[q].retiring THEN {tx[q].prev} ELSE {}
  <1>3. /\ demoted \in SUBSET ({alias[Al(q)]} \cap Release)
        /\ \A p \in demoted : state[p] = "promoted"
    BY <1>2
  <1>4. state' = [x \in Release |-> IF x = Rel(q) THEN "promoted"
                                   ELSE IF x \in demoted THEN "retired"
                                   ELSE state[x]]
    BY DEF CommitPromotion
  <1>5. alias' = [alias EXCEPT ![Al(q)] = Rel(q)]
    BY DEF CommitPromotion, Move
  <1> HIDE DEF demoted
  <1> QED
    BY <1>2, <1>3, <1>4, <1>5 DEF Register!Promote

LEMMA RollbackIsAtomic ==
    ASSUME LockInv, NEW q \in Request, CommitRollback(q)
    PROVE  Register!Rollback(Al(q), Rel(q))
  <1>1. LockOf(q)
    BY DEF LockInv
  <1> QED
    BY <1>1 DEF LockOf, CommitRollback, Move, AliasRead, Register!Rollback

(* "they see either the old or the new release, never a partial state": the *)
(* aliases are atomic registers.                                            *)
THEOREM IndexImplementsRegister == Spec => AliasesAreAtomic
  <1>1. Init => Register!Init
    BY NoReleaseAssumption DEF Init, Register!Init
  <1>2. LockInv /\ OwedBuilt /\ [Next]_vars => [Register!Next]_<<alias, state>>
    <2> SUFFICES ASSUME LockInv, OwedBuilt, [Next]_vars
                 PROVE  Register!Next \/ UNCHANGED <<alias, state>>
      OBVIOUS
    <2>1. ASSUME NEW q \in Request, Step(q) \/ Abort(q) \/ \E j \in Job : Arrive(q, j)
          PROVE  Register!Next \/ UNCHANGED <<alias, state>>
      <3>1. CASE CommitPromotion(q) \/ CommitRollback(q)
        <4>1. Rel(q) \in Release /\ Al(q) \in Alias
          BY <3>1, JobType DEF LockInv, CommitPromotion, CommitRollback, Active, Promoting,
                               RollingBack
        <4> QED
          BY <3>1, <4>1, PromotionIsAtomic, RollbackIsAtomic DEF Register!Next
      <3>2. CASE ~(CommitPromotion(q) \/ CommitRollback(q))
        BY <2>1, <3>2 DEF Step, Arrive, LockRelease, LockProfile, LockAlias, CheckFailedGate,
           AssertPromotionGate, SwapAlias, CountReferences, RetirePrevious,
           LockCurrent, ReadTarget, MoveAlias, Abort, tables
      <3> QED
        BY <3>1, <3>2
    <2>2. ASSUME NEW r \in Release, Builder(r)
          PROVE  Register!Next \/ UNCHANGED <<alias, state>>
      <3>1. CASE UNCHANGED <<alias, state, trail, pc, tx>>
        BY <3>1
      <3>2. ASSUME NEW s \in ReleaseState, Built(r, s) PROVE Register!Next
        <4>1. Register!Build(r, s)
          BY <3>2 DEF Built, Register!Build
        <4> QED
          BY <4>1 DEF Register!Next, Register!ReleaseState, ReleaseState
      <3> QED
        BY <2>2, <3>1, <3>2, BuilderWrites DEF LockInv, OwedBuilt
    <2> QED
      BY <2>1, <2>2, OthersStutter DEF Next
  <1> QED
    BY <1>1, <1>2, LockInvariant, PTL DEF Spec, AliasesAreAtomic, Register!Spec, Register!vars

-----------------------------------------------------------------------------
(* The audit trail.                                                         *)

LEMMA MoveExtendsTrail ==
    ASSUME LockInv, TrailFollowsAlias, NEW q \in Request,
           CommitPromotion(q) \/ CommitRollback(q)
    PROVE  TrailFollowsAlias'
  <1> DEFINE move == [from |-> tx[q].prev, to |-> Rel(q)]
             Moves == [from : Release \cup {NoRelease}, to : Release]
  <1>1. /\ LockOf(q) /\ Rel(q) \in Release /\ Al(q) \in Alias
        /\ tx[q].prev \in Release \cup {NoRelease}
    BY JobType DEF LockInv, CommitPromotion, CommitRollback, Active, Promoting, RollingBack
  <1>2. /\ alias' = [alias EXCEPT ![Al(q)] = Rel(q)]
        /\ trail' = [trail EXCEPT ![Al(q)] = Append(@, move)]
        /\ alias \in [Alias -> Release \cup {NoRelease}]
        /\ trail \in [Alias -> Seq(Moves)]
    BY DEF CommitPromotion, CommitRollback, Move, LockInv, TypeOK
  <1>3. tx[q].prev # NoRelease => tx[q].prev = alias[Al(q)]
    BY <1>1 DEF LockOf, CommitPromotion, CommitRollback, AliasRead
  <1>4. move \in Moves /\ move.from = tx[q].prev /\ move.to = Rel(q)
    BY <1>1
  <1> HIDE DEF move, Moves
  <1> SUFFICES ASSUME NEW a \in Alias
               PROVE  /\ trail'[a] # <<>> => trail'[a][Len(trail'[a])].to = alias'[a]
                      /\ \A i \in 2 .. Len(trail'[a]) :
                             trail'[a][i].from \in {trail'[a][i - 1].to, NoRelease}
    BY DEF TrailFollowsAlias
  <1>5. CASE a # Al(q)
    BY <1>1, <1>2, <1>5 DEF TrailFollowsAlias
  <1>6. CASE a = Al(q)
    <2> DEFINE t == trail[a]
    <2>1. /\ t \in Seq(Moves) /\ Len(t) \in Nat
          /\ trail'[a] = Append(t, move) /\ alias'[a] = Rel(q)
      BY <1>2, <1>6
    <2>2. /\ t # <<>> => t[Len(t)].to = alias[a]
          /\ \A i \in 2 .. Len(t) : t[i].from \in {t[i - 1].to, NoRelease}
      BY DEF TrailFollowsAlias
    <2> HIDE DEF t
    <2>3. /\ Len(Append(t, move)) = Len(t) + 1
          /\ Append(t, move)[Len(t) + 1] = move
          /\ \A i \in 1 .. Len(t) : Append(t, move)[i] = t[i]
      BY <1>4, <2>1, AppendProperties
    <2>4. ASSUME NEW i \in 2 .. Len(t) + 1
          PROVE  Append(t, move)[i].from \in {Append(t, move)[i - 1].to, NoRelease}
      <3>1. CASE i \in 2 .. Len(t)
        <4>1. i \in 1 .. Len(t) /\ i - 1 \in 1 .. Len(t)
          BY <2>1, <3>1
        <4> QED
          BY <2>2, <2>3, <3>1, <4>1
      <3>2. CASE i = Len(t) + 1
        <4>1. t # <<>> /\ i - 1 = Len(t) /\ Len(t) \in 1 .. Len(t)
          BY <2>1, <3>2, EmptySeq
        <4> QED
          BY <1>3, <1>4, <1>6, <2>2, <2>3, <3>2, <4>1
      <3> QED
        BY <2>1, <3>1, <3>2
    <2> QED
      BY <1>4, <2>1, <2>3, <2>4
  <1> QED
    BY <1>5, <1>6

(* The audit trail of an alias ends where the alias points, and no recorded *)
(* move of an existing row skips another.                                   *)
THEOREM TrailIsFaithful == Spec => []TrailFollowsAlias
  <1>1. Init => TrailFollowsAlias
    BY DEF Init, TrailFollowsAlias
  <1>2. LockInv /\ OwedBuilt /\ TrailFollowsAlias /\ [Next]_vars => TrailFollowsAlias'
    <2> SUFFICES ASSUME LockInv, OwedBuilt, TrailFollowsAlias, [Next]_vars
                 PROVE  TrailFollowsAlias'
      OBVIOUS
    <2>1. CASE UNCHANGED <<alias, trail>>
      BY <2>1 DEF TrailFollowsAlias
    <2>2. CASE \E q \in Request : CommitPromotion(q) \/ CommitRollback(q)
      BY <2>2, MoveExtendsTrail
    <2>3. CASE \E q \in Request : \/ \E j \in Job : Arrive(q, j)
                                 \/ (Step(q) /\ ~(CommitPromotion(q) \/ CommitRollback(q)))
                                 \/ Abort(q)
      BY <2>1, <2>3 DEF Step, Arrive, LockRelease, LockProfile, LockAlias, CheckFailedGate,
         AssertPromotionGate, SwapAlias, CountReferences, RetirePrevious,
         LockCurrent, ReadTarget, MoveAlias, Abort, tables
    <2>4. CASE \E r \in Release : Builder(r)
      BY <2>1, <2>4, BuilderWrites DEF LockInv, OwedBuilt, Built
    <2> QED
      BY <2>1, <2>2, <2>3, <2>4, OthersStutter DEF Next
  <1> QED
    BY <1>1, <1>2, LockInvariant, PTL DEF Spec
-----------------------------------------------------------------------------
(* The shared profile row.  A promotion that holds it is alone between its  *)
(* lock and its commit, so what it has counted before it demotes its        *)
(* previous release is still so when it commits.                            *)

Shared == \A r, s \in Release : ProfileOf[r] = ProfileOf[s]
Holding == Promoting \ {"begin", "locking"}
OneHolder == \A q, o \in Request : pc[q] \in Holding /\ pc[o] \in Holding => q = o

NothingRolledBack == \A q \in Request : pc[q] = "done" => tx[q].job.op = "promote"

Serving == \A a \in Alias : alias[a] # NoRelease => state[alias[a]] # "retired"
Unreferenced(q) ==
    pc[q] = "retiring" \/ tx[q].retiring =>
        \A a \in Alias \ {Al(q)} : alias[a] # tx[q].prev

SharedInv ==
    Shared => /\ OneHolder
              /\ NothingRolledBack => Serving /\ \A q \in Request : Unreferenced(q)

LEMMA SharedInit == Init => SharedInv
  <1> SUFFICES ASSUME Init PROVE SharedInv
    OBVIOUS
  <1>1. OneHolder
    BY DEF Init, OneHolder, Holding, Promoting
  <1>2. Serving
    BY DEF Init, Serving
  <1>3. \A q \in Request : Unreferenced(q)
    BY DEF Init, Unreferenced, Fresh
  <1> QED
    BY <1>1, <1>2, <1>3 DEF SharedInv

(* The profile row is taken by the one statement that waits for it.         *)
LEMMA HolderStep ==
    ASSUME TypeOK, NEW q \in Request,
           Step(q) \/ Abort(q) \/ \E j \in Job : Arrive(q, j),
           pc'[q] \in Holding
    PROVE  \/ pc[q] \in Holding
           \/ \A o \in Request \ {q} : ~HoldsProfile(o, ProfileOf[Rel(q)])
  BY DEF TypeOK, Step, Arrive, LockRelease, LockProfile, LockAlias, CheckFailedGate,
         AssertPromotionGate, SwapAlias, CountReferences, RetirePrevious, CommitPromotion,
         LockCurrent, ReadTarget, MoveAlias, CommitRollback, Abort, Advance, Goto,
         Refuse, Answer, Holding, Promoting, ProfileFree

LEMMA HolderAlone ==
    ASSUME TypeOK, Shared, OneHolder, NEW q \in Request,
           Step(q) \/ Abort(q) \/ \E j \in Job : Arrive(q, j)
    PROVE  OneHolder'
  <1>1. \A o \in Request \ {q} : pc'[o] = pc[o] /\ tx'[o] = tx[o]
    BY OthersWait DEF TypeOK
  <1>2. ASSUME pc'[q] \in Holding, NEW o \in Request \ {q}, pc[o] \in Holding PROVE FALSE
    <2>1. pc[q] \notin Holding
      BY <1>2 DEF OneHolder
    <2>2. ~HoldsProfile(o, ProfileOf[Rel(q)])
      BY <1>2, <2>1, HolderStep
    <2>3. pc[q] \in Active
      BY <1>2, <2>1
      DEF TypeOK, Step, Arrive, LockRelease, LockProfile, LockAlias, CheckFailedGate,
          AssertPromotionGate, SwapAlias, CountReferences, RetirePrevious, CommitPromotion,
          LockCurrent, ReadTarget, MoveAlias, CommitRollback, Abort, Advance, Goto,
          Refuse, Answer, Holding, Active, Promoting, RollingBack
    <2>4. Rel(q) \in Release /\ Rel(o) \in Release
      BY <1>2, <2>3, JobType DEF Holding, Active
    <2> QED
      BY <1>2, <2>2, <2>4 DEF Shared, HoldsProfile, Holding
  <1> QED
    BY <1>1, <1>2 DEF OneHolder

(* An answered request stays answered, and no step reopens it.              *)
LEMMA DoneStays ==
    ASSUME TypeOK, [Next]_vars, NothingRolledBack'
    PROVE  NothingRolledBack
  <1> SUFFICES ASSUME NEW o \in Request, pc[o] = "done"
               PROVE  pc'[o] = "done" /\ tx'[o] = tx[o]
    BY DEF NothingRolledBack
  <1>1. ASSUME NEW q \in Request, Step(q) \/ Abort(q) \/ \E j \in Job : Arrive(q, j)
        PROVE  pc'[o] = "done" /\ tx'[o] = tx[o]
    <2>1. pc[q] \in Active \cup {"idle"}
      BY <1>1
      DEF Step, Arrive, LockRelease, LockProfile, LockAlias, CheckFailedGate,
          AssertPromotionGate, SwapAlias, CountReferences, RetirePrevious, CommitPromotion,
          LockCurrent, ReadTarget, MoveAlias, CommitRollback, Abort,
          Active, Promoting, RollingBack
    <2>2. o # q
      BY <2>1, Labels
    <2> QED
      BY <1>1, <2>2, OthersWait DEF TypeOK
  <1>2. ASSUME NEW r \in Release, Builder(r) PROVE pc'[o] = "done" /\ tx'[o] = tx[o]
    BY <1>2 DEF Builder, Compile, FinishSemanticBuild, FailRebuild, LeaveBuild
  <1> QED
    BY <1>1, <1>2, OthersStutter DEF Next

(* The commit of a promotion demotes nothing that another alias serves, and *)
(* no other promotion is about to.                                          *)
LEMMA ServingCommit ==
    ASSUME LockInv, OneHolder, Serving, \A x \in Request : Unreferenced(x),
           NEW q \in Request, CommitPromotion(q)
    PROVE  Serving' /\ \A x \in Request : Unreferenced(x)'
  <1>1. /\ Rel(q) \in Release /\ Al(q) \in Alias
        /\ pc[q] = "finishing" /\ pc[q] \in Holding
        /\ alias' = [alias EXCEPT ![Al(q)] = Rel(q)]
        /\ alias \in [Alias -> Release \cup {NoRelease}]
        /\ state' = [r \in Release |->
                         IF r = Rel(q) THEN "promoted"
                         ELSE IF tx[q].retiring /\ r = tx[q].prev THEN "retired"
                         ELSE state[r]]
    BY JobType DEF LockInv, TypeOK, CommitPromotion, Move, Active, Promoting, Holding
  <1>2. ASSUME NEW a \in Alias, alias'[a] # NoRelease PROVE state'[alias'[a]] # "retired"
    <2>1. CASE a = Al(q)
      BY <1>1, <2>1
    <2>2. CASE a # Al(q)
      <3>1. alias'[a] = alias[a] /\ alias[a] \in Release /\ state[alias[a]] # "retired"
        BY <1>1, <1>2, <2>2 DEF Serving
      <3>2. tx[q].retiring => alias[a] # tx[q].prev
        BY <2>2 DEF Unreferenced
      <3> QED
        BY <1>1, <3>1, <3>2
    <2> QED
      BY <2>1, <2>2
  <1>3. ASSUME NEW x \in Request PROVE Unreferenced(x)'
    <2>1. CASE x = q
      <3>1. pc'[q] = "done" /\ tx'[q].retiring = FALSE
        <4>1. Answer(q) /\ tx[q] \in Tx /\ pc \in [Request -> PC] /\ tx \in [Request -> Tx]
          BY DEF CommitPromotion, LockInv, TypeOK
        <4> QED
          BY <4>1 DEF Answer, Advance, Tx
      <3> QED
        BY <2>1, <3>1 DEF Unreferenced
    <2>2. CASE x # q
      <3>1. pc'[x] = pc[x] /\ tx'[x] = tx[x]
        BY <2>2, OthersWait DEF LockInv, TypeOK, Step
      <3>2. pc[x] \notin Holding
        BY <1>1, <2>2 DEF OneHolder
      <3>3. pc[x] # "retiring" /\ ~tx[x].retiring
        BY <3>2 DEF LockInv, LockOf, Holding, Promoting
      <3> QED
        BY <3>1, <3>3 DEF Unreferenced
    <2> QED
      BY <2>1, <2>2
  <1> QED
    BY <1>2, <1>3 DEF Serving

(* The statements before it count the references, or keep the count.        *)
LEMMA CountKept ==
    ASSUME LockInv, LockInv', NEW q \in Request, Unreferenced(q),
           \/ \E j \in Job : Arrive(q, j)
           \/ Step(q) /\ ~(CommitPromotion(q) \/ CommitRollback(q))
           \/ Abort(q)
    PROVE  Unreferenced(q)'
  <1>1. /\ LockOf(q) /\ LockOf(q)'
        /\ tx[q] \in Tx /\ pc \in [Request -> PC] /\ tx \in [Request -> Tx]
    BY DEF LockInv, TypeOK
  <1>2. UNCHANGED alias
    BY DEF Step, Arrive, LockRelease, LockProfile, LockAlias, CheckFailedGate,
           AssertPromotionGate, SwapAlias, CountReferences, RetirePrevious,
           LockCurrent, ReadTarget, MoveAlias, Abort, tables
  <1>3. SUFFICES ASSUME pc'[q] = "retiring" \/ tx'[q].retiring
                 PROVE  \A a \in Alias \ {Al(q)'} : alias[a] # tx'[q].prev
    BY <1>2 DEF Unreferenced
  <1>4. CASE CountReferences(q)
    <2>1. pc[q] = "swapped" /\ tx'[q] = tx[q] /\ ~tx[q].retiring
      BY <1>1, <1>4 DEF CountReferences, Goto, LockOf
    <2>2. ~StillReferenced(q)
      BY <1>1, <1>3, <1>4, <2>1 DEF CountReferences, Goto
    <2> QED
      BY <2>1, <2>2 DEF StillReferenced
  <1>5. CASE RetirePrevious(q)
    <2>1. pc[q] = "retiring" /\ tx'[q].prev = tx[q].prev /\ tx'[q].job = tx[q].job
      BY <1>1, <1>5 DEF RetirePrevious, Advance, Tx
    <2> QED
      BY <2>1 DEF Unreferenced
  <1>6. CASE ~(CountReferences(q) \/ RetirePrevious(q))
    (* No other statement leads to either label.                            *)
    <2>1. pc'[q] \notin {"retiring", "finishing"}
      BY <1>1, <1>6
      DEF Step, Arrive, LockRelease, LockProfile, LockAlias, CheckFailedGate,
          AssertPromotionGate, SwapAlias, LockCurrent, ReadTarget, MoveAlias, Abort,
          Advance, Goto, Refuse
    <2> QED
      BY <1>1, <1>3, <2>1 DEF LockOf
  <1> QED
    BY <1>4, <1>5, <1>6

LEMMA SharedStep ==
    ASSUME LockInv, LockInv', OwedBuilt, GateInv, SharedInv, [Next]_vars
    PROVE  SharedInv'
  <1> SUFFICES ASSUME Shared
               PROVE  /\ OneHolder'
                      /\ NothingRolledBack' => Serving' /\ \A x \in Request : Unreferenced(x)'
    BY DEF SharedInv, Shared
  <1>1. /\ TypeOK /\ OneHolder
        /\ NothingRolledBack' => /\ NothingRolledBack /\ Serving
                                 /\ \A x \in Request : Unreferenced(x)
    BY DoneStays DEF LockInv, SharedInv
  <1>2. CASE UNCHANGED <<alias, pc, tx>>
             /\ \A r \in Release : state'[r] = "retired" => state[r] = "retired"
    BY <1>1, <1>2 DEF OneHolder, Serving, Unreferenced, TypeOK
  <1>3. ASSUME NEW q \in Request, Step(q) \/ Abort(q) \/ \E j \in Job : Arrive(q, j)
        PROVE  /\ OneHolder'
               /\ NothingRolledBack' => Serving' /\ \A x \in Request : Unreferenced(x)'
    <2>1. OneHolder'
      BY <1>1, <1>3, HolderAlone
    <2>2. CASE CommitPromotion(q)
      BY <1>1, <2>1, <2>2, ServingCommit
    <2>3. CASE CommitRollback(q)
      <3>1. /\ pc[q] = "moved" /\ tx[q] \in Tx /\ GateOf(q) /\ Answer(q)
            /\ pc \in [Request -> PC] /\ tx \in [Request -> Tx]
        BY <2>3 DEF CommitRollback, GateInv, TypeOK
      <3>2. pc'[q] = "done" /\ tx'[q].job = tx[q].job
        BY <3>1 DEF Answer, Advance, Tx
      <3>3. tx[q].job.op = "rollback"
        BY <3>1 DEF GateOf, RollingBack
      <3>4. ~NothingRolledBack'
        BY <3>2, <3>3 DEF NothingRolledBack
      <3> QED
        BY <2>1, <3>4
    <2>4. CASE ~(CommitPromotion(q) \/ CommitRollback(q))
      <3>1. UNCHANGED <<alias, state>>
        BY <1>3, <2>4 DEF Step, Arrive, LockRelease, LockProfile, LockAlias, CheckFailedGate,
           AssertPromotionGate, SwapAlias, CountReferences, RetirePrevious,
           LockCurrent, ReadTarget, MoveAlias, Abort, tables
      <3>2. \A o \in Request \ {q} : pc'[o] = pc[o] /\ tx'[o] = tx[o]
        BY <1>1, <1>3, OthersWait DEF TypeOK
      <3>3. ASSUME NEW x \in Request, Unreferenced(x) PROVE Unreferenced(x)'
        BY <1>3, <2>4, <3>1, <3>2, <3>3, CountKept DEF Unreferenced
      <3> QED
        BY <1>1, <2>1, <3>1, <3>3 DEF Serving
    <2> QED
      BY <2>2, <2>3, <2>4
  <1>4. ASSUME NEW r \in Release, NEW s \in ReleaseState, Built(r, s)
        PROVE  UNCHANGED <<alias, pc, tx>>
               /\ \A x \in Release : state'[x] = "retired" => state[x] = "retired"
    BY <1>1, <1>4 DEF Built, TypeOK
  <1>5. CASE \E r \in Release : Builder(r)
    BY <1>1, <1>2, <1>4, <1>5, BuilderWrites DEF OwedBuilt
  <1> QED
    BY <1>2, <1>3, <1>5, OthersStutter DEF Next

(* Where all releases share the profile row and nothing is rolled back, no  *)
(* promotion retires a release that the other alias still serves: the lock  *)
(* of `for update` without `of` keeps promotions apart.                     *)
THEOREM ProfileLockSerializes == Spec => []SharedProfileSerializes
  <1>1. SharedInv => SharedProfileSerializes
    BY DEF SharedInv, SharedProfileSerializes, Shared, NothingRolledBack, Serving
  <1> QED
    BY <1>1, SharedInit, SharedStep, LockInvariant, GateInvariant, PTL DEF Spec
=============================================================================
