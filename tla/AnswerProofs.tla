----------------------------- MODULE AnswerProofs -----------------------------
(***************************************************************************)
(* Proofs about AnswerPublication, for any answers and any workers.         *)
(*                                                                         *)
(* Neither safety property is inductive.  An answer stays publishable only  *)
(* as long as no round with a critical issue is on its way to be committed, *)
(* and that the share lock of the issue trigger rules out: a round past the *)
(* trigger keeps the answer's status away from `published`.  An abandoned   *)
(* answer can never be published because its first round was committed      *)
(* before the repair began, and no code takes a critical issue back.        *)
(***************************************************************************)
EXTENDS AnswerPublication, TLAPS

(* Where a worker stands in its work.                                       *)
Label == {"checked", "validated", "inserting", "flagged", "repairing", "abstaining"}

(* The locals of the workers are a function, whatever they are doing.       *)
Typed ==
    /\ TypeOK
    /\ tx \in [Worker -> Tx \cup {<<>>}]

(* A round past the trigger, and one that the orchestrator went on from.    *)
SharesUnpublished ==
    \A w \in Worker : pc[w] = "flagged" => status[tx[w].answer] # "published"

GoesOnFromCritical ==
    \A w \in Worker :
        pc[w] \in {"repairing", "abstaining"} => critical[tx[w].answer]

AbandonedCritical == \A a \in Answer : abandoned[a] => critical[a]

Inv ==
    /\ Typed
    /\ SharesUnpublished
    /\ GoesOnFromCritical
    /\ AbandonedCritical
    /\ PublishedWithoutCriticals

-----------------------------------------------------------------------------
(* A worker that goes on, or ends, keeps every worker's locals typed.       *)
LEMMA GotoTyped ==
    ASSUME Typed, NEW w \in Worker, NEW locals \in Tx,
           NEW label \in Label,
           Goto(w, label, locals)
    PROVE  /\ pc' \in [Worker -> {"idle"} \cup Label]
           /\ tx' \in [Worker -> Tx \cup {<<>>}]
           /\ \A v \in Worker : pc'[v] # "idle" => tx'[v] \in Tx
           /\ pc'[w] = label /\ tx'[w] = locals
           /\ \A v \in Worker \ {w} : pc'[v] = pc[v] /\ tx'[v] = tx[v]
BY DEF Typed, TypeOK, Goto, Label

LEMMA FinishTyped ==
    ASSUME Typed, NEW w \in Worker, Finish(w)
    PROVE  /\ pc' \in [Worker -> {"idle"} \cup Label]
           /\ tx' \in [Worker -> Tx \cup {<<>>}]
           /\ \A v \in Worker : pc'[v] # "idle" => tx'[v] \in Tx
           /\ pc'[w] = "idle"
           /\ \A v \in Worker \ {w} : pc'[v] = pc[v] /\ tx'[v] = tx[v]
BY DEF Typed, TypeOK, Goto, Finish, Label

(* A step that leaves the answers alone keeps Inv if the worker that makes  *)
(* it has good reason to be where it goes.                                  *)
LEMMA OnlyAWorkerMoves ==
    ASSUME Inv, UNCHANGED answers,
           NEW w \in Worker, NEW locals \in Tx,
           NEW label \in Label,
           Goto(w, label, locals),
           label = "flagged" => status[locals.answer] # "published",
           label \in {"repairing", "abstaining"} => critical[locals.answer]
    PROVE  Inv'
<1>1. Typed'
  BY GotoTyped DEF Inv, Typed, TypeOK, Label, answers
<1>2. /\ pc'[w] = label /\ tx'[w] = locals
      /\ \A v \in Worker \ {w} : pc'[v] = pc[v] /\ tx'[v] = tx[v]
  BY GotoTyped DEF Inv
<1>3. SharesUnpublished' /\ GoesOnFromCritical'
  BY <1>2 DEF Inv, SharesUnpublished, GoesOnFromCritical, answers
<1>4. AbandonedCritical' /\ PublishedWithoutCriticals'
  BY DEF Inv, AbandonedCritical, PublishedWithoutCriticals, answers
<1> QED BY <1>1, <1>3, <1>4 DEF Inv

LEMMA OnlyAWorkerEnds ==
    ASSUME Inv, UNCHANGED answers, NEW w \in Worker, Finish(w)
    PROVE  Inv'
<1>1. Typed'
  BY FinishTyped DEF Inv, Typed, TypeOK, Label, answers
<1>2. /\ pc'[w] = "idle"
      /\ \A v \in Worker \ {w} : pc'[v] = pc[v] /\ tx'[v] = tx[v]
  BY FinishTyped DEF Inv
<1>3. SharesUnpublished' /\ GoesOnFromCritical'
  BY <1>2 DEF Inv, SharesUnpublished, GoesOnFromCritical, answers
<1>4. AbandonedCritical' /\ PublishedWithoutCriticals'
  BY DEF Inv, AbandonedCritical, PublishedWithoutCriticals, answers
<1> QED BY <1>1, <1>3, <1>4 DEF Inv

-----------------------------------------------------------------------------
LEMMA InitInv == Init => Inv
BY DEF Init, Inv, Typed, TypeOK, Status, SharesUnpublished, GoesOnFromCritical,
       AbandonedCritical, PublishedWithoutCriticals

(* Every step keeps Inv.                                                    *)
LEMMA StepKeepsInv == Inv /\ [Next]_vars => Inv'
<1> SUFFICES ASSUME Inv, [Next]_vars PROVE Inv'
  OBVIOUS
<1>0. \A w \in Worker : pc[w] # "idle" => tx[w] \in Tx
  BY DEF Inv, Typed, TypeOK
<1>1. CASE UNCHANGED vars
  BY <1>1 DEF vars, answers, Inv, Typed, TypeOK, SharesUnpublished,
              GoesOnFromCritical, AbandonedCritical, PublishedWithoutCriticals
<1>2. ASSUME NEW w \in Worker, NEW a \in Answer, BeginPublication(w, a)
      PROVE  Inv'
  <2>1. [kind |-> "publish", answer |-> a, round |-> 1, worst |-> "none"] \in Tx
    BY DEF Tx, Severity
  <2> QED BY <1>2, <2>1, OnlyAWorkerMoves DEF BeginPublication, Label
<1>3. ASSUME NEW w \in Worker, NEW a \in Answer, NEW worst \in Severity,
             StoreRun(w, a, worst) \/ Orchestrate(w, a, worst)
      PROVE  Inv'
  <2>1. PICK kind \in {"store", "orchestrate"} :
            /\ UNCHANGED answers
            /\ Goto(w, "inserting", [kind |-> kind, answer |-> a,
                                     round |-> 1, worst |-> worst])
    BY <1>3 DEF StoreRun, Orchestrate
  <2>2. [kind |-> kind, answer |-> a, round |-> 1, worst |-> worst] \in Tx
    BY DEF Tx
  <2> QED BY <2>1, <2>2, OnlyAWorkerMoves DEF Label
<1>4. ASSUME NEW w \in Worker, MarkValidated(w) PROVE Inv'
  <2> DEFINE a == tx[w].answer
  <2>1. tx[w] \in Tx /\ a \in Answer
    BY <1>0, <1>4 DEF MarkValidated, Tx
  <2>2. status' = [status EXCEPT ![a] = "validated"]
    BY <1>4 DEF MarkValidated
  <2>3. UNCHANGED <<pinned, validated, critical, abandoned>>
    BY <1>4 DEF MarkValidated
  <2>4. Goto(w, "validated", tx[w])
    BY <1>4 DEF MarkValidated
  <2>5. Typed'
    BY <2>1, <2>2, <2>3, <2>4, GotoTyped DEF Inv, Typed, TypeOK, Status, Label
  <2>6. /\ pc'[w] = "validated"
        /\ \A v \in Worker \ {w} : pc'[v] = pc[v] /\ tx'[v] = tx[v]
    BY <2>1, <2>4, GotoTyped DEF Inv, Label
  <2>7. \A b \in Answer : status'[b] = status[b] \/ status'[b] = "validated"
    BY <2>1, <2>2 DEF Inv, Typed, TypeOK
  <2>8. SharesUnpublished'
    BY <2>6, <2>7, <1>0 DEF Inv, SharesUnpublished, Tx
  <2>9. GoesOnFromCritical' /\ AbandonedCritical' /\ PublishedWithoutCriticals'
    BY <2>3, <2>6, <2>7
    DEF Inv, GoesOnFromCritical, AbandonedCritical, PublishedWithoutCriticals
  <2> QED BY <2>5, <2>8, <2>9 DEF Inv
<1>5. ASSUME NEW w \in Worker, Publish(w) PROVE Inv'
  <2> DEFINE a == tx[w].answer
  <2>1. tx[w] \in Tx /\ a \in Answer
    BY <1>0, <1>5 DEF Publish, Tx
  <2>2. /\ Finish(w) /\ Unshared(a)
        /\ UNCHANGED <<pinned, validated, critical, abandoned>>
    BY <1>5 DEF Publish
  <2>3. /\ status' \in [Answer -> Status]
        /\ \A b \in Answer : status'[b] = status[b] \/ (b = a /\ MayPublish(a))
    BY <1>5, <2>1 DEF Publish, Inv, Typed, TypeOK, Status
  <2>4. Typed'
    BY <2>2, <2>3, FinishTyped DEF Inv, Typed, TypeOK, Label
  <2>5. /\ pc'[w] = "idle"
        /\ \A v \in Worker \ {w} : pc'[v] = pc[v] /\ tx'[v] = tx[v]
    BY <2>2, FinishTyped DEF Inv
  <2>6. SharesUnpublished'
    <3> SUFFICES ASSUME NEW v \in Worker, pc'[v] = "flagged"
                 PROVE  status'[tx'[v].answer] # "published"
      BY DEF SharesUnpublished
    <3>1. v # w /\ pc[v] = "flagged" /\ tx'[v] = tx[v] /\ tx[v].answer \in Answer
      BY <1>0, <2>5 DEF Tx
    <3>2. tx[v].answer # a
      BY <2>2, <3>1 DEF Unshared, HoldsShare
    <3> QED BY <2>3, <3>1, <3>2 DEF Inv, SharesUnpublished
  <2>7. GoesOnFromCritical' /\ AbandonedCritical'
    BY <2>2, <2>5 DEF Inv, GoesOnFromCritical, AbandonedCritical
  <2>8. PublishedWithoutCriticals'
    BY <2>2, <2>3 DEF Inv, PublishedWithoutCriticals, MayPublish
  <2> QED BY <2>4, <2>6, <2>7, <2>8 DEF Inv
<1>6. ASSUME NEW w \in Worker, InsertIssues(w) PROVE Inv'
  <2>1. tx[w] \in Tx /\ UNCHANGED answers
    BY <1>0, <1>6 DEF InsertIssues
  <2>2. CASE status[tx[w].answer] = "published"
    BY <1>6, <2>1, <2>2, OnlyAWorkerEnds DEF InsertIssues
  <2>3. CASE status[tx[w].answer] # "published"
    <3>1. Goto(w, "flagged", tx[w])
      BY <1>6, <2>3 DEF InsertIssues
    <3> QED BY <2>1, <2>3, <3>1, OnlyAWorkerMoves DEF Label
  <2> QED BY <2>2, <2>3
<1>7. ASSUME NEW w \in Worker, CommitCleanRun(w) PROVE Inv'
  <2>1. tx[w] \in Tx /\ tx[w].answer \in Answer
    BY <1>0, <1>7 DEF CommitCleanRun, Tx
  <2>2. /\ Finish(w) /\ UNCHANGED <<status, pinned, critical, abandoned>>
        /\ validated' = [validated EXCEPT ![tx[w].answer] = TRUE]
    BY <1>7 DEF CommitCleanRun
  <2>3. /\ validated' \in [Answer -> BOOLEAN]
        /\ \A b \in Answer : validated[b] => validated'[b]
    BY <2>1, <2>2 DEF Inv, Typed, TypeOK
  <2>4. Typed'
    BY <2>2, <2>3, FinishTyped DEF Inv, Typed, TypeOK, Label
  <2>5. /\ pc'[w] = "idle"
        /\ \A v \in Worker \ {w} : pc'[v] = pc[v] /\ tx'[v] = tx[v]
    BY <2>2, FinishTyped DEF Inv
  <2>6. SharesUnpublished' /\ GoesOnFromCritical' /\ AbandonedCritical'
    BY <2>2, <2>5 DEF Inv, SharesUnpublished, GoesOnFromCritical, AbandonedCritical
  <2>7. PublishedWithoutCriticals'
    BY <2>2, <2>3 DEF Inv, PublishedWithoutCriticals
  <2> QED BY <2>4, <2>6, <2>7 DEF Inv
<1>8. ASSUME NEW w \in Worker, CommitRound(w) PROVE Inv'
  <2> DEFINE a == tx[w].answer
             goesOn == tx[w].kind = "orchestrate" /\ tx[w].worst = "critical"
             label == IF tx[w].round = 1 THEN "repairing" ELSE "abstaining"
  <2>1. pc[w] = "flagged" /\ tx[w] \in Tx /\ a \in Answer
    BY <1>0, <1>8 DEF CommitRound, Tx
  <2>2. /\ UNCHANGED <<status, pinned, abandoned>>
        /\ validated' = [validated EXCEPT ![a] = TRUE]
        /\ critical' = [critical EXCEPT ![a] = @ \/ tx[w].worst = "critical"]
    BY <1>8 DEF CommitRound
  <2>3. /\ validated' \in [Answer -> BOOLEAN]
        /\ critical' \in [Answer -> BOOLEAN]
        /\ \A b \in Answer : /\ critical[b] => critical'[b]
                             /\ b # a => validated'[b] = validated[b]
                                         /\ critical'[b] = critical[b]
        /\ tx[w].worst = "critical" => critical'[a]
    BY <2>1, <2>2 DEF Inv, Typed, TypeOK
  <2>4. /\ goesOn => Goto(w, label, tx[w])
        /\ ~goesOn => Finish(w)
    BY <1>8 DEF CommitRound
  <2>5. /\ Typed'
        /\ pc'[w] # "flagged"
        /\ pc'[w] \in {"repairing", "abstaining"} => goesOn /\ tx'[w] = tx[w]
        /\ \A v \in Worker \ {w} : pc'[v] = pc[v] /\ tx'[v] = tx[v]
    <3>1. CASE goesOn
      <4>1. label \in {"repairing", "abstaining"}
        OBVIOUS
      <4> HIDE DEF label, goesOn
      <4> QED BY <2>1, <2>2, <2>3, <2>4, <3>1, <4>1, GotoTyped
              DEF Inv, Typed, TypeOK, Label
    <3>2. CASE ~goesOn
      <4> HIDE DEF goesOn
      <4> QED BY <2>2, <2>3, <2>4, <3>2, FinishTyped DEF Inv, Typed, TypeOK, Label
    <3> QED BY <3>1, <3>2
  <2>6. SharesUnpublished'
    BY <2>2, <2>5 DEF Inv, SharesUnpublished
  <2>7. GoesOnFromCritical'
    <3> SUFFICES ASSUME NEW v \in Worker, pc'[v] \in {"repairing", "abstaining"}
                 PROVE  critical'[tx'[v].answer]
      BY DEF GoesOnFromCritical
    <3>1. CASE v = w
      BY <2>3, <2>5, <3>1
    <3>2. CASE v # w
      BY <1>0, <2>3, <2>5, <3>2 DEF Inv, GoesOnFromCritical, Tx
    <3> QED BY <3>1, <3>2
  <2>8. AbandonedCritical'
    BY <2>2, <2>3 DEF Inv, AbandonedCritical
  <2>9. PublishedWithoutCriticals'
    <3>1. status[a] # "published"
      BY <2>1 DEF Inv, SharesUnpublished
    <3> QED BY <2>2, <2>3, <3>1 DEF Inv, PublishedWithoutCriticals
  <2> QED BY <2>5, <2>6, <2>7, <2>8, <2>9 DEF Inv
<1>9. ASSUME NEW w \in Worker, NEW worst \in Severity, Repair(w, worst)
      PROVE  Inv'
  <2>1. tx[w] \in Tx /\ UNCHANGED answers
    BY <1>0, <1>9 DEF Repair
  <2>2. [tx[w] EXCEPT !.round = 2, !.worst = worst] \in Tx
    BY <2>1 DEF Tx
  <2>3. CASE worst = "none"
    BY <1>9, <2>1, <2>3, OnlyAWorkerEnds DEF Repair
  <2>4. CASE worst # "none"
    <3>1. Goto(w, "inserting", [tx[w] EXCEPT !.round = 2, !.worst = worst])
      BY <1>9, <2>4 DEF Repair
    <3> QED BY <2>1, <2>2, <3>1, OnlyAWorkerMoves DEF Label
  <2> QED BY <2>3, <2>4
<1>10. ASSUME NEW w \in Worker, FailRepair(w) PROVE Inv'
  <2>1. tx[w] \in Tx /\ UNCHANGED answers /\ Goto(w, "abstaining", tx[w])
    BY <1>0, <1>10 DEF FailRepair
  <2>2. critical[tx[w].answer]
    BY <1>10 DEF FailRepair, Inv, GoesOnFromCritical
  <2> QED BY <2>1, <2>2, OnlyAWorkerMoves DEF Label
<1>11. ASSUME NEW w \in Worker, Abstain(w) PROVE Inv'
  <2> DEFINE a == tx[w].answer
  <2>1. pc[w] = "abstaining" /\ tx[w] \in Tx /\ a \in Answer
    BY <1>0, <1>11 DEF Abstain, Tx
  <2>2. critical[a]
    BY <2>1 DEF Inv, GoesOnFromCritical
  <2>3. /\ Finish(w) /\ UNCHANGED <<pinned, validated, critical>>
        /\ status' = [status EXCEPT ![a] = "abstained"]
        /\ abandoned' = [abandoned EXCEPT ![a] = TRUE]
    BY <1>11 DEF Abstain
  <2>4. /\ status' \in [Answer -> Status]
        /\ abandoned' \in [Answer -> BOOLEAN]
        /\ \A b \in Answer : /\ status'[b] = status[b] \/ status'[b] = "abstained"
                             /\ abandoned'[b] => abandoned[b] \/ b = a
    BY <2>1, <2>3 DEF Inv, Typed, TypeOK, Status
  <2>5. Typed'
    BY <2>3, <2>4, FinishTyped DEF Inv, Typed, TypeOK, Label
  <2>6. /\ pc'[w] = "idle"
        /\ \A v \in Worker \ {w} : pc'[v] = pc[v] /\ tx'[v] = tx[v]
    BY <2>3, FinishTyped DEF Inv
  <2>7. SharesUnpublished'
    BY <1>0, <2>4, <2>6 DEF Inv, SharesUnpublished, Tx
  <2>8. GoesOnFromCritical' /\ PublishedWithoutCriticals'
    BY <2>3, <2>4, <2>6 DEF Inv, GoesOnFromCritical, PublishedWithoutCriticals
  <2>9. AbandonedCritical'
    BY <2>2, <2>3, <2>4 DEF Inv, AbandonedCritical
  <2> QED BY <2>5, <2>7, <2>8, <2>9 DEF Inv
<1>12. ASSUME NEW w \in Worker, Crash(w) PROVE Inv'
  BY <1>12, OnlyAWorkerEnds DEF Crash
<1> QED BY <1>1, <1>2, <1>3, <1>4, <1>5, <1>6, <1>7, <1>8, <1>9, <1>10,
           <1>11, <1>12 DEF Next

LEMMA Invariant == Spec => []Inv
BY InitInv, StepKeepsInv, PTL DEF Spec

-----------------------------------------------------------------------------
(* The statuses, the recorded runs and issues, and the locals of every      *)
(* worker are of their types.                                               *)
THEOREM TypeCorrect == Spec => []TypeOK
<1>1. Inv => TypeOK
  BY DEF Inv, Typed
<1> QED BY <1>1, Invariant, PTL

(* guard_answer_publish and guard_validation_issue_insert together: however *)
(* publications, validators and orchestrators interleave or crash, a        *)
(* published answer has a completed run and no recorded critical issue.     *)
THEOREM PublicationIsSafe == Spec => []PublishedWithoutCriticals
<1>1. Inv => PublishedWithoutCriticals
  BY DEF Inv
<1> QED BY <1>1, Invariant, PTL

(* An answer the orchestrator abstained from is not published, and will not *)
(* be: its first round is recorded before the repair begins.                *)
THEOREM AbstentionIsFinal == Spec => []AbandonedNeverPublished
<1>1. Inv => AbandonedNeverPublished
  BY DEF Inv, AbandonedCritical, PublishedWithoutCriticals, AbandonedNeverPublished
<1> QED BY <1>1, Invariant, PTL
=============================================================================
