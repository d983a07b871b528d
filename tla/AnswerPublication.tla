-------------------------- MODULE AnswerPublication --------------------------
(***************************************************************************)
(* The way of an answer to publication: validators record issues, the       *)
(* orchestrator validates, repairs once and abstains                        *)
(* (apps/api/src/validation), a reviewer publishes                          *)
(* (apps/api/src/answers/answerTraceService.ts), and two triggers           *)
(* (db/migrations/0024_race_hardening.sql) stand between them.              *)
(*                                                                         *)
(* Status updates commit on their own and wait for the share locks of the   *)
(* issue writers; a round of issues is one transaction, private until it    *)
(* commits.  No code marks an issue resolved.                               *)
(***************************************************************************)
CONSTANTS
    Answer,
    Worker      \* reviewers' requests, validators and orchestrators

VARIABLES
    status,     \* answers.status
    pinned,     \* trace, plan, manifest and citations are all there
    validated,  \* a completed validation run is recorded
    critical,   \* an unresolved critical issue is recorded
    abandoned,  \* history: the orchestrator has abstained
    pc, tx      \* the workers: progress and local variables

answers == <<status, pinned, validated, critical, abandoned>>
vars == <<answers, pc, tx>>

Status == {"draft", "validated", "published", "abstained", "failed"}
Severity == {"none", "minor", "critical"}   \* the worst issue of a round
Tx == [kind : {"publish", "store", "orchestrate"}, answer : Answer,
       round : {1, 2}, worst : Severity]

TypeOK ==
    /\ status \in [Answer -> Status]
    /\ pinned \in [Answer -> BOOLEAN]
    /\ validated \in [Answer -> BOOLEAN]
    /\ critical \in [Answer -> BOOLEAN]
    /\ abandoned \in [Answer -> BOOLEAN]
    /\ pc \in [Worker -> {"idle", "checked", "validated", "inserting",
                          "flagged", "repairing", "abstaining"}]
    /\ \A w \in Worker : pc[w] # "idle" => tx[w] \in Tx

(* Answers as a chat turn leaves them.  One that abstained or failed has no *)
(* citations and so lacks a pin.                                            *)
Init ==
    /\ status \in [Answer -> {"draft", "abstained", "failed"}]
    /\ pinned \in [Answer -> BOOLEAN]
    /\ \A a \in Answer : pinned[a] => status[a] = "draft"
    /\ validated = [a \in Answer |-> FALSE]
    /\ critical = [a \in Answer |-> FALSE]
    /\ abandoned = [a \in Answer |-> FALSE]
    /\ pc = [w \in Worker |-> "idle"]
    /\ tx = [w \in Worker |-> <<>>]

Goto(w, label, locals) ==
    /\ pc' = [pc EXCEPT ![w] = label]
    /\ tx' = [tx EXCEPT ![w] = locals]

Finish(w) == Goto(w, "idle", <<>>)

(* Mutant: the trigger reads the status without `for share`.                *)
SharesNothing(w, a) == FALSE

(* FOR SHARE of the issue trigger, held until the round commits.            *)
HoldsShare(w, a) == pc[w] = "flagged" /\ tx[w].answer = a

Unshared(a) == \A w \in Worker : ~HoldsShare(w, a)

-----------------------------------------------------------------------------
(* publishAnswerWithPins: three statements, each of its own.                *)

BeginPublication(w, a) ==
    /\ pc[w] = "idle"
    /\ pinned[a]
    /\ Goto(w, "checked", [kind |-> "publish", answer |-> a,
                           round |-> 1, worst |-> "none"])
    /\ UNCHANGED answers

MarkValidated(w) ==
    LET a == tx[w].answer IN
    /\ pc[w] = "checked"
    /\ Unshared(a)
    /\ status' = [status EXCEPT ![a] = "validated"]
    /\ Goto(w, "validated", tx[w])
    /\ UNCHANGED <<pinned, validated, critical, abandoned>>

(* guard_answer_publish: its checks run once the row is locked, and see     *)
(* what is committed by then.                                               *)
MayPublish(a) == status[a] = "validated" /\ validated[a] /\ ~critical[a]

Publish(w) ==
    LET a == tx[w].answer IN
    /\ pc[w] = "validated"
    /\ Unshared(a)
    /\ status' = IF MayPublish(a) THEN [status EXCEPT ![a] = "published"] ELSE status
    /\ Finish(w)
    /\ UNCHANGED <<pinned, validated, critical, abandoned>>

-----------------------------------------------------------------------------
(* A validator that stores its run, with or without issues, and the         *)
(* orchestrator's first round, which is stored only if it has issues.       *)

StoreRun(w, a, worst) ==
    /\ pc[w] = "idle"
    /\ Goto(w, "inserting", [kind |-> "store", answer |-> a,
                             round |-> 1, worst |-> worst])
    /\ UNCHANGED answers

(* Mutant: the first round is kept in memory for the repair.                *)
OrchestrateUnrecorded(w, a, worst) ==
    /\ pc[w] = "idle"
    /\ worst # "none"
    /\ Goto(w, IF worst = "critical" THEN "repairing" ELSE "inserting",
            [kind |-> "orchestrate", answer |-> a, round |-> 1, worst |-> worst])
    /\ UNCHANGED answers

Orchestrate(w, a, worst) ==
    /\ pc[w] = "idle"
    /\ worst # "none"
    /\ Goto(w, "inserting", [kind |-> "orchestrate", answer |-> a,
                             round |-> 1, worst |-> worst])
    /\ UNCHANGED answers

(* guard_validation_issue_insert: an issue of a published answer raises,    *)
(* and the transaction and the caller end with it.                          *)
InsertIssues(w) ==
    /\ pc[w] = "inserting" /\ tx[w].worst # "none"
    /\ IF status[tx[w].answer] = "published"
       THEN Finish(w) ELSE Goto(w, "flagged", tx[w])
    /\ UNCHANGED answers

CommitCleanRun(w) ==
    /\ pc[w] = "inserting" /\ tx[w].worst = "none"
    /\ validated' = [validated EXCEPT ![tx[w].answer] = TRUE]
    /\ Finish(w)
    /\ UNCHANGED <<status, pinned, critical, abandoned>>

(* Only the orchestrator goes on, and only from a critical issue: to the    *)
(* one repair, or from the round after it to the abstention.                *)
CommitRound(w) ==
    LET a == tx[w].answer
        goesOn == tx[w].kind = "orchestrate" /\ tx[w].worst = "critical"
    IN
    /\ pc[w] = "flagged"
    /\ validated' = [validated EXCEPT ![a] = TRUE]
    /\ critical' = [critical EXCEPT ![a] = @ \/ tx[w].worst = "critical"]
    /\ IF goesOn
       THEN Goto(w, IF tx[w].round = 1 THEN "repairing" ELSE "abstaining", tx[w])
       ELSE Finish(w)
    /\ UNCHANGED <<status, pinned, abandoned>>

(* The model's repair, reconciled and validated again, or a failed call.    *)
Repair(w, worst) ==
    /\ pc[w] = "repairing"
    /\ IF worst = "none"
       THEN Finish(w)
       ELSE Goto(w, "inserting", [tx[w] EXCEPT !.round = 2, !.worst = worst])
    /\ UNCHANGED answers

FailRepair(w) ==
    /\ pc[w] = "repairing"
    /\ Goto(w, "abstaining", tx[w])
    /\ UNCHANGED answers

(* Mutant: the decision's name in place of the status.                      *)
AbstainAsDecided(w) ==
    LET a == tx[w].answer IN
    /\ pc[w] = "abstaining"
    /\ Unshared(a)
    /\ status' = [status EXCEPT ![a] = "abstain"]
    /\ abandoned' = [abandoned EXCEPT ![a] = TRUE]
    /\ Finish(w)
    /\ UNCHANGED <<pinned, validated, critical>>

(* The decision stored on the trace afterwards is not modelled.             *)
Abstain(w) ==
    LET a == tx[w].answer IN
    /\ pc[w] = "abstaining"
    /\ Unshared(a)
    /\ status' = [status EXCEPT ![a] = "abstained"]
    /\ abandoned' = [abandoned EXCEPT ![a] = TRUE]
    /\ Finish(w)
    /\ UNCHANGED <<pinned, validated, critical>>

(* The process or the connection is lost between two statements.            *)
Crash(w) ==
    /\ pc[w] # "idle"
    /\ Finish(w)
    /\ UNCHANGED answers

-----------------------------------------------------------------------------
Next ==
    \E w \in Worker :
        \/ \E a \in Answer :
               \/ BeginPublication(w, a)
               \/ \E worst \in Severity : StoreRun(w, a, worst)
                                          \/ Orchestrate(w, a, worst)
        \/ MarkValidated(w) \/ Publish(w)
        \/ InsertIssues(w) \/ CommitCleanRun(w) \/ CommitRound(w)
        \/ \E worst \in Severity : Repair(w, worst)
        \/ FailRepair(w) \/ Abstain(w) \/ Crash(w)

Spec == Init /\ [][Next]_vars

-----------------------------------------------------------------------------
(* Properties.                                                              *)

(* "Writers that bypass this ... can commit critical issues into published  *)
(* answers", db/migrations/0026_lock_protocol_docs.sql:23; with the lock    *)
(* protocol a published answer has a completed run and no critical issue,   *)
(* the ones in flight when it was published included.                       *)
PublishedWithoutCriticals ==
    \A a \in Answer : status[a] = "published" => validated[a] /\ ~critical[a]

(* "'abstained' can never satisfy the draft -> validated -> published       *)
(* gate", validationOrchestrator.ts:341-342: an answer the orchestrator has *)
(* given up is not published before, meanwhile or later, whether its repair *)
(* failed or its second round did.  The recorded first round sees to it.    *)
AbandonedNeverPublished ==
    \A a \in Answer : abandoned[a] => status[a] # "published"
=============================================================================
