------------------------------ MODULE ChatTurn ------------------------------
(***************************************************************************)
(* The turns of one conversation (apps/api/src/answers/chatService.ts), the *)
(* chain of models a turn tries (apps/api/src/llm/modelRouter.ts) and the   *)
(* quota breaker it shares with the others (apps/api/src/llm/               *)
(* quotaBreaker.ts).                                                        *)
(*                                                                         *)
(* A turn runs in one READ COMMITTED transaction from its question to its   *)
(* answer.  It sees what is committed and what it has written itself; an    *)
(* insert of a number another turn holds, or a write of a breaker row       *)
(* another turn has written, waits for that turn to end.  A statement that  *)
(* fails loses the whole turn, also where the code catches the error: the   *)
(* transaction is aborted in the database.                                  *)
(***************************************************************************)
EXTENDS Naturals, FiniteSetsExt, SequencesExt

CONSTANTS
    Request,       \* requests to post a question or to retry the last one
    Domain,        \* failure domains: the quota pools behind the models
    Configured,    \* the alias and its fallbacks in order, see Entry
    MaxAttempts    \* AIFIQH_CHAT_FALLBACK_MAX_ATTEMPTS

(* A configured model; usable: its provider is enabled, its secret there.   *)
Entry == [model : STRING, domain : Domain, usable : BOOLEAN]

ASSUME ChatAssumption ==
    /\ \A i \in 1..Len(Configured) : Configured[i] \in Entry
    /\ MaxAttempts \in Nat \ {0}

Position == 1..Len(Configured)

VARIABLES
    messages,        \* committed rows of messages
    breaker,         \* committed rows of generation_quota_domains, by key
    pc, question,    \* per turn: where it is, the number of its question
    number, own,     \* the number it has read, the rows it has inserted
    wrote,           \* its uncommitted breaker rows, which it has locked
    chain,           \* candidates it has still to look at, by position
    modelAttempts,   \* the calls it has made for an answer
    asides,          \* the calls it has made beside them, until they are used
    status           \* the status its answer will have

database == <<messages, breaker>>
turn == <<pc, question, number, own, wrote, chain, modelAttempts, asides, status>>
vars == <<database, turn>>

Row == [ordinal : Nat \ {0}, role : {"user", "assistant"}, answers : Nat]
Limit == {"quota", "throttle"}
(* "expired" is a row whose state is 'open' and whose reset time is past.   *)
BreakerState == {"none", "closed", "expired"} \cup Limit
Open == Limit \cup {"expired"}
Ended == {"committed", "refused", "lost", "victim"}
Outcome == {"success", "other"} \cup Limit
(* The rewriter's, the planner's and the topical assessor's calls.          *)
Aside == [stage : {"rewriting", "planning", "assessing"}, domain : Domain]

TypeOK ==
    /\ messages \subseteq Row
    /\ breaker \in [Domain -> BreakerState]
    /\ pc \in [Request -> Ended \cup {"idle", "linking", "numbering", "inserting",
                                      "planning", "calling", "tripping", "closing", "committing"}]
    /\ question \in [Request -> Nat] /\ number \in [Request -> Nat]
    /\ own \in [Request -> SUBSET Row]
    /\ wrote \in [Request -> [Domain -> BreakerState]]
    /\ chain \in [Request -> SUBSET Position]
    /\ modelAttempts \in [Request -> Seq([entry : Entry, outcome : Outcome])]
    /\ \A r \in Request : Len(modelAttempts[r]) <= MaxAttempts
    /\ asides \in [Request -> SUBSET Aside]
    /\ status \in [Request -> {"none", "answered", "composed", "abstained", "failed"}]

Clean == [d \in Domain |-> "none"]
OldTurn == { [ordinal |-> 1, role |-> "user", answers |-> 1],
             [ordinal |-> 2, role |-> "assistant", answers |-> 1] }

(* A new conversation, or one with an answered question.                    *)
Init ==
    /\ messages \in {{}, OldTurn}
    /\ breaker = Clean
    /\ pc = [r \in Request |-> "idle"]
    /\ question = [r \in Request |-> 0]
    /\ number = [r \in Request |-> 0]
    /\ own = [r \in Request |-> {}]
    /\ wrote = [r \in Request |-> Clean]
    /\ chain = [r \in Request |-> {}]
    /\ modelAttempts = [r \in Request |-> <<>>]
    /\ asides = [r \in Request |-> {}]
    /\ status = [r \in Request |-> "none"]

Running(r) == pc[r] \notin Ended \cup {"idle"}

Goto(r, label) == pc' = [pc EXCEPT ![r] = label]

(* A rollback: what the turn has written and locked is gone.                *)
Drop(r, end) ==
    /\ Goto(r, end)
    /\ own' = [own EXCEPT ![r] = {}]
    /\ wrote' = [wrote EXCEPT ![r] = Clean]
    /\ number' = [number EXCEPT ![r] = 0]
    /\ chain' = [chain EXCEPT ![r] = {}]
    /\ asides' = [asides EXCEPT ![r] = {}]

-----------------------------------------------------------------------------
(* Messages.                                                                *)

Ordinals(rows) == {m.ordinal : m \in rows}

Questions == {m \in messages : m.role = "user"}

Post(r) ==
    /\ pc[r] = "idle"
    /\ Goto(r, "numbering")
    /\ UNCHANGED <<database, question, number, own, wrote, chain, modelAttempts, asides, status>>

(* retryLastTurn: the last question is asked again, not inserted again.     *)
Retry(r) ==
    /\ pc[r] = "idle"
    /\ IF Questions = {}
       THEN Goto(r, "refused") /\ UNCHANGED question
       ELSE /\ question' = [question EXCEPT ![r] = Max(Ordinals(Questions))]
            /\ Goto(r, "linking")
    /\ UNCHANGED <<database, number, own, wrote, chain, modelAttempts, asides, status>>

HasLinked(s, q) == Running(s) /\ pc[s] # "linking" /\ question[s] = q

(* The question gets the new trace; another retry of it waits here.         *)
Link(r) ==
    /\ pc[r] = "linking"
    /\ \A s \in Request \ {r} : ~HasLinked(s, question[r])
    /\ Goto(r, "planning")
    /\ UNCHANGED <<database, question, number, own, wrote, chain, modelAttempts, asides, status>>

(* nextMessageOrdinal: the rows of turns under way are not seen.            *)
ReadOrdinal(r) ==
    /\ pc[r] = "numbering"
    /\ number' = [number EXCEPT ![r] = 1 + Max({0} \cup Ordinals(messages \cup own[r]))]
    /\ Goto(r, "inserting")
    /\ UNCHANGED <<database, question, own, wrote, chain, modelAttempts, asides, status>>

HoldsNumber(s, n) == n \in Ordinals(own[s])

(* The question while the turn has none, its answer afterwards.             *)
Keep(r, n) ==
    /\ IF status[r] = "none"
       THEN /\ question' = [question EXCEPT ![r] = n]
            /\ own' = [own EXCEPT ![r] = @ \cup
                   {[ordinal |-> n, role |-> "user", answers |-> n]}]
            /\ Goto(r, "planning")
       ELSE /\ own' = [own EXCEPT ![r] = @ \cup
                   {[ordinal |-> n, role |-> "assistant", answers |-> question[r]]}]
            /\ Goto(r, "committing")
            /\ UNCHANGED question
    /\ UNCHANGED <<database, number, wrote, chain, modelAttempts, asides, status>>

(* Mutant: a number that is taken is replaced by the next free one.         *)
InsertNextFree(r) ==
    LET taken == Ordinals(messages \cup UNION {own[s] : s \in Request}) IN
    /\ pc[r] = "inserting"
    /\ Keep(r, IF number[r] \in taken THEN 1 + Max(taken) ELSE number[r])

(* unique (conversation_id, ordinal): the insert waits for the turn that    *)
(* holds the number, and fails once the number is committed.                *)
Insert(r) ==
    /\ pc[r] = "inserting"
    /\ \A s \in Request \ {r} : ~HoldsNumber(s, number[r])
    /\ IF number[r] \in Ordinals(messages)
       THEN /\ Drop(r, "lost")
            /\ UNCHANGED <<database, question, modelAttempts, status>>
       ELSE Keep(r, number[r])

-----------------------------------------------------------------------------
(* The chain of candidates.                                                 *)

Visible(r, d) == IF wrote[r][d] # "none" THEN wrote[r][d] ELSE breaker[d]

(* Unusable entries and repetitions of a model are passed over.             *)
Candidates ==
    LET Usable == {i \in Position : Configured[i].usable} IN
    {i \in Usable : \A k \in Usable : Configured[k].model = Configured[i].model => i <= k}

(* resolveChatModelCandidates: ... and the domains that are open now.       *)
Attemptable(r) == {i \in Candidates : Visible(r, Configured[i].domain) \notin Limit}

(* One call to the first candidate, the chain being resolved for it alone.  *)
(* Whatever comes of it, the turn goes on: a rate limit is swallowed, trips *)
(* no breaker and shields no domain from the calls that follow.             *)
CallAside(r, stage) ==
    /\ \A c \in asides[r] : c.stage # stage
    /\ \E i \in Attemptable(r) :
        /\ \A k \in Attemptable(r) : i <= k
        /\ asides' = [asides EXCEPT ![r] = @ \cup
               {[stage |-> stage, domain |-> Configured[i].domain]}]
    /\ UNCHANGED <<database, pc, question, number, own, wrote, chain,
                   modelAttempts, status>>

(* rewriteQuery: for what looks like a follow-up, unless it is disabled.    *)
llmRewrite(r) ==
    /\ pc[r] = "planning" /\ asides[r] = {}
    /\ Ordinals(messages) \ {question[r]} # {}
    /\ CallAside(r, "rewriting")

(* planTurn, unless it is disabled.                                         *)
plannerModelAttempt(r) ==
    /\ pc[r] = "planning"
    /\ CallAside(r, "planning")

(* No release, a question about the service, or a decision not to answer.   *)
Abstain(r) ==
    /\ pc[r] = "planning"
    /\ status' = [status EXCEPT ![r] = "abstained"]
    /\ asides' = [asides EXCEPT ![r] = {}]
    /\ Goto(r, "numbering")
    /\ UNCHANGED <<database, question, number, own, wrote, chain, modelAttempts>>

Compose(r) ==
    /\ pc[r] = "planning"
    /\ chain' = [chain EXCEPT ![r] = Attemptable(r)]
    /\ asides' = [asides EXCEPT ![r] = {}]
    /\ Goto(r, "calling")
    /\ UNCHANGED <<database, question, number, own, wrote, modelAttempts, status>>

(* trippedThisTurn                                                          *)
Tripped(r) == {a.entry.domain : a \in {b \in ToSet(modelAttempts[r]) : b.outcome \in Limit}}

(* Mutant: the next candidate is called whatever its domain has answered.   *)
NextCandidatesAny(r) == chain[r]

(* Candidates of a domain that has limited this turn are skipped; they cost *)
(* nothing of the budget.                                                   *)
NextCandidates(r) == {i \in chain[r] : Configured[i].domain \notin Tripped(r)}

(* Mutant: one attempt more than the budget.                                *)
BudgetOverrun(r) == Len(modelAttempts[r]) > MaxAttempts

BudgetUsed(r) == Len(modelAttempts[r]) >= MaxAttempts

(* One call, with the repair of its output: a validated answer, a rate      *)
(* limit of either kind, or any other failure.                              *)
Call(r) ==
    /\ pc[r] = "calling" /\ ~BudgetUsed(r)
    /\ \E i \in NextCandidates(r), o \in Outcome :
        /\ \A k \in NextCandidates(r) : i <= k
        /\ modelAttempts' = [modelAttempts EXCEPT ![r] =
               Append(@, [entry |-> Configured[i], outcome |-> o])]
        /\ chain' = [chain EXCEPT ![r] = {k \in @ : k > i}]
        /\ Goto(r, IF o = "success" THEN "closing"
                   ELSE IF o \in Limit THEN "tripping" ELSE "calling")
    /\ UNCHANGED <<database, question, number, own, wrote, asides, status>>

(* Mutant: a turn whose budget is used waits for its chain to end.          *)
GiveUpWhenEmpty(r) ==
    /\ pc[r] = "calling" /\ NextCandidates(r) = {}
    /\ \E s \in {"failed", "composed"} : status' = [status EXCEPT ![r] = s]
    /\ Goto(r, "numbering")
    /\ UNCHANGED <<database, question, number, own, wrote, chain, modelAttempts, asides>>

(* No answer of a model: an honest failure, or passages put together for a  *)
(* profile that asks for quotes.                                            *)
GiveUp(r) ==
    /\ pc[r] = "calling"
    /\ NextCandidates(r) = {} \/ BudgetUsed(r)
    /\ \E s \in {"failed", "composed"} : status' = [status EXCEPT ![r] = s]
    /\ Goto(r, "numbering")
    /\ UNCHANGED <<database, question, number, own, wrote, chain, modelAttempts, asides>>

-----------------------------------------------------------------------------
(* The breaker.                                                             *)

LastCall(r) == Last(modelAttempts[r])
Locked(r, d) == \E s \in Request \ {r} : wrote[s][d] # "none"

(* Mutant: the breaker is left alone while another turn has its row.        *)
TripUnlessBusy(r) ==
    LET d == LastCall(r).entry.domain IN
    /\ pc[r] = "tripping"
    /\ wrote' = [wrote EXCEPT ![r][d] = IF Locked(r, d) THEN @ ELSE LastCall(r).outcome]
    /\ Goto(r, "calling")
    /\ UNCHANGED <<database, question, number, own, chain, modelAttempts, asides, status>>

(* tripQuotaDomain: an upsert; the row stays locked until the turn ends.    *)
Trip(r) ==
    LET d == LastCall(r).entry.domain IN
    /\ pc[r] = "tripping" /\ ~Locked(r, d)
    /\ wrote' = [wrote EXCEPT ![r][d] = LastCall(r).outcome]
    /\ Goto(r, "calling")
    /\ UNCHANGED <<database, question, number, own, chain, modelAttempts, asides, status>>

(* closeQuotaDomain: only a row that is open is written, or waited for.     *)
Close(r) ==
    LET d == LastCall(r).entry.domain IN
    /\ pc[r] = "closing"
    /\ IF Visible(r, d) \in Open
       THEN ~Locked(r, d) /\ wrote' = [wrote EXCEPT ![r][d] = "closed"]
       ELSE UNCHANGED wrote
    /\ status' = [status EXCEPT ![r] = "answered"]
    /\ Goto(r, "numbering")
    /\ UNCHANGED <<database, question, number, own, chain, modelAttempts, asides>>

(* The reset time passes.                                                   *)
Expire(d) ==
    /\ breaker[d] \in Limit
    /\ breaker' = [breaker EXCEPT ![d] = "expired"]
    /\ UNCHANGED <<messages, turn>>

(* The same for a row whose turn has not committed.                         *)
ExpireUncommitted(r, d) ==
    /\ wrote[r][d] \in Limit
    /\ wrote' = [wrote EXCEPT ![r][d] = "expired"]
    /\ UNCHANGED <<database, pc, question, number, own, chain, modelAttempts, asides, status>>

-----------------------------------------------------------------------------
(* How a turn ends.                                                         *)

(* Behind a flag, once the answer of a model has been stored: the chain is  *)
(* resolved again and sees what the turn has written.                       *)
runTopicalAssessorShadow(r) ==
    /\ pc[r] = "committing" /\ status[r] = "answered"
    /\ CallAside(r, "assessing")

Commit(r) ==
    /\ pc[r] = "committing"
    /\ messages' = messages \cup own[r]
    /\ breaker' = [d \in Domain |-> Visible(r, d)]
    /\ Drop(r, "committed")
    /\ UNCHANGED <<question, modelAttempts, status>>

(* Any statement, retrieval, the connection or the process fails.           *)
Throw(r) ==
    /\ Running(r)
    /\ Drop(r, "lost")
    /\ UNCHANGED <<database, question, modelAttempts, status>>

WaitsFor(r, s) ==
    /\ r # s
    /\ \/ pc[r] = "linking" /\ HasLinked(s, question[r])
       \/ pc[r] = "inserting" /\ HoldsNumber(s, number[r])
       \/ /\ pc[r] = "tripping" \/ (pc[r] = "closing" /\ breaker[LastCall(r).entry.domain] \in Open)
          /\ wrote[s][LastCall(r).entry.domain] # "none"

InDeadlock(r) ==
    \E group \in SUBSET Request :
        r \in group /\ \A x \in group : \E y \in group : WaitsFor(x, y)

(* The database ends a deadlock by failing the statement of one turn.       *)
Victim(r) ==
    /\ InDeadlock(r)
    /\ Drop(r, "victim")
    /\ UNCHANGED <<database, question, modelAttempts, status>>

-----------------------------------------------------------------------------
Step(r) ==
    \/ Link(r) \/ ReadOrdinal(r) \/ Insert(r) \/ Abstain(r) \/ Compose(r)
    \/ llmRewrite(r) \/ plannerModelAttempt(r)
    \/ Call(r) \/ GiveUp(r) \/ Trip(r) \/ Close(r)
    \/ runTopicalAssessorShadow(r) \/ Commit(r)

Next ==
    \/ \E r \in Request : Post(r) \/ Retry(r) \/ Step(r) \/ Throw(r) \/ Victim(r)
    \/ \E d \in Domain : Expire(d) \/ \E r \in Request : ExpireUncommitted(r, d)

Spec == Init /\ [][Next]_vars

(* Statements and calls end (calls have timeouts), and the database looks   *)
(* for deadlocks.  Nothing is asked of errors or of the reset times.        *)
FairSpec == Spec /\ \A r \in Request : WF_vars(Step(r)) /\ WF_vars(Victim(r))

-----------------------------------------------------------------------------
(* Properties.                                                              *)

(* A question that can be seen has its own answer right behind it: no turn  *)
(* is cut in two, and no retry or other question comes in between.          *)
AnsweredNext ==
    \A q \in Questions :
        [ordinal |-> q.ordinal + 1, role |-> "assistant", answers |-> q.ordinal]
            \in messages

(* "a domain that trips MID-TURN must also shield the remaining candidates  *)
(* of THIS turn" (chatService.ts:858-860): no call for an answer goes to a  *)
(* domain that has limited one before, whatever other turns do to the       *)
(* breaker.  The assessor, which only looks at the breaker, is kept from    *)
(* it by the row the turn wrote, until the reset time has passed            *)
(* (topicalAssessor.ts:148-150).  Limits met while planning shield nothing. *)
TrippedIsShielded ==
    \A r \in Request :
        /\ \A i, k \in 1..Len(modelAttempts[r]) :
            i < k /\ modelAttempts[r][i].outcome \in Limit =>
                modelAttempts[r][k].entry.domain # modelAttempts[r][i].entry.domain
        /\ \A c \in asides[r] :
            c.stage = "assessing" /\ c.domain \in Tripped(r) =>
                wrote[r][c.domain] = "expired"

(* Every rate limit the candidates of a turn met is in the breaker when its *)
(* answer appears, its reset time passed or not: neither the turn's later   *)
(* success nor another turn has closed, overwritten or lost it.             *)
TripsSurviveCommit ==
    [][\A r \in Request : pc[r] = "committing" /\ pc'[r] = "committed" =>
           \A d \in Tripped(r) : breaker'[d] \in Open]_vars

(* A turn that has begun is answered or lost: turns that wait for each      *)
(* other's numbers and breaker rows do not wait for ever.                   *)
EveryTurnEnds == \A r \in Request : Running(r) ~> pc[r] \in Ended
=============================================================================
