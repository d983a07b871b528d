--------------------------- MODULE IngestionWorker ---------------------------
(***************************************************************************)
(* Ingestion: worker processes that keep each other out with a session      *)
(* advisory lock (apps/worker/src/index.ts, ingestLock.ts), and the engine  *)
(* that makes one attempt at a job (apps/worker/src/ingestionEngine.ts).    *)
(*                                                                         *)
(* The statements of the engine are sent one by one, outside a transaction, *)
(* so each is an action; the transaction that stores a product touches      *)
(* nothing another call reads before it commits and is one action.  The     *)
(* server can drop the lock's session before the worker notices, a process  *)
(* can die between any two statements, and a statement or a COMMIT can have *)
(* its effect without the caller being told.  The body of the polling       *)
(* loop, which is to call the engine, is not in the repository: a call      *)
(* starts wherever the loop's condition lets it run.                        *)
(***************************************************************************)
EXTENDS Naturals, FiniteSets

CONSTANTS
    Worker,        \* the replicas of the worker process
    NoWorker,      \* nobody holds the advisory lock
    Job,           \* rows of ingestion_jobs
    MaxAttempts,   \* ingestion_jobs.max_attempts
    Bound          \* no call starts at a job after this many attempts

ASSUME IngestionAssumption ==
    /\ NoWorker \notin Worker
    /\ MaxAttempts \in Nat \ {0}
    /\ Bound \in Nat

VARIABLES
    phase,       \* the workers' processes
    holder,      \* whose session holds INGESTION_LOCK_KEY
    status,      \* ingestion_jobs.status
    attempts,    \* ingestion_jobs.attempts
    attempt,     \* job_attempts.status by (job, attempt_no)
    manifests,   \* how many manifests of the job are 'produced'
    pc, call,    \* the engine's call in each worker
    disturbed    \* history: a call at the job ran without the lock, or was
                 \* not told of its success

jobs == <<status, attempts, attempt, manifests>>
leading == <<phase, holder, disturbed>>
vars == <<jobs, leading, pc, call>>

Phase == {"down", "starting", "leading", "releasing", "ending"}
JobStatus == {"absent", "queued", "running", "succeeded", "failed", "dead"}
Verdict == {"running", "succeeded", "failed"}
Call == [job : Job, no : Nat \ {0}]

TypeOK ==
    /\ phase \in [Worker -> Phase]
    /\ holder \in Worker \cup {NoWorker}
    /\ status \in [Job -> JobStatus]
    /\ attempts \in [Job -> Nat]
    /\ \A j \in Job : /\ DOMAIN attempt[j] \subseteq Nat \ {0}
                      /\ \A n \in DOMAIN attempt[j] : attempt[j][n] \in Verdict
    /\ manifests \in [Job -> Nat]
    /\ pc \in [Worker -> {"idle", "read", "attempting", "working", "unsure", "failing"}]
    /\ \A w \in Worker : pc[w] # "idle" => call[w] \in Call
    /\ disturbed \in [Job -> BOOLEAN]

Init ==
    /\ phase = [w \in Worker |-> "down"]
    /\ holder = NoWorker
    /\ status = [j \in Job |-> "absent"]
    /\ attempts = [j \in Job |-> 0]
    /\ attempt = [j \in Job |-> <<>>]
    /\ manifests = [j \in Job |-> 0]
    /\ pc = [w \in Worker |-> "idle"]
    /\ call = [w \in Worker |-> <<>>]
    /\ disturbed = [j \in Job |-> FALSE]

Enter(w, label) == pc' = [pc EXCEPT ![w] = label] /\ UNCHANGED call

Return(w) ==
    /\ pc' = [pc EXCEPT ![w] = "idle"]
    /\ call' = [call EXCEPT ![w] = <<>>]

(* The lock of w goes, on purpose or not, whatever w is doing.              *)
LockGoes(w) ==
    /\ holder' = IF holder = w THEN NoWorker ELSE holder
    /\ disturbed' = [j \in Job |-> \/ disturbed[j]
                                   \/ pc[w] # "idle" /\ call[w].job = j]

-----------------------------------------------------------------------------
(* Leadership.                                                              *)

(* Whatever runs the container starts it again.                             *)
Start(w) ==
    /\ phase[w] = "down"
    /\ phase' = [phase EXCEPT ![w] = "starting"]
    /\ UNCHANGED <<jobs, pc, call, holder, disturbed>>

(* The lock is tried once; without it the process exits.                    *)
Acquire(w) ==
    /\ phase[w] = "starting"
    /\ IF holder = NoWorker
       THEN holder' = w /\ phase' = [phase EXCEPT ![w] = "leading"]
       ELSE phase' = [phase EXCEPT ![w] = "down"] /\ UNCHANGED holder
    /\ UNCHANGED <<jobs, pc, call, disturbed>>

(* The server gives up the session of w: an idle kill, a failover, or the   *)
(* death of its process noticed at last.                                    *)
DropSession(w) ==
    /\ holder = w
    /\ LockGoes(w)
    /\ UNCHANGED <<jobs, pc, call, phase>>

(* onclose of the lock's connection.                                        *)
NoticeLoss(w) ==
    /\ phase[w] = "leading" /\ holder # w
    /\ phase' = [phase EXCEPT ![w] = "ending"]
    /\ UNCHANGED <<jobs, pc, call, holder, disturbed>>

(* SIGTERM: the lock is released first, while a call may be running.        *)
Shutdown(w) ==
    /\ phase[w] \in {"starting", "leading"}
    /\ phase' = [phase EXCEPT ![w] = "releasing"]
    /\ IF phase[w] = "leading" THEN LockGoes(w) ELSE UNCHANGED <<holder, disturbed>>
    /\ UNCHANGED <<jobs, pc, call>>

(* sql.end({timeout: 1}): new statements are refused, the transaction in    *)
(* progress has a second.                                                   *)
EndClient(w) ==
    /\ phase[w] = "releasing"
    /\ phase' = [phase EXCEPT ![w] = "ending"]
    /\ UNCHANGED <<jobs, pc, call, holder, disturbed>>

(* process.exit, or the process dies; the call dies with it.                *)
Exit(w) ==
    /\ phase[w] # "down"
    /\ phase' = [phase EXCEPT ![w] = "down"]
    /\ Return(w)
    /\ UNCHANGED <<jobs, holder, disturbed>>

-----------------------------------------------------------------------------
(* createIngestionJob: the upsert on (processor, idempotency key) leaves a  *)
(* job that exists as it is.                                                *)

Enqueue(j) ==
    /\ status[j] = "absent"
    /\ status' = [status EXCEPT ![j] = "queued"]
    /\ UNCHANGED <<attempts, attempt, manifests, leading, pc, call>>

-----------------------------------------------------------------------------
(* processIngestionJob, statement by statement.                             *)

Connected(w) == phase[w] \in {"leading", "releasing"}

(* Mutant: no early return for a job that has succeeded.                    *)
ReadJobAnyway(w, j) ==
    /\ phase[w] = "leading" /\ pc[w] = "idle"
    /\ status[j] # "absent" /\ attempts[j] < Bound
    /\ pc' = [pc EXCEPT ![w] = "read"]
    /\ call' = [call EXCEPT ![w] = [job |-> j, no |-> attempts[j] + 1]]
    /\ disturbed' = [disturbed EXCEPT ![j] = @ \/ holder # w]
    /\ UNCHANGED <<jobs, phase, holder>>

(* The loop's condition, then the select: its `for update` locks nothing    *)
(* beyond the statement.  A dead, failed or running job is taken like a     *)
(* queued one; a job that has a product is left alone.                      *)
ReadJob(w, j) ==
    /\ phase[w] = "leading" /\ pc[w] = "idle"
    /\ status[j] # "absent" /\ attempts[j] < Bound
    /\ ~(status[j] = "succeeded" /\ manifests[j] > 0)
    /\ pc' = [pc EXCEPT ![w] = "read"]
    /\ call' = [call EXCEPT ![w] = [job |-> j, no |-> attempts[j] + 1]]
    /\ disturbed' = [disturbed EXCEPT ![j] = @ \/ holder # w]
    /\ UNCHANGED <<jobs, phase, holder>>

(* Mutant: the row of another caller is taken over.                         *)
InsertAttemptOnConflict(w) ==
    LET j == call[w].job
        no == call[w].no
    IN
    /\ pc[w] = "read" /\ Connected(w)
    /\ attempt' = [attempt EXCEPT ![j] =
           [n \in DOMAIN @ \cup {no} |-> IF n = no THEN "running" ELSE @[n]]]
    /\ Enter(w, "attempting")
    /\ UNCHANGED <<status, attempts, manifests, leading>>

(* unique (job_id, attempt_no): the second of two callers that have read    *)
(* the same counter throws.                                                 *)
InsertAttempt(w) ==
    LET j == call[w].job
        no == call[w].no
    IN
    /\ pc[w] = "read" /\ Connected(w)
    /\ IF no \in DOMAIN attempt[j]
       THEN Return(w) /\ UNCHANGED attempt
       ELSE /\ attempt' = [attempt EXCEPT ![j] =
                  [n \in DOMAIN @ \cup {no} |-> IF n = no THEN "running" ELSE @[n]]]
            /\ Enter(w, "attempting")
    /\ UNCHANGED <<status, attempts, manifests, leading>>

MarkRunning(w) ==
    LET j == call[w].job IN
    /\ pc[w] = "attempting" /\ Connected(w)
    /\ status' = [status EXCEPT ![j] = "running"]
    /\ attempts' = [attempts EXCEPT ![j] = call[w].no]
    /\ Enter(w, "working")
    /\ UNCHANGED <<attempt, manifests, leading>>

(* Mutant: the attempt is left open when the product is stored.             *)
ProduceOnly(w) ==
    LET j == call[w].job IN
    /\ pc[w] = "working" /\ phase[w] # "down"
    /\ manifests' = [manifests EXCEPT ![j] = @ + 1]
    /\ status' = [status EXCEPT ![j] = "succeeded"]
    /\ Return(w)
    /\ UNCHANGED <<attempt, attempts, leading>>

(* Mutant: the attempt gets the status of the manifest.                     *)
ProduceAsManifest(w) ==
    LET j == call[w].job IN
    /\ pc[w] = "working" /\ phase[w] # "down"
    /\ manifests' = [manifests EXCEPT ![j] = @ + 1]
    /\ attempt' = [attempt EXCEPT ![j][call[w].no] = "produced"]
    /\ status' = [status EXCEPT ![j] = "succeeded"]
    /\ Return(w)
    /\ UNCHANGED <<attempts, leading>>

(* The transaction of a success: manifest and items, attempt, job.          *)
Store(w) ==
    LET j == call[w].job IN
    /\ pc[w] = "working" /\ phase[w] # "down"
    /\ manifests' = [manifests EXCEPT ![j] = @ + 1]
    /\ attempt' = [attempt EXCEPT ![j][call[w].no] = "succeeded"]
    /\ status' = [status EXCEPT ![j] = "succeeded"]
    /\ UNCHANGED attempts

Produce(w) == Store(w) /\ Return(w) /\ UNCHANGED leading

(* It has committed, and the connection is lost before the caller is told.  *)
ProduceUntold(w) ==
    /\ Store(w)
    /\ Enter(w, "unsure")
    /\ disturbed' = [disturbed EXCEPT ![call[w].job] = TRUE]
    /\ UNCHANGED <<phase, holder>>

(* No processor, a wrong type, an error of the processor or of the          *)
(* transaction; for a caller that was not told, over its own success.       *)
FailAttempt(w) ==
    /\ pc[w] \in {"working", "unsure"} /\ Connected(w)
    /\ attempt' = [attempt EXCEPT ![call[w].job][call[w].no] = "failed"]
    /\ Enter(w, "failing")
    /\ UNCHANGED <<status, attempts, manifests, leading>>

(* Written whatever the status has become meanwhile.                        *)
FailJob(w) ==
    LET isDead == call[w].no >= MaxAttempts IN
    /\ pc[w] = "failing" /\ Connected(w)
    /\ status' = [status EXCEPT ![call[w].job] = IF isDead THEN "dead" ELSE "failed"]
    /\ Return(w)
    /\ UNCHANGED <<attempts, attempt, manifests, leading>>

(* A statement outside the try block fails, or is not acknowledged.         *)
Throw(w) ==
    /\ pc[w] # "idle"
    /\ Return(w)
    /\ UNCHANGED <<jobs, leading>>

-----------------------------------------------------------------------------
Next ==
    \/ \E j \in Job : Enqueue(j)
    \/ \E w \in Worker :
        \/ Start(w) \/ Acquire(w) \/ DropSession(w) \/ NoticeLoss(w)
        \/ Shutdown(w) \/ EndClient(w) \/ Exit(w)
        \/ \E j \in Job : ReadJob(w, j)
        \/ InsertAttempt(w) \/ MarkRunning(w) \/ Produce(w)
        \/ ProduceUntold(w) \/ FailAttempt(w) \/ FailJob(w) \/ Throw(w)

Spec == Init /\ [][Next]_vars

-----------------------------------------------------------------------------
(* Properties.                                                              *)

(* Two calls that work at one job have different attempts: the counter is   *)
(* read without a lock (ingestionEngine.ts:147-163), and the unique key     *)
(* sends the slower caller away before it touches the other's attempt.      *)
Working(w) == pc[w] \in {"attempting", "working", "unsure", "failing"}

OneCallerPerAttempt ==
    \A w, v \in Worker : w # v /\ Working(w) /\ Working(v) => call[w] # call[v]

(* The attempts at a job are numbered 1, 2, 3 ... and the counter of the    *)
(* job is the last of them, or the one before when its writer has yet to    *)
(* write it, or died before it did: the counter never falls back and never  *)
(* skips, however calls overlap and end.                                    *)
CounterFollowsAttempts ==
    \A j \in Job :
        \/ DOMAIN attempt[j] = 1..attempts[j]
        \/ DOMAIN attempt[j] = 1..(attempts[j] + 1)

(* Where every call at a job held the lock to its end and was told of its   *)
(* success, a job that has succeeded stays so, and is not made a second     *)
(* product of (ingestLock.ts:5-7: two replicas "would happily process the   *)
(* same jobs twice").                                                       *)
SuccessStaysUnderLock ==
    [][\A j \in Job : status[j] = "succeeded" =>
           \/ status'[j] = "succeeded" /\ manifests'[j] = manifests[j]
           \/ disturbed[j]]_vars

(* "a dead worker leaves revisions mid-flight; restart it and let it        *)
(* resume", docs/runbooks/source.md:46-47: a job that no call works at can  *)
(* be attempted again.                                                      *)
Resumable ==
    \A j \in Job :
        (\A w \in Worker : pc[w] # "idle" => call[w].job # j)
            => attempts[j] + 1 \notin DOMAIN attempt[j]

(* The attempts whose success was stored and their callers not told.        *)
Unsure == {call[w] : w \in {v \in Worker : pc[v] = "unsure"}}

(* The attempts and products behave as AttemptLedger, broken locks and lost *)
(* answers or not.                                                          *)
Ledger == INSTANCE AttemptLedger
              WITH ledger <- attempt, product <- manifests, unsure <- Unsure

LedgerKept == Ledger!Spec
=============================================================================
