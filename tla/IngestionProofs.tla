-------------------------- MODULE IngestionProofs --------------------------
(***************************************************************************)
(* Proofs about IngestionWorker, for any workers and jobs and any bounds.   *)
(*                                                                         *)
(* The attempt counter is read without a lock, so nothing a call has read   *)
(* can be relied on.  What can be is the unique key: an attempt is inserted *)
(* at the end of the ledger or not at all, so a call that gets past it owns *)
(* the last attempt until it raises the counter.  Inv says that; the lock   *)
(* of the workers plays no part in it.  Guarded says what the lock adds: a  *)
(* call at a job that was never disturbed is the lock holder's, and none is *)
(* left where the job has succeeded.                                        *)
(***************************************************************************)
EXTENDS IngestionWorker, SequenceTheorems, TLAPS

Label == {"idle", "read", "attempting", "working", "unsure", "failing"}

Typed ==
    /\ phase \in [Worker -> Phase]
    /\ holder \in Worker \cup {NoWorker}
    /\ status \in [Job -> JobStatus]
    /\ attempts \in [Job -> Nat]
    /\ attempt \in [Job -> Seq(Verdict)]
    /\ manifests \in [Job -> Nat]
    /\ pc \in [Worker -> Label]
    /\ call \in [Worker -> Call \cup {<<>>}]
    /\ disturbed \in [Job -> BOOLEAN]

(* The ledger of a job is as long as its counter, or one attempt longer.    *)
Counted ==
    \A j \in Job : Len(attempt[j]) = attempts[j] \/ Len(attempt[j]) = attempts[j] + 1

(* Where a call stands in the ledger of its job.                            *)
Placed(w) ==
    LET j == call[w].job
        no == call[w].no
    IN
    /\ pc[w] # "idle" => call[w] \in Call /\ no <= attempts[j] + 1
    /\ Working(w) => no <= Len(attempt[j])
    /\ pc[w] = "attempting" => no = attempts[j] + 1
    /\ pc[w] \in {"attempting", "working"} => attempt[j][no] = "running"

Inv ==
    /\ Typed
    /\ Counted
    /\ \A w \in Worker : Placed(w)
    /\ OneCallerPerAttempt

(* A call at j is under way in w.                                           *)
At(w, j) == pc[w] # "idle" /\ call[w].job = j

Guarded ==
    \A j \in Job : ~disturbed[j] =>
        /\ \A w \in Worker : At(w, j) => holder = w
        /\ status[j] = "succeeded" =>
               manifests[j] > 0 /\ \A w \in Worker : ~At(w, j)

-----------------------------------------------------------------------------
(* A ledger with a row for attempt n.                                       *)
WithRow(s, n) == [k \in DOMAIN s \cup {n} |-> IF k = n THEN "running" ELSE s[k]]

(* Opening the next attempt appends it.                                     *)
LEMMA Opened ==
    ASSUME NEW s \in Seq(Verdict), NEW n, n = Len(s) + 1
    PROVE  /\ WithRow(s, n) = Append(s, "running")
           /\ WithRow(s, n) \in Seq(Verdict)
           /\ Len(WithRow(s, n)) = n
           /\ WithRow(s, n)[n] = "running"
           /\ \A k \in 1..Len(s) : WithRow(s, n)[k] = s[k]
<1> DEFINE t == WithRow(s, n)
<1>1. DOMAIN s = 1..Len(s) /\ Len(s) \in Nat
  OBVIOUS
<1>2. DOMAIN s \cup {n} = 1..n
  BY <1>1
<1>3. t = [k \in 1..n |-> IF k = n THEN "running" ELSE s[k]]
  BY <1>2 DEF WithRow
<1> HIDE DEF t
<1>4. t \in [1..n -> Verdict]
  <2>1. \A k \in 1..n : (IF k = n THEN "running" ELSE s[k]) \in Verdict
    BY <1>1 DEF Verdict
  <2> QED BY <1>3, <2>1
<1>5. t \in Seq(Verdict) /\ Len(t) = n
  <2>1. n \in Nat /\ DOMAIN t = 1..n
    BY <1>1, <1>4
  <2>2. Len(t) = n
    BY <2>1
  <2>3. t = [k \in 1..n |-> t[k]] /\ \A k \in 1..n : t[k] \in Verdict
    BY <1>4
  <2>4. t \in Seq(Verdict)
    BY <1>4, <2>1, SeqDef
  <2> QED BY <2>2, <2>4
<1>6. t[n] = "running" /\ \A k \in 1..Len(s) : t[k] = s[k]
  BY <1>1, <1>3
<1>7. t = Append(s, "running")
  <2>1. /\ Append(s, "running") \in Seq(Verdict)
        /\ Len(Append(s, "running")) = n
        /\ \A k \in 1..n : Append(s, "running")[k]
                               = IF k = n THEN "running" ELSE s[k]
    BY <1>1 DEF Verdict
  <2>2. \A k \in 1..n : t[k] = Append(s, "running")[k]
    BY <1>3, <2>1
  <2> QED BY <1>5, <2>1, <2>2, SeqEqual
<1> QED BY <1>5, <1>6, <1>7 DEF t

(* A step of a worker's process that makes no step of a call.               *)
Leadership(w) ==
    \/ Start(w) \/ Acquire(w) \/ DropSession(w) \/ NoticeLoss(w)
    \/ Shutdown(w) \/ EndClient(w)

(* Every step keeps Inv.                                                    *)
LEMMA StepKeepsInv == Inv /\ [Next]_vars => Inv'
<1> SUFFICES ASSUME Inv, [Next]_vars PROVE Inv'
  OBVIOUS
<1> USE DEF Inv
<1>1. CASE UNCHANGED vars
  BY <1>1 DEF vars, jobs, leading, Typed, Counted, Placed, OneCallerPerAttempt, Working
<1>2. ASSUME NEW j \in Job, Enqueue(j) PROVE Inv'
  BY <1>2 DEF Enqueue, leading, Typed, JobStatus, Counted, Placed,
              OneCallerPerAttempt, Working
<1>3. ASSUME NEW w \in Worker, Leadership(w) PROVE Inv'
  <2>1. UNCHANGED <<jobs, pc, call>>
    BY <1>3 DEF Leadership, Start, Acquire, DropSession, NoticeLoss, Shutdown, EndClient
  <2>2. /\ phase' \in [Worker -> Phase]
        /\ holder' \in Worker \cup {NoWorker}
        /\ disturbed' \in [Job -> BOOLEAN]
    BY <1>3 DEF Typed, Leadership, Start, Acquire, DropSession, NoticeLoss,
                Shutdown, EndClient, LockGoes, Phase, jobs
  <2> QED
    BY <2>1, <2>2 DEF Typed, Counted, Placed, OneCallerPerAttempt, Working, jobs
<1>4. ASSUME NEW w \in Worker, Exit(w) \/ Throw(w) PROVE Inv'
  <2>1. Return(w) /\ UNCHANGED <<jobs, holder, disturbed>>
    BY <1>4 DEF Exit, Throw, leading
  <2>2. phase' \in [Worker -> Phase]
    BY <1>4 DEF Exit, Throw, leading, Typed, Phase
  <2>3. Typed'
    BY <2>1, <2>2 DEF Return, jobs, Typed, Label
  <2> QED
    BY <2>1, <2>3 DEF Return, jobs, Typed, Counted, Placed,
                      OneCallerPerAttempt, Working
<1>5. ASSUME NEW w \in Worker, NEW j \in Job, ReadJob(w, j) PROVE Inv'
  <2>1. Typed'
    BY <1>5 DEF ReadJob, jobs, Typed, Label, Call
  <2>2. \A v \in Worker : Placed(v)'
    BY <1>5, <2>1 DEF ReadJob, jobs, Typed, Placed, Working, Call
  <2> QED
    BY <1>5, <2>1, <2>2 DEF ReadJob, jobs, Typed, Counted,
                            OneCallerPerAttempt, Working
<1>6. ASSUME NEW w \in Worker, InsertAttempt(w) PROVE Inv'
  <2> DEFINE j == call[w].job
             no == call[w].no
  <2>1. /\ j \in Job /\ no \in Nat \ {0} /\ no <= attempts[j] + 1
        /\ pc[w] = "read" /\ UNCHANGED <<status, attempts, manifests, leading>>
    BY <1>6 DEF InsertAttempt, Placed, Call
  <2>2. CASE no \in DOMAIN attempt[j]
    <3>1. Return(w) /\ UNCHANGED attempt
      BY <1>6, <2>2 DEF InsertAttempt
    <3>2. Typed'
      BY <2>1, <3>1 DEF Return, leading, Typed, Label
    <3> QED
      BY <2>1, <3>1, <3>2 DEF Return, leading, Typed, Counted, Placed,
                              OneCallerPerAttempt, Working
  <2>3. CASE no \notin DOMAIN attempt[j]
    <3> DEFINE row == WithRow(attempt[j], no)
    <3>1. attempt' = [attempt EXCEPT ![j] = row] /\ Enter(w, "attempting")
      BY <1>6, <2>3 DEF InsertAttempt, WithRow
    <3>2. no = Len(attempt[j]) + 1 /\ no = attempts[j] + 1
      <4>1. /\ attempt[j] \in Seq(Verdict) /\ attempts[j] \in Nat
            /\ Len(attempt[j]) \in Nat /\ DOMAIN attempt[j] = 1..Len(attempt[j])
        BY <2>1 DEF Typed
      <4>2. Len(attempt[j]) = attempts[j] \/ Len(attempt[j]) = attempts[j] + 1
        BY <2>1 DEF Counted
      <4>3. no \notin 1..Len(attempt[j])
        BY <2>3, <4>1
      <4> HIDE DEF no, j
      <4> QED BY <2>1, <4>1, <4>2, <4>3
    <3>3. /\ row \in Seq(Verdict) /\ Len(row) = no /\ row[no] = "running"
          /\ \A k \in 1..Len(attempt[j]) : row[k] = attempt[j][k]
      <4>1. attempt[j] \in Seq(Verdict)
        BY <2>1 DEF Typed
      <4> HIDE DEF no, j
      <4> QED BY <3>2, <4>1, Opened
    <3> HIDE DEF row
    <3>4. Typed'
      BY <2>1, <3>1, <3>3 DEF Enter, leading, Typed, Label
    <3>5. Counted'
      BY <2>1, <3>1, <3>2, <3>3 DEF Typed, Counted
    <3>6. Placed(w)'
      BY <2>1, <3>1, <3>2, <3>3 DEF Enter, Typed, Placed, Working
    <3>7. ASSUME NEW v \in Worker, v # w PROVE Placed(v)'
      <4>1. call'[v] = call[v] /\ pc'[v] = pc[v] /\ attempts' = attempts
        BY <2>1, <3>1, <3>7 DEF Enter, Typed
      <4>2. pc[v] # "idle" => call[v] \in Call /\ call[v].job \in Job
                              /\ call[v].no \in Nat \ {0}
        BY DEF Placed, Call
      <4>3. Working(v) => /\ call[v].no \in 1..Len(attempt[call[v].job])
                          /\ call[v].no <= Len(attempt'[call[v].job])
                          /\ attempt'[call[v].job][call[v].no]
                                 = attempt[call[v].job][call[v].no]
        <5> SUFFICES ASSUME Working(v)
                     PROVE  /\ call[v].no \in 1..Len(attempt[call[v].job])
                            /\ call[v].no <= Len(attempt'[call[v].job])
                            /\ attempt'[call[v].job][call[v].no]
                                   = attempt[call[v].job][call[v].no]
          OBVIOUS
        <5>1. /\ call[v].job \in Job /\ call[v].no \in Nat \ {0}
              /\ call[v].no <= Len(attempt[call[v].job])
          BY <4>2 DEF Placed, Working
        <5>2. attempt \in [Job -> Seq(Verdict)]
          BY DEF Typed
        <5>3. call[v].no \in 1..Len(attempt[call[v].job])
          BY <5>1, <5>2
        <5>4. CASE call[v].job = j
          <6>1. attempt'[j] = row /\ Len(row) = Len(attempt[j]) + 1
            BY <2>1, <3>1, <3>2, <3>3, <5>2
          <6> HIDE DEF j, no
          <6>2. Len(attempt[j]) \in Nat
            BY <5>1, <5>2, <5>4
          <6> QED BY <3>3, <5>1, <5>3, <5>4, <6>1, <6>2
        <5>5. CASE call[v].job # j
          BY <3>1, <5>1, <5>2, <5>3, <5>5
        <5> QED BY <5>4, <5>5
      <4> QED
        BY <4>1, <4>2, <4>3 DEF Placed, Working
    <3>8. OneCallerPerAttempt'
      BY <2>1, <3>1, <3>2, <3>3 DEF Enter, Typed, Placed, OneCallerPerAttempt, Working
    <3> QED
      BY <3>4, <3>5, <3>6, <3>7, <3>8
  <2> QED
    BY <2>2, <2>3
<1>7. ASSUME NEW w \in Worker, MarkRunning(w) PROVE Inv'
  <2> DEFINE j == call[w].job
             no == call[w].no
  <2>1. /\ j \in Job /\ no \in Nat \ {0} /\ no = attempts[j] + 1
        /\ no <= Len(attempt[j])
        /\ pc[w] = "attempting" /\ attempt[j][no] = "running"
    BY <1>7 DEF MarkRunning, Placed, Working, Call
  <2>2. /\ status' = [status EXCEPT ![j] = "running"]
        /\ attempts' = [attempts EXCEPT ![j] = no]
        /\ Enter(w, "working")
        /\ UNCHANGED <<attempt, manifests, leading>>
    BY <1>7 DEF MarkRunning
  <2>3. Typed'
    BY <2>1, <2>2 DEF Enter, leading, Typed, Label, JobStatus
  <2>4. Counted'
    BY <2>1, <2>2 DEF Typed, Counted
  <2>5. Placed(w)'
    BY <2>1, <2>2 DEF Enter, Typed, Placed, Working
  <2>6. ASSUME NEW v \in Worker, v # w PROVE Placed(v)'
    <3>1. call'[v] = call[v] /\ pc'[v] = pc[v]
      BY <2>2, <2>6 DEF Enter, Typed
    <3>2. pc[v] # "idle" => /\ call[v].job \in Job /\ call[v].no \in Nat
                            /\ attempts[call[v].job] \in Nat
                            /\ attempts[call[v].job] <= attempts'[call[v].job]
                            /\ attempts'[call[v].job] \in Nat
      BY <2>1, <2>2 DEF Typed, Placed, Call
    <3>3. pc[v] = "attempting" => call[v].job # j
      BY <2>1, <2>6 DEF Placed, OneCallerPerAttempt, Working, Call
    <3>4. pc[v] = "attempting" => attempts'[call[v].job] = attempts[call[v].job]
      BY <2>1, <2>2, <3>2, <3>3 DEF Typed
    <3> QED
      BY <2>2, <3>1, <3>2, <3>4 DEF Placed, Working
  <2>7. OneCallerPerAttempt'
    BY <2>1, <2>2 DEF Enter, Typed, OneCallerPerAttempt, Working
  <2> QED
    BY <2>3, <2>4, <2>5, <2>6, <2>7
<1>8. ASSUME NEW w \in Worker, Produce(w) \/ ProduceUntold(w) \/ FailAttempt(w)
      PROVE  Inv'
  <2> DEFINE j == call[w].job
             no == call[w].no
  <2>1. /\ j \in Job /\ no \in 1..Len(attempt[j]) /\ pc[w] \in {"working", "unsure"}
        /\ attempt[j] \in Seq(Verdict)
    BY <1>8 DEF Produce, ProduceUntold, Store, FailAttempt, Typed, Placed, Working, Call
  <2>2. PICK v \in Verdict : attempt' = [attempt EXCEPT ![j][no] = v]
    BY <1>8 DEF Produce, ProduceUntold, Store, FailAttempt, Verdict
  <2>3. /\ UNCHANGED <<attempts, phase, holder>>
        /\ disturbed' \in [Job -> BOOLEAN]
        /\ \/ Return(w)
           \/ \E label \in {"failing", "unsure"} : Enter(w, label)
    BY <1>8 DEF Produce, ProduceUntold, Store, FailAttempt, leading, Typed
  <2>4. manifests' \in [Job -> Nat] /\ status' \in [Job -> JobStatus]
    <3>1. \/ manifests' = [manifests EXCEPT ![j] = manifests[j] + 1]
          \/ manifests' = manifests
      BY <1>8 DEF Produce, ProduceUntold, Store, FailAttempt
    <3>2. \/ status' = [status EXCEPT ![j] = "succeeded"]
          \/ status' = status
      BY <1>8 DEF Produce, ProduceUntold, Store, FailAttempt
    <3>3. manifests \in [Job -> Nat] /\ status \in [Job -> JobStatus] /\ j \in Job
      BY <2>1 DEF Typed
    <3> HIDE DEF j
    <3>4. manifests' \in [Job -> Nat]
      BY <3>1, <3>3
    <3>5. status' \in [Job -> JobStatus]
      BY <3>2, <3>3 DEF JobStatus
    <3> QED BY <3>4, <3>5
  <2>5. /\ attempt' \in [Job -> Seq(Verdict)]
        /\ \A i \in Job : Len(attempt'[i]) = Len(attempt[i])
        /\ \A i \in Job : \A k \in 1..Len(attempt[i]) :
               <<i, k>> # <<j, no>> => attempt'[i][k] = attempt[i][k]
    <3>1. attempt' = [attempt EXCEPT ![j] = [attempt[j] EXCEPT ![no] = v]]
      BY <2>2
    <3> QED
      BY <2>1, <3>1, ExceptSeq DEF Typed
  <2>6. Typed'
    BY <2>1, <2>3, <2>4, <2>5 DEF Return, Enter, Typed, Label
  <2>7. Counted'
    BY <2>3, <2>5 DEF Counted
  <2>8. Placed(w)'
    BY <2>1, <2>3, <2>5 DEF Return, Enter, Typed, Placed, Working
  <2>9. ASSUME NEW u \in Worker, u # w PROVE Placed(u)'
    <3>1. call'[u] = call[u] /\ pc'[u] = pc[u]
      BY <2>3, <2>9 DEF Return, Enter, Typed
    <3>2. pc[u] # "idle" => call[u] \in Call /\ call[u].job \in Job
                            /\ call[u].no \in Nat \ {0}
      BY DEF Placed, Call
    <3>3. Working(u) => /\ call[u].no \in 1..Len(attempt[call[u].job])
                        /\ <<call[u].job, call[u].no>> # <<j, no>>
      <4>1. Working(u) => call[u] # call[w]
        BY <2>1, <2>9 DEF OneCallerPerAttempt, Working
      <4>2. pc[u] # "idle" => (call[u].job = j /\ call[u].no = no => call[u] = call[w])
        BY <2>1, <3>2 DEF Placed, Call
      <4> QED
        BY <3>2, <4>1, <4>2 DEF Typed, Placed, Working
    <3> QED
      BY <2>3, <2>5, <3>1, <3>2, <3>3 DEF Placed, Working
  <2>10. OneCallerPerAttempt'
    BY <2>1, <2>3 DEF Return, Enter, Typed, OneCallerPerAttempt, Working
  <2> QED
    BY <2>6, <2>7, <2>8, <2>9, <2>10
<1>9. ASSUME NEW w \in Worker, FailJob(w) PROVE Inv'
  <2>1. Typed'
    BY <1>9 DEF FailJob, Return, leading, Typed, Label, JobStatus
  <2> QED
    BY <1>9, <2>1 DEF FailJob, Return, leading, Typed, Counted, Placed,
                      OneCallerPerAttempt, Working
<1> QED
  BY <1>1, <1>2, <1>3, <1>4, <1>5, <1>6, <1>7, <1>8, <1>9 DEF Next, Leadership

THEOREM IngestionInvariant == Spec => []Inv
<1>1. Init => Inv
  BY DEF Init, Inv, Typed, Counted, Placed, OneCallerPerAttempt, Working, Phase,
         JobStatus, Label
<1> QED
  BY <1>1, StepKeepsInv, PTL DEF Spec

-----------------------------------------------------------------------------
(* What Inv is for.                                                         *)

(* Every variable of the worker and of the engine keeps its type            *)
(* (ingestionEngine.ts:140-313, index.ts:20-142).                           *)
THEOREM TypeCorrect == Spec => []TypeOK
<1>1. Inv => TypeOK
  <2> SUFFICES ASSUME Inv PROVE TypeOK
    OBVIOUS
  <2>1. ASSUME NEW j \in Job
        PROVE  /\ DOMAIN attempt[j] \subseteq Nat \ {0}
               /\ \A n \in DOMAIN attempt[j] : attempt[j][n] \in Verdict
    <3>1. attempt[j] \in Seq(Verdict)
      BY DEF Inv, Typed
    <3> QED BY <3>1
  <2>2. \A w \in Worker : pc[w] # "idle" => call[w] \in Call
    BY DEF Inv, Placed
  <2> QED BY <2>1, <2>2 DEF Inv, Typed, TypeOK, Label
<1> QED BY <1>1, IngestionInvariant, PTL

(* No attempt has two calls that work at it, although its number was read   *)
(* without a lock (ingestionEngine.ts:147-163).                             *)
THEOREM AttemptsAreExclusive == Spec => []OneCallerPerAttempt
<1>1. Inv => OneCallerPerAttempt
  BY DEF Inv
<1> QED BY <1>1, IngestionInvariant, PTL

(* The counter of a job never falls back behind its attempts and never      *)
(* skips one (ingestionEngine.ts:178-185).                                  *)
THEOREM CounterIsFaithful == Spec => []CounterFollowsAttempts
<1>1. Inv => CounterFollowsAttempts
  <2> SUFFICES ASSUME Inv, NEW j \in Job
               PROVE  \/ DOMAIN attempt[j] = 1..attempts[j]
                      \/ DOMAIN attempt[j] = 1..(attempts[j] + 1)
    BY DEF CounterFollowsAttempts
  <2>1. attempt[j] \in Seq(Verdict)
    BY DEF Inv, Typed
  <2>2. DOMAIN attempt[j] = 1..Len(attempt[j])
    BY <2>1
  <2> QED BY <2>2 DEF Inv, Counted
<1> QED BY <1>1, IngestionInvariant, PTL

-----------------------------------------------------------------------------
(* The engine implements the attempt ledger.                                *)

(* A worker that has nothing to be unsure of, before and after its step.    *)
LEMMA NobodyUnsure ==
    ASSUME NEW w \in Worker, pc[w] # "unsure", pc'[w] # "unsure",
           \A v \in Worker \ {w} : pc'[v] = pc[v] /\ call'[v] = call[v]
    PROVE  Unsure' = Unsure
<1>1. \A v \in Worker : pc'[v] = "unsure" <=> pc[v] = "unsure"
  OBVIOUS
<1>2. \A v \in Worker : pc[v] = "unsure" => call'[v] = call[v]
  OBVIOUS
<1> QED BY <1>1, <1>2 DEF Unsure

(* The other workers' calls, while w's leaves what it was unsure of: no     *)
(* other call has its attempt.                                              *)
LEMMA SureNow ==
    ASSUME Inv, NEW w \in Worker, pc[w] = "unsure", pc'[w] # "unsure",
           \A v \in Worker \ {w} : pc'[v] = pc[v] /\ call'[v] = call[v]
    PROVE  Unsure' = Unsure \ {call[w]}
<1>1. \A v \in Worker : pc'[v] = "unsure" <=> v # w /\ pc[v] = "unsure"
  OBVIOUS
<1>2. \A v \in Worker : v # w /\ pc[v] = "unsure" =>
          call'[v] = call[v] /\ call[v] # call[w]
  BY DEF Inv, OneCallerPerAttempt, Working
<1> QED BY <1>1, <1>2 DEF Unsure

LEMMA CallIsNamed ==
    ASSUME NEW c \in Call
    PROVE  c = Ledger!Named(c.job, c.no)
BY DEF Call, Ledger!Named

LEMMA StepKeepsLedger == Inv /\ [Next]_vars => [Ledger!Next]_(Ledger!vars)
<1> SUFFICES ASSUME Inv, [Next]_vars PROVE [Ledger!Next]_(Ledger!vars)
  OBVIOUS
<1> USE DEF Ledger!vars
<1>0. /\ pc \in [Worker -> Label] /\ call \in [Worker -> Call \cup {<<>>}]
      /\ attempt \in [Job -> Seq(Verdict)] /\ attempts \in [Job -> Nat]
  BY DEF Inv, Typed
<1>1. CASE UNCHANGED vars
  BY <1>1 DEF vars, jobs, Unsure
<1>2. ASSUME NEW j \in Job, Enqueue(j) PROVE UNCHANGED Ledger!vars
  BY <1>2 DEF Enqueue, Unsure
<1>3. ASSUME NEW w \in Worker, Leadership(w) PROVE UNCHANGED Ledger!vars
  BY <1>3 DEF Leadership, Start, Acquire, DropSession, NoticeLoss, Shutdown,
              EndClient, jobs, Unsure
<1>4. ASSUME NEW w \in Worker, NEW j \in Job, ReadJob(w, j)
      PROVE  UNCHANGED Ledger!vars
  <2>1. /\ pc[w] = "idle" /\ pc'[w] = "read"
        /\ \A v \in Worker \ {w} : pc'[v] = pc[v] /\ call'[v] = call[v]
    BY <1>0, <1>4 DEF ReadJob
  <2> QED BY <1>4, <2>1, NobodyUnsure DEF ReadJob, jobs
<1>5. ASSUME NEW w \in Worker, InsertAttempt(w) PROVE [Ledger!Next]_(Ledger!vars)
  <2> DEFINE j == call[w].job
             no == call[w].no
  <2>1. /\ j \in Job /\ no \in Nat \ {0} /\ no <= attempts[j] + 1
        /\ UNCHANGED manifests
    BY <1>5 DEF InsertAttempt, Inv, Placed, Call
  <2>2. UNCHANGED Unsure
    <3>1. /\ pc[w] = "read" /\ pc'[w] \in {"idle", "attempting"}
          /\ \A v \in Worker \ {w} : pc'[v] = pc[v] /\ call'[v] = call[v]
      BY <1>0, <1>5 DEF InsertAttempt, Return, Enter
    <3> QED BY <3>1, NobodyUnsure
  <2>3. CASE no \in DOMAIN attempt[j]
    BY <1>5, <2>1, <2>2, <2>3 DEF InsertAttempt
  <2>4. CASE no \notin DOMAIN attempt[j]
    <3>1. attempt' = [attempt EXCEPT ![j] = WithRow(attempt[j], no)]
      BY <1>5, <2>4 DEF InsertAttempt, WithRow
    <3>2. /\ attempt[j] \in Seq(Verdict) /\ attempts[j] \in Nat
          /\ DOMAIN attempt[j] = 1..Len(attempt[j])
          /\ Len(attempt[j]) = attempts[j] \/ Len(attempt[j]) = attempts[j] + 1
      <4>1. attempt[j] \in Seq(Verdict) /\ attempts[j] \in Nat
        BY <1>0, <2>1
      <4>2. Len(attempt[j]) = attempts[j] \/ Len(attempt[j]) = attempts[j] + 1
        BY <2>1 DEF Inv, Counted
      <4> QED BY <4>1, <4>2
    <3>3. no = Len(attempt[j]) + 1
      <4>1. no \notin 1..Len(attempt[j])
        BY <2>4, <3>2
      <4> HIDE DEF no, j
      <4> QED BY <2>1, <3>2, <4>1
    <3>4. WithRow(attempt[j], no) = Append(attempt[j], "running")
      <4> HIDE DEF no, j
      <4> QED BY <3>2, <3>3, Opened
    <3>5. Ledger!Open(j)
      BY <2>1, <2>2, <3>1, <3>4 DEF Ledger!Open
    <3> QED
      BY <2>1, <3>5 DEF Ledger!Next
  <2> QED BY <2>3, <2>4
<1>6. ASSUME NEW w \in Worker, MarkRunning(w) \/ FailJob(w)
      PROVE  UNCHANGED Ledger!vars
  <2>1. /\ pc[w] \in {"attempting", "failing"} /\ pc'[w] \in {"working", "idle"}
        /\ \A v \in Worker \ {w} : pc'[v] = pc[v] /\ call'[v] = call[v]
    BY <1>0, <1>6 DEF MarkRunning, FailJob, Return, Enter
  <2> QED BY <1>6, <2>1, NobodyUnsure DEF MarkRunning, FailJob
<1>7. ASSUME NEW w \in Worker, Produce(w) \/ ProduceUntold(w) \/ FailAttempt(w)
      PROVE  Ledger!Next
  <2> DEFINE j == call[w].job
             no == call[w].no
  <2>1. /\ j \in Job /\ no \in DOMAIN attempt[j]
        /\ pc[w] = "working" => attempt[j][no] = "running"
        /\ call[w] = Ledger!Named(j, no)
    <3>1. pc[w] \in {"working", "unsure"}
      BY <1>7 DEF Produce, ProduceUntold, Store, FailAttempt
    <3>2. call[w] \in Call /\ j \in Job /\ no \in Nat \ {0} /\ no <= Len(attempt[j])
      BY <3>1 DEF Inv, Placed, Working, Call
    <3>3. attempt[j] \in Seq(Verdict)
      BY <1>0, <3>2
    <3>4. no \in DOMAIN attempt[j]
      BY <3>2, <3>3
    <3>5. pc[w] = "working" => attempt[j][no] = "running"
      BY DEF Inv, Placed
    <3> QED BY <3>2, <3>4, <3>5, CallIsNamed
  <2>2. \A v \in Worker \ {w} : pc'[v] = pc[v] /\ call'[v] = call[v]
    BY <1>0, <1>7 DEF Produce, ProduceUntold, FailAttempt, Return, Enter
  <2>3. CASE Produce(w) \/ ProduceUntold(w)
    <3>1. pc[w] = "working" /\ Store(w)
      BY <2>3 DEF Produce, ProduceUntold, Store
    <3>2. Unsure' \in {Unsure, Unsure \cup {call[w]}}
      <4>1. CASE Produce(w)
        <5>1. pc'[w] = "idle"
          BY <1>0, <4>1 DEF Produce, Return
        <5> QED BY <2>2, <3>1, <5>1, NobodyUnsure
      <4>2. CASE ProduceUntold(w)
        <5>1. pc' = [pc EXCEPT ![w] = "unsure"] /\ call' = call
          BY <4>2 DEF ProduceUntold, Enter
        <5>2. \A v \in Worker : pc'[v] = "unsure" <=> v = w \/ pc[v] = "unsure"
          BY <1>0, <5>1
        <5> QED BY <5>1, <5>2 DEF Unsure
      <4> QED BY <2>3, <4>1, <4>2
    <3>3. Ledger!Win(j)
      BY <2>1, <3>1, <3>2 DEF Store, Ledger!Win
    <3> QED BY <2>1, <3>3 DEF Ledger!Next
  <2>4. CASE FailAttempt(w)
    <3>1. pc[w] \in {"working", "unsure"} /\ pc'[w] = "failing"
      BY <1>0, <2>4 DEF FailAttempt, Enter
    <3>2. Unsure' = Unsure \ {call[w]}
      <4>1. CASE pc[w] = "unsure"
        BY <2>2, <3>1, <4>1, SureNow
      <4>2. CASE pc[w] = "working"
        <5>1. Unsure' = Unsure
          BY <2>2, <3>1, <4>2, NobodyUnsure
        <5>2. call[w] \notin Unsure
          BY <4>2 DEF Unsure, Inv, OneCallerPerAttempt, Working
        <5> QED BY <5>1, <5>2
      <4> QED BY <3>1, <4>1, <4>2
    <3>3. attempt[j][no] = "running" \/ call[w] \in Unsure
      BY <2>1, <3>1 DEF Unsure
    <3>4. Ledger!Lose(j)
      BY <2>1, <2>4, <3>2, <3>3 DEF FailAttempt, Ledger!Lose
    <3> QED BY <2>1, <3>4 DEF Ledger!Next
  <2> QED BY <1>7, <2>3, <2>4
<1>8. ASSUME NEW w \in Worker, Exit(w) \/ Throw(w)
      PROVE  [Ledger!Next]_(Ledger!vars)
  <2> DEFINE j == call[w].job
             no == call[w].no
  <2>1. /\ UNCHANGED <<attempt, manifests>> /\ pc'[w] = "idle"
        /\ \A v \in Worker \ {w} : pc'[v] = pc[v] /\ call'[v] = call[v]
    BY <1>0, <1>8 DEF Exit, Throw, Return, jobs
  <2>2. CASE pc[w] # "unsure"
    BY <2>1, <2>2, NobodyUnsure
  <2>3. CASE pc[w] = "unsure"
    <3>1. call[w] \in Call /\ j \in Job /\ no \in Nat \ {0} /\ no <= Len(attempt[j])
      BY <2>3 DEF Inv, Placed, Working, Call
    <3>2. attempt[j] \in Seq(Verdict)
      BY <1>0, <3>1
    <3>3. no \in DOMAIN attempt[j]
      BY <3>1, <3>2
    <3>4. Unsure' = Unsure \ {Ledger!Named(j, no)}
      BY <2>1, <2>3, <3>1, CallIsNamed, SureNow
    <3>5. Ledger!Leave(j)
      BY <2>1, <3>3, <3>4 DEF Ledger!Leave
    <3> QED BY <3>1, <3>5 DEF Ledger!Next
  <2> QED BY <2>2, <2>3
<1> QED
  BY <1>1, <1>2, <1>3, <1>4, <1>5, <1>6, <1>7, <1>8 DEF Next, Leadership

(* Whatever workers do to each other, the attempts at a job and its         *)
(* products are those of AttemptLedger: appended, decided once, one product *)
(* for each success (ingestionEngine.ts:178-311); a success is written over *)
(* only by a caller that was not told of it.                                *)
THEOREM EngineKeepsLedger == Spec => LedgerKept
<1>1. Init => Ledger!Init
  BY DEF Init, Ledger!Init, Unsure
<1>2. QED
  BY <1>1, StepKeepsLedger, IngestionInvariant, PTL DEF Spec, LedgerKept, Ledger!Spec

-----------------------------------------------------------------------------
(* What the lock adds.                                                      *)

LEMMA StepKeepsGuarded == Inv /\ Guarded /\ [Next]_vars => Guarded'
<1> SUFFICES ASSUME Inv, Guarded, [Next]_vars, NEW j \in Job, ~disturbed'[j]
             PROVE  /\ \A w \in Worker : At(w, j)' => holder' = w
                    /\ status'[j] = "succeeded" =>
                           manifests'[j] > 0 /\ \A w \in Worker : ~At(w, j)'
  BY DEF Guarded
<1>0. /\ NoWorker \notin Worker
      /\ disturbed \in [Job -> BOOLEAN] /\ pc \in [Worker -> Label]
      /\ call \in [Worker -> Call \cup {<<>>}] /\ status \in [Job -> JobStatus]
      /\ manifests \in [Job -> Nat]
  BY IngestionAssumption DEF Inv, Typed
<1>1. ~disturbed[j]
  BY <1>0 DEF Next, vars, jobs, leading, Enqueue, Start, Acquire, DropSession,
         NoticeLoss, Shutdown, EndClient, Exit, ReadJob, InsertAttempt,
         MarkRunning, Produce, ProduceUntold, FailAttempt, FailJob, Throw, LockGoes
<1>2. /\ \A w \in Worker : At(w, j) => holder = w
      /\ status[j] = "succeeded" =>
             manifests[j] > 0 /\ \A w \in Worker : ~At(w, j)
  BY <1>1 DEF Guarded
<1>3. CASE UNCHANGED vars
  BY <1>2, <1>3 DEF vars, jobs, leading, At
<1> DEFINE Goal == /\ \A w \in Worker : At(w, j)' => holder' = w
                   /\ status'[j] = "succeeded" =>
                          manifests'[j] > 0 /\ \A w \in Worker : ~At(w, j)'
<1>4. ASSUME NEW i \in Job, Enqueue(i) PROVE Goal
  BY <1>0, <1>2, <1>4 DEF Enqueue, leading, At
<1>5. ASSUME NEW w \in Worker, Start(w) \/ NoticeLoss(w) \/ EndClient(w) PROVE Goal
  BY <1>2, <1>5 DEF Start, NoticeLoss, EndClient, jobs, At
<1>6. ASSUME NEW w \in Worker, Acquire(w) PROVE Goal
  BY <1>0, <1>2, <1>6 DEF Acquire, jobs, At
<1>7. ASSUME NEW w \in Worker, DropSession(w) \/ Shutdown(w) PROVE Goal
  <2>1. UNCHANGED <<jobs, pc, call>> /\ (holder' = holder \/ LockGoes(w))
    BY <1>7 DEF DropSession, Shutdown
  <2>2. LockGoes(w) => ~At(w, j) /\ (holder' = IF holder = w THEN NoWorker ELSE holder)
    BY DEF LockGoes, At
  <2> QED BY <1>2, <2>1, <2>2 DEF jobs, At
<1>8. ASSUME NEW w \in Worker, Exit(w) \/ Throw(w) PROVE Goal
  BY <1>0, <1>2, <1>8 DEF Exit, Throw, Return, jobs, leading, At
<1>9. ASSUME NEW w \in Worker, NEW i \in Job, ReadJob(w, i) PROVE Goal
  <2>1. /\ UNCHANGED <<jobs, holder>>
        /\ \A v \in Worker : v # w => pc'[v] = pc[v] /\ call'[v] = call[v]
        /\ call'[w].job = i
        /\ ~(status[i] = "succeeded" /\ manifests[i] > 0)
        /\ i = j => holder = w
    BY <1>0, <1>9 DEF ReadJob
  <2> QED BY <1>2, <2>1 DEF jobs, At
<1>10. ASSUME NEW w \in Worker, InsertAttempt(w) \/ FailAttempt(w) PROVE Goal
  <2>1. /\ UNCHANGED <<status, manifests, holder>>
        /\ \A v \in Worker : At(v, j)' => At(v, j)
    BY <1>0, <1>10 DEF InsertAttempt, FailAttempt, Enter, Return, leading, At
  <2> QED BY <1>2, <2>1
<1>11. ASSUME NEW w \in Worker, MarkRunning(w) \/ FailJob(w) PROVE Goal
  <2>1. /\ UNCHANGED <<manifests, holder>>
        /\ \A v \in Worker : At(v, j)' => At(v, j)
        /\ status'[j] = "succeeded" => status[j] = "succeeded"
    BY <1>0, <1>11 DEF MarkRunning, FailJob, Enter, Return, leading, At
  <2> QED BY <1>2, <2>1
<1>12. ASSUME NEW w \in Worker, Produce(w) PROVE Goal
  <2>1. /\ UNCHANGED holder
        /\ \A v \in Worker : At(v, j)' => v # w /\ At(v, j)
        /\ pc[w] # "idle"
    BY <1>0, <1>12 DEF Produce, Store, Return, leading, At
  <2>2. CASE call[w].job = j
    <3>1. \A v \in Worker : ~At(v, j)'
      BY <1>2, <2>1, <2>2 DEF At
    <3>2. manifests'[j] > 0
      BY <1>0, <1>12, <2>2 DEF Produce, Store
    <3> QED BY <3>1, <3>2
  <2>3. CASE call[w].job # j
    <3>1. manifests'[j] = manifests[j] /\ status'[j] = status[j]
      BY <1>0, <1>12, <2>3 DEF Produce, Store
    <3> QED BY <1>2, <2>1, <3>1
  <2> QED BY <2>2, <2>3
<1>13. ASSUME NEW w \in Worker, ProduceUntold(w) PROVE Goal
  <2>1. call[w].job # j \/ call[w].job \notin Job
    BY <1>0, <1>13 DEF ProduceUntold
  <2>2. pc[w] = "working" /\ call[w].job \in Job
    BY <1>13 DEF ProduceUntold, Store, Inv, Placed, Call
  <2>3. /\ UNCHANGED holder
        /\ manifests'[j] = manifests[j] /\ status'[j] = status[j]
    BY <1>0, <1>13, <2>1, <2>2 DEF ProduceUntold, Store
  <2>4. \A v \in Worker : At(v, j)' => At(v, j)
    BY <1>0, <1>13, <2>2 DEF ProduceUntold, Enter, At
  <2> QED BY <1>2, <2>3, <2>4
<1> QED
  BY <1>3, <1>4, <1>5, <1>6, <1>7, <1>8, <1>9, <1>10, <1>11, <1>12, <1>13 DEF Next

(* Under the lock, and where its caller was told of it, a success stays,    *)
(* and stays the only one (ingestionEngine.ts:165-176, ingestLock.ts:5-7).  *)
THEOREM SuccessStays == Spec => SuccessStaysUnderLock
<1> DEFINE Kept == \A j \in Job : status[j] = "succeeded" =>
                       \/ status'[j] = "succeeded" /\ manifests'[j] = manifests[j]
                       \/ disturbed[j]
<1>1. Init => Guarded
  BY DEF Init, Guarded, At
<1>2. Inv /\ Guarded /\ [Next]_vars => [Kept]_vars
  <2> SUFFICES ASSUME Inv, Guarded, Next, NEW j \in Job,
                      status[j] = "succeeded", ~disturbed[j]
               PROVE  status'[j] = "succeeded" /\ manifests'[j] = manifests[j]
    OBVIOUS
  <2>1. \A w \in Worker : pc[w] # "idle" => call[w].job # j /\ call[w].job \in Job
    BY DEF Guarded, At, Inv, Placed, Call
  <2>2. status \in [Job -> JobStatus] /\ manifests \in [Job -> Nat]
    BY DEF Inv, Typed
  <2>3. CASE \E i \in Job : Enqueue(i)
    BY <2>2, <2>3 DEF Enqueue
  <2>4. CASE \E w \in Worker : MarkRunning(w) \/ Store(w) \/ FailJob(w)
    BY <2>1, <2>2, <2>4 DEF MarkRunning, Store, FailJob
  <2>5. CASE UNCHANGED <<status, manifests>>
    BY <2>5
  <2> QED
    BY <2>3, <2>4, <2>5 DEF Next, Start, Acquire, DropSession, NoticeLoss,
       Shutdown, EndClient, Exit, ReadJob, InsertAttempt, Produce,
       ProduceUntold, FailAttempt, Throw, jobs
<1>3. Spec => []Guarded
  BY <1>1, StepKeepsGuarded, IngestionInvariant, PTL DEF Spec
<1> QED
  BY <1>2, <1>3, IngestionInvariant, PTL DEF Spec, SuccessStaysUnderLock
=============================================================================
