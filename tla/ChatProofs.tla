------------------------------ MODULE ChatProofs ------------------------------
(***************************************************************************)
(* Proofs about ChatTurn, for any number of requests, domains and           *)
(* configured models and any budget.                                        *)
(*                                                                         *)
(* Two things carry them.  The numbers of the committed messages have no    *)
(* gap, so the first number an insert can win is always the next one: the   *)
(* turn that holds it is the only one with rows, until it ends.  And the    *)
(* turn writes what it has been told by a domain before it does anything    *)
(* else, and asks no answer of that domain again: its last call cannot take *)
(* back a rate limit it has met.  Only the clock can, and the topical       *)
(* assessor looks at the row before it calls.                               *)
(***************************************************************************)
EXTENDS ChatTurn, TLAPS

Attempt == [entry : Entry, outcome : Outcome]
Status == {"none", "answered", "composed", "abstained", "failed"}
Label == Ended \cup {"idle", "linking", "numbering", "inserting",
                     "planning", "calling", "tripping", "closing", "committing"}

Asked(k) == [ordinal |-> k, role |-> "user", answers |-> k]
Answered(k, q) == [ordinal |-> k, role |-> "assistant", answers |-> q]

InTurn == {"planning", "calling", "tripping", "closing", "numbering", "inserting"}

(* What a turn at p has of its own, n being the last committed number: no   *)
(* row, its question, or what it is about to commit.  The number it has     *)
(* read is not beyond the next one it may have.                             *)
PlacedAs(n, p, q, m, o, s) ==
    /\ \/ o = {} /\ p # "committing"
       \/ /\ o = {Asked(n + 1)} /\ q = n + 1 /\ p \in InTurn
          /\ p \in {"numbering", "inserting"} => s # "none"
       \/ /\ p = "committing"
          /\ \/ o = {Asked(n + 1), Answered(n + 2, n + 1)}
             \/ \E k \in Nat : o = {Answered(n + 1, k)}
    /\ p = "inserting" =>
           IF o = {} THEN m \in 1..(n + 1) ELSE m = n + 2

Placed(n, r) == PlacedAs(n, pc[r], question[r], number[r], own[r], status[r])

Numbered(n) == Ordinals(messages) = 1..n

Numbering == \E n \in Nat : Numbered(n) /\ \A r \in Request : Placed(n, r)

(* retryLastTurn's "last question" is one.                                  *)
LastQuestion ==
    Questions # {} =>
        \E q \in Ordinals(Questions) : \A k \in Ordinals(Questions) : q >= k

OneHolder == \A r, s \in Request : r # s => own[r] = {} \/ own[s] = {}

TrippedIn(a) == {a[i].entry.domain : i \in {j \in 1..Len(a) : a[j].outcome \in Limit}}

(* A turn at p that has made the calls a has written w.                     *)
LimitsKept(p, a, w) ==
    /\ p \in {"tripping", "closing"} => Len(a) # 0
    /\ p = "tripping" => a[Len(a)].outcome \in Limit
    /\ p = "closing" => a[Len(a)].entry.domain \notin TrippedIn(a)
    /\ p \notin Ended =>
           \A d \in TrippedIn(a) :
               w[d] \in Open \/ (p = "tripping" /\ d = a[Len(a)].entry.domain)

(* The assessor is called last, and what it is called through is open to it.*)
AsidesKept(p, a, w, e) ==
    \A c \in e : c.stage = "assessing" =>
        p = "committing" /\ (c.domain \in TrippedIn(a) => w[c.domain] = "expired")

NeverAgain(a) ==
    \A i, k \in 1..Len(a) :
        i < k /\ a[i].outcome \in Limit => a[k].entry.domain # a[i].entry.domain

Inv ==
    /\ TypeOK
    /\ Numbering
    /\ LastQuestion
    /\ OneHolder
    /\ AnsweredNext
    /\ \A r \in Request : LimitsKept(pc[r], modelAttempts[r], wrote[r])
    /\ \A r \in Request : NeverAgain(modelAttempts[r])
    /\ \A r \in Request : AsidesKept(pc[r], modelAttempts[r], wrote[r], asides[r])

-----------------------------------------------------------------------------
LEMMA TrippedIsTrippedIn ==
    ASSUME NEW r \in Request, TypeOK
    PROVE  Tripped(r) = TrippedIn(modelAttempts[r])
<1>1. DOMAIN modelAttempts[r] = 1..Len(modelAttempts[r])
  BY DEF TypeOK
<1> QED BY <1>1 DEF Tripped, TrippedIn, ToSet

LEMMA TrippedAreDomains ==
    ASSUME NEW a \in Seq(Attempt)
    PROVE  TrippedIn(a) \subseteq Domain
<1>1. ASSUME NEW i \in 1..Len(a) PROVE a[i].entry.domain \in Domain
  <2>1. a[i] \in Attempt
    OBVIOUS
  <2> QED BY <2>1 DEF Attempt, Entry
<1> QED BY <1>1 DEF TrippedIn

LEMMA ShieldedWhenKept == Inv => TrippedIsShielded
<1> SUFFICES ASSUME Inv, NEW r \in Request
             PROVE  /\ NeverAgain(modelAttempts[r])
                    /\ \A c \in asides[r] :
                        c.stage = "assessing" /\ c.domain \in Tripped(r) =>
                            wrote[r][c.domain] = "expired"
  BY DEF TrippedIsShielded, NeverAgain
<1>1. Tripped(r) = TrippedIn(modelAttempts[r])
  BY TrippedIsTrippedIn DEF Inv
<1> QED BY <1>1 DEF Inv, AsidesKept

(* What a variable is and what a step leaves of it, turn by turn.           *)
LEMMA TurnTyped ==
    ASSUME TypeOK, NEW r \in Request
    PROVE  /\ pc[r] \in Label /\ question[r] \in Nat /\ number[r] \in Nat
           /\ own[r] \in SUBSET Row /\ wrote[r] \in [Domain -> BreakerState]
           /\ chain[r] \in SUBSET Position /\ modelAttempts[r] \in Seq(Attempt)
           /\ Len(modelAttempts[r]) <= MaxAttempts /\ status[r] \in Status /\ asides[r] \in SUBSET Aside
           /\ pc = [pc EXCEPT ![r] = pc[r]]
           /\ question = [question EXCEPT ![r] = question[r]]
           /\ number = [number EXCEPT ![r] = number[r]]
           /\ own = [own EXCEPT ![r] = own[r]]
           /\ wrote = [wrote EXCEPT ![r] = wrote[r]]
           /\ chain = [chain EXCEPT ![r] = chain[r]]
           /\ modelAttempts = [modelAttempts EXCEPT ![r] = modelAttempts[r]]
           /\ status = [status EXCEPT ![r] = status[r]]
           /\ asides = [asides EXCEPT ![r] = asides[r]]
<1>1. /\ pc \in [Request -> Label] /\ question \in [Request -> Nat]
      /\ number \in [Request -> Nat] /\ own \in [Request -> SUBSET Row]
  BY DEF TypeOK, Label
<1>2. /\ wrote \in [Request -> [Domain -> BreakerState]]
      /\ chain \in [Request -> SUBSET Position]
      /\ modelAttempts \in [Request -> Seq(Attempt)]
      /\ Len(modelAttempts[r]) <= MaxAttempts /\ status \in [Request -> Status]
      /\ asides \in [Request -> SUBSET Aside]
  BY DEF TypeOK, Attempt, Status
<1>3. /\ pc = [pc EXCEPT ![r] = pc[r]]
      /\ question = [question EXCEPT ![r] = question[r]]
      /\ number = [number EXCEPT ![r] = number[r]]
      /\ own = [own EXCEPT ![r] = own[r]]
  BY <1>1
<1>4. /\ wrote = [wrote EXCEPT ![r] = wrote[r]]
      /\ chain = [chain EXCEPT ![r] = chain[r]]
      /\ modelAttempts = [modelAttempts EXCEPT ![r] = modelAttempts[r]]
      /\ status = [status EXCEPT ![r] = status[r]]
      /\ asides = [asides EXCEPT ![r] = asides[r]]
  BY <1>2
<1> QED BY <1>1, <1>2, <1>3, <1>4

(* A step of one turn, nothing being committed: Inv is kept if the turn is  *)
(* well placed where it arrives, and if it takes its first row while no     *)
(* other turn has one.                                                      *)
LEMMA ATurnMoves ==
    ASSUME Inv, NEW r \in Request, UNCHANGED database,
           NEW p \in Label, NEW q \in Nat, NEW m \in Nat, NEW o \in SUBSET Row,
           NEW w \in [Domain -> BreakerState], NEW c \in SUBSET Position,
           NEW a \in Seq(Attempt), Len(a) <= MaxAttempts, NEW s \in Status,
           NEW e \in SUBSET Aside,
           pc' = [pc EXCEPT ![r] = p],
           question' = [question EXCEPT ![r] = q],
           number' = [number EXCEPT ![r] = m],
           own' = [own EXCEPT ![r] = o],
           wrote' = [wrote EXCEPT ![r] = w],
           chain' = [chain EXCEPT ![r] = c],
           modelAttempts' = [modelAttempts EXCEPT ![r] = a],
           asides' = [asides EXCEPT ![r] = e],
           status' = [status EXCEPT ![r] = s],
           \A n \in Nat : Numbered(n) /\ Placed(n, r) => PlacedAs(n, p, q, m, o, s),
           \/ o = {} \/ own[r] # {}
           \/ \A x \in Request \ {r} : own[x] = {},
           LimitsKept(p, a, w), NeverAgain(a),
           \/ pc[r] # "committing" /\ e \subseteq asides[r]
           \/ AsidesKept(p, a, w, e)
    PROVE  Inv'
<1> USE DEF Inv
<1>1. /\ pc \in [Request -> Label] /\ question \in [Request -> Nat]
      /\ number \in [Request -> Nat] /\ own \in [Request -> SUBSET Row]
  BY DEF TypeOK, Label
<1>2. /\ wrote \in [Request -> [Domain -> BreakerState]]
      /\ chain \in [Request -> SUBSET Position]
      /\ modelAttempts \in [Request -> Seq(Attempt)]
      /\ \A x \in Request : Len(modelAttempts[x]) <= MaxAttempts
      /\ status \in [Request -> Status] /\ asides \in [Request -> SUBSET Aside]
  BY DEF TypeOK, Attempt, Status
<1>3. /\ pc' \in [Request -> Label] /\ question' \in [Request -> Nat]
      /\ number' \in [Request -> Nat] /\ own' \in [Request -> SUBSET Row]
  BY <1>1
<1>4. /\ wrote' \in [Request -> [Domain -> BreakerState]]
      /\ chain' \in [Request -> SUBSET Position]
      /\ modelAttempts' \in [Request -> Seq(Attempt)]
      /\ status' \in [Request -> Status] /\ asides' \in [Request -> SUBSET Aside]
  BY <1>2
<1>5. /\ pc'[r] = p /\ question'[r] = q /\ number'[r] = m /\ own'[r] = o
      /\ wrote'[r] = w /\ modelAttempts'[r] = a /\ status'[r] = s
      /\ asides'[r] = e
  BY <1>1, <1>2
<1>6. ASSUME NEW x \in Request \ {r}
      PROVE  /\ pc'[x] = pc[x] /\ question'[x] = question[x]
             /\ number'[x] = number[x] /\ own'[x] = own[x] /\ wrote'[x] = wrote[x]
             /\ modelAttempts'[x] = modelAttempts[x] /\ status'[x] = status[x]
             /\ asides'[x] = asides[x]
  BY <1>1, <1>2
<1>7. messages' = messages /\ breaker' = breaker
  BY DEF database
<1>8. TypeOK'
  <2>1. \A x \in Request : Len(modelAttempts'[x]) <= MaxAttempts
    BY <1>2, <1>5, <1>6
  <2>2. messages' \subseteq Row /\ breaker' \in [Domain -> BreakerState]
    BY <1>7 DEF TypeOK
  <2> QED BY <1>3, <1>4, <2>1, <2>2 DEF TypeOK, Label, Attempt, Status
<1>9. Numbering'
  <2>1. PICK n \in Nat : Numbered(n) /\ \A x \in Request : Placed(n, x)
    BY DEF Numbering
  <2>2. Numbered(n)'
    BY <1>7, <2>1 DEF Numbered, Ordinals
  <2>3. Placed(n, r)'
    BY <1>5, <2>1 DEF Placed
  <2>4. ASSUME NEW x \in Request \ {r} PROVE Placed(n, x)'
    <3>1. Placed(n, x)
      BY <2>1
    <3> QED BY <1>6, <3>1 DEF Placed
  <2> QED BY <2>2, <2>3, <2>4 DEF Numbering
<1>10. LastQuestion' /\ AnsweredNext'
  BY <1>7 DEF LastQuestion, AnsweredNext, Questions, Ordinals
<1>11. OneHolder'
  BY <1>5, <1>6 DEF OneHolder
<1>12. \A x \in Request : LimitsKept(pc[x], modelAttempts[x], wrote[x])'
  <2>1. ASSUME NEW x \in Request \ {r}
        PROVE  LimitsKept(pc'[x], modelAttempts'[x], wrote'[x])
    <3>1. LimitsKept(pc[x], modelAttempts[x], wrote[x])
      OBVIOUS
    <3> QED BY <1>6, <3>1
  <2>2. LimitsKept(pc'[r], modelAttempts'[r], wrote'[r])
    BY <1>5
  <2> QED BY <2>1, <2>2 DEF LimitsKept
<1>13. \A x \in Request : NeverAgain(modelAttempts[x])'
  <2>1. \A x \in Request : NeverAgain(modelAttempts'[x])
    BY <1>5, <1>6
  <2> QED BY <2>1 DEF NeverAgain
<1>14. \A x \in Request : AsidesKept(pc[x], modelAttempts[x], wrote[x], asides[x])'
  <2>1. ASSUME NEW x \in Request \ {r}
        PROVE  AsidesKept(pc'[x], modelAttempts'[x], wrote'[x], asides'[x])
    <3>1. AsidesKept(pc[x], modelAttempts[x], wrote[x], asides[x])
      OBVIOUS
    <3> QED BY <1>6, <3>1
  <2>2. AsidesKept(p, a, w, e)
    <3>1. ASSUME pc[r] # "committing", e \subseteq asides[r]
          PROVE  \A x \in e : x.stage # "assessing"
      BY <3>1 DEF AsidesKept
    <3> QED BY <3>1 DEF AsidesKept
  <2>3. AsidesKept(pc'[r], modelAttempts'[r], wrote'[r], asides'[r])
    BY <1>5, <2>2
  <2> QED BY <2>1, <2>3 DEF AsidesKept
<1> QED BY <1>8, <1>9, <1>10, <1>11, <1>12, <1>13, <1>14

LEMMA InitInv == Init => Inv
<1> SUFFICES ASSUME Init PROVE Inv
  OBVIOUS
<1>1. MaxAttempts \in Nat
  BY ChatAssumption
<1>2. TypeOK
  <2>1. messages \subseteq Row
    BY DEF Init, OldTurn, Row
  <2>2. breaker \in [Domain -> BreakerState] /\ Clean \in [Domain -> BreakerState]
    BY DEF Init, Clean, BreakerState
  <2>3. wrote \in [Request -> [Domain -> BreakerState]]
    BY <2>2 DEF Init
  <2>4. modelAttempts \in [Request -> Seq([entry : Entry, outcome : Outcome])]
    BY DEF Init
  <2>5. \A r \in Request : Len(modelAttempts[r]) <= MaxAttempts
    BY <1>1 DEF Init
  <2> QED BY <2>1, <2>2, <2>3, <2>4, <2>5 DEF Init, TypeOK
<1>3. Numbering
  <2>1. ASSUME NEW n \in Nat, NEW r \in Request PROVE Placed(n, r)
    BY DEF Init, Placed, PlacedAs
  <2>2. Numbered(0) \/ Numbered(2)
    <3>1. 1..0 = {} /\ 1..2 = {1, 2}
      OBVIOUS
    <3>2. CASE messages = {}
      BY <3>1, <3>2 DEF Numbered, Ordinals
    <3>3. CASE messages = OldTurn
      <4>1. Ordinals(messages) = {1, 2}
        BY <3>3 DEF Ordinals, OldTurn
      <4> QED BY <3>1, <4>1 DEF Numbered
    <3> QED BY <3>2, <3>3 DEF Init
  <2> QED BY <2>1, <2>2 DEF Numbering
<1>4. LastQuestion
  <2>1. \A k \in Ordinals(Questions) : k = 1
    BY DEF Init, Questions, Ordinals, OldTurn
  <2> QED BY <2>1 DEF LastQuestion, Ordinals
<1>5. OneHolder /\ AnsweredNext
  BY DEF Init, OneHolder, AnsweredNext, Questions, OldTurn
<1>6. \A r \in Request : LimitsKept(pc[r], modelAttempts[r], wrote[r])
  BY DEF Init, LimitsKept, TrippedIn
<1>7. \A r \in Request : NeverAgain(modelAttempts[r])
  BY DEF Init, NeverAgain
<1>8. \A r \in Request : AsidesKept(pc[r], modelAttempts[r], wrote[r], asides[r])
  BY DEF Init, AsidesKept
<1> QED BY <1>2, <1>3, <1>4, <1>5, <1>6, <1>7, <1>8 DEF Inv

(* max(ordinal) + 1, for a turn that may see rows of its own.               *)
LEMMA NextNumber ==
    ASSUME NEW n \in Nat, NEW S \in SUBSET Nat, S = 1..n
    PROVE  Max({0} \cup S) = n
<1> DEFINE T == {0} \cup S
<1>1. n \in T /\ \A y \in T : y \in Nat /\ n >= y
  OBVIOUS
<1>2. Max(T) \in T /\ \A y \in T : Max(T) >= y
  <2> HIDE DEF T
  <2> QED BY <1>1 DEF Max
<1> HIDE DEF T
<1>3. Max(T) = n
  <2> DEFINE m == Max(T)
  <2>1. m \in Nat /\ n >= m /\ m >= n
    <3> HIDE DEF m
    <3>1. m \in T /\ \A y \in T : m >= y
      BY <1>2 DEF m
    <3> QED BY <1>1, <3>1
  <2> HIDE DEF m
  <2>2. m = n
    BY <2>1
  <2> QED BY <2>2 DEF m
<1> QED BY <1>3 DEF T

-----------------------------------------------------------------------------
(* A turn that is lost, refused or has committed is where nothing is asked. *)
LEMMA DropKeepsInv ==
    ASSUME Inv, NEW r \in Request, NEW end \in Ended, end # "committed",
           Drop(r, end),
           UNCHANGED <<database, question, modelAttempts, status>>
    PROVE  Inv'
<1>1. TypeOK
  BY DEF Inv
<1>2. /\ question' = [question EXCEPT ![r] = question[r]]
      /\ modelAttempts' = [modelAttempts EXCEPT ![r] = modelAttempts[r]]
      /\ status' = [status EXCEPT ![r] = status[r]]
  BY <1>1, TurnTyped
<1>3. /\ pc' = [pc EXCEPT ![r] = end] /\ own' = [own EXCEPT ![r] = {}]
      /\ wrote' = [wrote EXCEPT ![r] = Clean] /\ number' = [number EXCEPT ![r] = 0]
      /\ chain' = [chain EXCEPT ![r] = {}] /\ asides' = [asides EXCEPT ![r] = {}]
      /\ UNCHANGED database
  BY DEF Drop, Goto
<1>4. /\ end \in Label /\ 0 \in Nat /\ {} \in SUBSET Row /\ {} \in SUBSET Position
      /\ Clean \in [Domain -> BreakerState] /\ {} \in SUBSET Aside
  BY DEF Label, Clean, BreakerState
<1>5. \A n \in Nat : PlacedAs(n, end, question[r], 0, {}, status[r])
  BY DEF PlacedAs, Ended
<1>6. /\ LimitsKept(end, modelAttempts[r], Clean)
      /\ NeverAgain(modelAttempts[r])
  BY DEF Inv, LimitsKept, Ended
<1>7. AsidesKept(end, modelAttempts[r], Clean, {})
  BY DEF AsidesKept
<1> QED BY <1>1, <1>2, <1>3, <1>4, <1>5, <1>6, <1>7, TurnTyped, ATurnMoves

(* Beginning a turn, linking the question again and reading a number.       *)
LEMMA BeginKeepsInv ==
    ASSUME Inv, NEW r \in Request,
           Post(r) \/ Retry(r) \/ Link(r) \/ ReadOrdinal(r)
    PROVE  Inv'
<1>1. TypeOK /\ LimitsKept(pc[r], modelAttempts[r], wrote[r])
      /\ NeverAgain(modelAttempts[r])
  BY DEF Inv
<1>2. /\ question[r] \in Nat /\ number[r] \in Nat /\ own[r] \in SUBSET Row
      /\ wrote[r] \in [Domain -> BreakerState] /\ chain[r] \in SUBSET Position
      /\ modelAttempts[r] \in Seq(Attempt) /\ Len(modelAttempts[r]) <= MaxAttempts
      /\ status[r] \in Status /\ asides[r] \in SUBSET Aside
      /\ question = [question EXCEPT ![r] = question[r]]
      /\ number = [number EXCEPT ![r] = number[r]]
      /\ own = [own EXCEPT ![r] = own[r]]
      /\ wrote = [wrote EXCEPT ![r] = wrote[r]]
      /\ chain = [chain EXCEPT ![r] = chain[r]]
      /\ modelAttempts = [modelAttempts EXCEPT ![r] = modelAttempts[r]]
      /\ status = [status EXCEPT ![r] = status[r]]
      /\ asides = [asides EXCEPT ![r] = asides[r]]
  BY <1>1, TurnTyped
<1>3. /\ "numbering" \in Label /\ "linking" \in Label /\ "refused" \in Label
      /\ "planning" \in Label /\ "inserting" \in Label
  BY DEF Label, Ended
<1>4. pc[r] \in {"idle", "linking", "numbering"} =>
          \A p \in {"numbering", "linking", "refused", "planning", "inserting"} :
              LimitsKept(p, modelAttempts[r], wrote[r])
  BY <1>1 DEF LimitsKept, Ended
<1>5. CASE Post(r)
  <2>1. /\ pc[r] = "idle" /\ pc' = [pc EXCEPT ![r] = "numbering"]
        /\ UNCHANGED <<database, question, number, own, wrote, chain, modelAttempts, asides, status>>
    BY <1>5 DEF Post, Goto
  <2>2. \A n \in Nat : Placed(n, r) =>
            PlacedAs(n, "numbering", question[r], number[r], own[r], status[r])
    BY <2>1 DEF Placed, PlacedAs, InTurn
  <2> QED BY <1>1, <1>2, <1>3, <1>4, <2>1, <2>2, ATurnMoves
<1>6. CASE Retry(r)
  <2>1. pc[r] = "idle"
        /\ UNCHANGED <<database, number, own, wrote, chain, modelAttempts, asides, status>>
    BY <1>6 DEF Retry
  <2>2. \A n \in Nat, p \in {"refused", "linking"}, q \in Nat : Placed(n, r) =>
            PlacedAs(n, p, q, number[r], own[r], status[r])
    BY <2>1 DEF Placed, PlacedAs, InTurn
  <2>3. CASE Questions = {}
    <3>1. pc' = [pc EXCEPT ![r] = "refused"] /\ UNCHANGED question
      BY <1>6, <2>3 DEF Retry, Goto
    <3> QED BY <1>1, <1>2, <1>3, <1>4, <2>1, <2>2, <3>1, ATurnMoves
  <2>4. CASE Questions # {}
    <3> DEFINE q == Max(Ordinals(Questions))
    <3>1. /\ pc' = [pc EXCEPT ![r] = "linking"]
          /\ question' = [question EXCEPT ![r] = q]
      BY <1>6, <2>4 DEF Retry, Goto
    <3>2. q \in Ordinals(Questions)
      <4>1. \E x \in Ordinals(Questions) : \A k \in Ordinals(Questions) : x >= k
        BY <2>4 DEF Inv, LastQuestion
      <4> QED BY <4>1 DEF Max
    <3> HIDE DEF q
    <3>3. q \in Nat
      <4>1. messages \subseteq Row
        BY <1>1 DEF TypeOK
      <4>2. \A x \in Ordinals(Questions) : x \in Nat
        BY <4>1 DEF Ordinals, Questions, Row
      <4> QED BY <3>2, <4>2
    <3>4. \A n \in Nat : Placed(n, r) =>
              PlacedAs(n, "linking", q, number[r], own[r], status[r])
      BY <2>2, <3>3
    <3>5. LimitsKept("linking", modelAttempts[r], wrote[r])
      BY <1>4, <2>1
    <3> QED BY <3>4, <3>5, <1>1, <1>2, <1>3, <1>4, <2>1, <2>2, <3>1, <3>3, ATurnMoves
  <2> QED BY <2>3, <2>4
<1>7. CASE Link(r)
  <2>1. /\ pc[r] = "linking" /\ pc' = [pc EXCEPT ![r] = "planning"]
        /\ UNCHANGED <<database, question, number, own, wrote, chain, modelAttempts, asides, status>>
    BY <1>7 DEF Link, Goto
  <2>2. \A n \in Nat : Placed(n, r) =>
            PlacedAs(n, "planning", question[r], number[r], own[r], status[r])
    BY <2>1 DEF Placed, PlacedAs, InTurn
  <2> QED BY <1>1, <1>2, <1>3, <1>4, <2>1, <2>2, ATurnMoves
<1>8. CASE ReadOrdinal(r)
  <2> DEFINE m == 1 + Max({0} \cup Ordinals(messages \cup own[r]))
  <2>1. /\ pc[r] = "numbering" /\ pc' = [pc EXCEPT ![r] = "inserting"]
        /\ number' = [number EXCEPT ![r] = m]
        /\ UNCHANGED <<database, question, own, wrote, chain, modelAttempts, asides, status>>
    BY <1>8 DEF ReadOrdinal, Goto
  <2>2. ASSUME NEW n \in Nat, Numbered(n), Placed(n, r)
        PROVE  m = IF own[r] = {} THEN n + 1 ELSE n + 2
    <3>1. Ordinals(messages \cup own[r]) = 1..n \cup {x.ordinal : x \in own[r]}
      BY <2>2 DEF Numbered, Ordinals
    <3>2. CASE own[r] = {}
      <4>1. Ordinals(messages \cup own[r]) = 1..n
        BY <3>1, <3>2
      <4>2. 1..n \in SUBSET Nat
        OBVIOUS
      <4>3. Max({0} \cup 1..n) = n
        BY <4>2, NextNumber
      <4> QED BY <3>2, <4>1, <4>3
    <3>3. CASE own[r] # {}
      <4>1. own[r] = {Asked(n + 1)}
        BY <2>1, <2>2, <3>3 DEF Placed, PlacedAs
      <4>2. {x.ordinal : x \in own[r]} = {n + 1}
        BY <4>1 DEF Asked
      <4>3. 1..n \cup {n + 1} = 1..(n + 1)
        OBVIOUS
      <4>4. Ordinals(messages \cup own[r]) = 1..(n + 1)
        BY <3>1, <4>2, <4>3
      <4>5. 1..(n + 1) \in SUBSET Nat /\ n + 1 \in Nat
        OBVIOUS
      <4>6. Max({0} \cup 1..(n + 1)) = n + 1
        BY <4>5, NextNumber
      <4>7. m = 1 + (n + 1)
        BY <4>4, <4>6
      <4> HIDE DEF m
      <4> QED BY <3>3, <4>7
    <3> QED BY <3>2, <3>3
  <2> HIDE DEF m
  <2>3. m \in Nat
    <3>1. PICK n \in Nat : Numbered(n) /\ Placed(n, r)
      BY DEF Inv, Numbering
    <3> QED BY <2>2, <3>1
  <2>4. ASSUME NEW n \in Nat, Numbered(n), Placed(n, r)
        PROVE  PlacedAs(n, "inserting", question[r], m, own[r], status[r])
    <3>1. m = IF own[r] = {} THEN n + 1 ELSE n + 2
      BY <2>2, <2>4
    <3>2. own[r] = {} => m \in 1..(n + 1)
      BY <3>1
    <3> QED BY <2>1, <2>4, <3>1, <3>2 DEF Placed, PlacedAs, InTurn
  <2> QED BY <1>1, <1>2, <1>3, <1>4, <2>1, <2>3, <2>4, ATurnMoves
<1> QED BY <1>5, <1>6, <1>7, <1>8

(* The insert: the number it wins is the next one, and nobody else's.       *)
LEMMA InsertKeepsInv ==
    ASSUME Inv, NEW r \in Request, Insert(r)
    PROVE  Inv'
<1>1. /\ TypeOK /\ LimitsKept(pc[r], modelAttempts[r], wrote[r])
      /\ NeverAgain(modelAttempts[r]) /\ pc[r] = "inserting"
      /\ \A s \in Request \ {r} : ~HoldsNumber(s, number[r])
  BY DEF Inv, Insert
<1>2. PICK n \in Nat : Numbered(n) /\ \A x \in Request : Placed(n, x)
  BY DEF Inv, Numbering
<1>3. CASE number[r] \in Ordinals(messages)
  BY <1>3, DropKeepsInv DEF Insert, Ended
<1>4. CASE number[r] \notin Ordinals(messages)
  <2> DEFINE k == number[r]
             answer == Answered(k, question[r])
  <2>1. Keep(r, k)
    BY <1>4 DEF Insert
  <2>2. /\ question[r] \in Nat /\ number[r] \in Nat /\ own[r] \in SUBSET Row
        /\ wrote[r] \in [Domain -> BreakerState] /\ chain[r] \in SUBSET Position
        /\ modelAttempts[r] \in Seq(Attempt) /\ Len(modelAttempts[r]) <= MaxAttempts
        /\ status[r] \in Status /\ asides[r] \in SUBSET Aside
        /\ question = [question EXCEPT ![r] = question[r]]
        /\ number = [number EXCEPT ![r] = number[r]]
        /\ wrote = [wrote EXCEPT ![r] = wrote[r]]
        /\ chain = [chain EXCEPT ![r] = chain[r]]
        /\ modelAttempts = [modelAttempts EXCEPT ![r] = modelAttempts[r]]
        /\ status = [status EXCEPT ![r] = status[r]]
        /\ asides = [asides EXCEPT ![r] = asides[r]]
    BY <1>1, TurnTyped
  <2>3. \/ own[r] = {} /\ k = n + 1
        \/ /\ own[r] = {Asked(n + 1)} /\ k = n + 2 /\ status[r] # "none"
           /\ question[r] = n + 1
    <3>1. Placed(n, r) /\ k \notin 1..n
      BY <1>2, <1>4 DEF Numbered
    <3>2. CASE own[r] = {}
      <4>1. k \in 1..(n + 1)
        BY <1>1, <3>1, <3>2 DEF Placed, PlacedAs
      <4> QED BY <3>1, <3>2, <4>1
    <3>3. CASE own[r] # {}
      BY <1>1, <3>1, <3>3 DEF Placed, PlacedAs
    <3> QED BY <3>2, <3>3
  <2>4. ASSUME own[r] = {}, NEW x \in Request \ {r} PROVE own[x] = {}
    <3>1. Placed(n, x) /\ k = n + 1 /\ k \notin Ordinals(own[x])
      BY <1>1, <1>2, <2>3, <2>4 DEF HoldsNumber
    <3>2. ASSUME own[x] # {} PROVE n + 1 \in Ordinals(own[x])
      <4>1. Asked(n + 1) \in own[x] \/ \E j \in Nat : Answered(n + 1, j) \in own[x]
        BY <3>1, <3>2 DEF Placed, PlacedAs
      <4>2. Asked(n + 1).ordinal = n + 1 /\ \A j : Answered(n + 1, j).ordinal = n + 1
        BY DEF Asked, Answered
      <4>3. \A row \in own[x] : row.ordinal \in Ordinals(own[x])
        BY DEF Ordinals
      <4> QED BY <4>1, <4>2, <4>3
    <3> QED BY <3>1, <3>2
  <2>5. \A j \in Nat : Numbered(j) => j = n
    <3>1. ASSUME NEW j \in Nat, 1..j = 1..n PROVE j = n
      <4>1. (j \in 1..n \/ j = 0) /\ (n \in 1..j \/ n = 0)
        BY <3>1
      <4>2. (j = 0 => n \notin 1..j) /\ (n = 0 => j \notin 1..n)
        OBVIOUS
      <4> QED BY <4>1, <4>2
    <3> QED BY <1>2, <3>1 DEF Numbered
  <2>6. \A p \in {"planning", "committing"} : LimitsKept(p, modelAttempts[r], wrote[r])
    BY <1>1 DEF LimitsKept, Ended
  <2>7. "planning" \in Label /\ "committing" \in Label /\ k \in Nat \ {0}
    BY <2>2, <2>3 DEF Label
  <2>8. Asked(k) \in Row /\ answer \in Row
    BY <2>2, <2>7 DEF Row, Asked, Answered
  <2>9. CASE status[r] = "none"
    <3>1. /\ pc' = [pc EXCEPT ![r] = "planning"]
          /\ question' = [question EXCEPT ![r] = k]
          /\ own' = [own EXCEPT ![r] = own[r] \cup {Asked(k)}]
          /\ UNCHANGED <<database, number, wrote, chain, modelAttempts, asides, status>>
      BY <2>1, <2>9 DEF Keep, Goto, Asked
    <3>2. own[r] = {} /\ k = n + 1
      BY <2>3, <2>9
    <3>3. own[r] \cup {Asked(k)} \in SUBSET Row
      BY <2>2, <2>8
    <3>4. ASSUME NEW j \in Nat, Numbered(j)
          PROVE  PlacedAs(j, "planning", k, number[r], own[r] \cup {Asked(k)}, status[r])
      <4>1. j = n /\ own[r] \cup {Asked(k)} = {Asked(j + 1)}
        BY <2>5, <3>2, <3>4
      <4> QED BY <3>2, <4>1 DEF PlacedAs, InTurn
    <3> QED BY <1>1, <2>2, <2>4, <2>6, <2>7, <3>1, <3>2, <3>3, <3>4, ATurnMoves
  <2>10. CASE status[r] # "none"
    <3>1. /\ pc' = [pc EXCEPT ![r] = "committing"]
          /\ own' = [own EXCEPT ![r] = own[r] \cup {answer}]
          /\ UNCHANGED <<database, question, number, wrote, chain, modelAttempts, asides, status>>
      BY <2>1, <2>10 DEF Keep, Goto, Answered
    <3>2. own[r] \cup {answer} \in SUBSET Row
      BY <2>2, <2>8
    <3>3. ASSUME NEW j \in Nat, Numbered(j)
          PROVE  PlacedAs(j, "committing", question[r], number[r],
                          own[r] \cup {answer}, status[r])
      <4>1. j = n
        BY <2>5, <3>3
      <4>2. CASE own[r] = {}
        <5>1. own[r] \cup {answer} = {Answered(j + 1, question[r])}
          BY <2>3, <4>1, <4>2
        <5> QED BY <2>2, <5>1 DEF PlacedAs
      <4>3. CASE own[r] # {}
        <5>1. own[r] \cup {answer} = {Asked(j + 1), Answered(j + 2, j + 1)}
          BY <2>3, <4>1, <4>3
        <5> QED BY <5>1 DEF PlacedAs
      <4> QED BY <4>2, <4>3
    <3> HIDE DEF answer
    <3> QED BY <1>1, <2>2, <2>4, <2>6, <2>7, <3>1, <3>2, <3>3, ATurnMoves
  <2> QED BY <2>9, <2>10
<1> QED BY <1>3, <1>4

-----------------------------------------------------------------------------
(* Planning and giving up write nothing: the turn is going to number its    *)
(* answer, or to call.                                                      *)
LEMMA DecisionKeepsInv ==
    ASSUME Inv, NEW r \in Request, Abstain(r) \/ Compose(r) \/ GiveUp(r)
    PROVE  Inv'
<1>1. TypeOK /\ LimitsKept(pc[r], modelAttempts[r], wrote[r])
      /\ NeverAgain(modelAttempts[r])
  BY DEF Inv
<1>2. /\ question[r] \in Nat /\ number[r] \in Nat /\ own[r] \in SUBSET Row
      /\ wrote[r] \in [Domain -> BreakerState] /\ chain[r] \in SUBSET Position
      /\ modelAttempts[r] \in Seq(Attempt) /\ Len(modelAttempts[r]) <= MaxAttempts
      /\ status[r] \in Status /\ asides[r] \in SUBSET Aside
      /\ question = [question EXCEPT ![r] = question[r]]
      /\ number = [number EXCEPT ![r] = number[r]]
      /\ own = [own EXCEPT ![r] = own[r]]
      /\ wrote = [wrote EXCEPT ![r] = wrote[r]]
      /\ chain = [chain EXCEPT ![r] = chain[r]]
      /\ modelAttempts = [modelAttempts EXCEPT ![r] = modelAttempts[r]]
      /\ status = [status EXCEPT ![r] = status[r]]
      /\ asides = [asides EXCEPT ![r] = asides[r]]
  BY <1>1, TurnTyped
<1>3. pc[r] \in {"planning", "calling"}
  BY DEF Abstain, Compose, GiveUp
<1>4. \A p \in {"numbering", "calling"} : LimitsKept(p, modelAttempts[r], wrote[r])
  BY <1>1, <1>3 DEF LimitsKept, Ended
<1>5. "numbering" \in Label /\ "calling" \in Label
  BY DEF Label
<1>6. pc[r] # "committing" /\ {} \in SUBSET Aside /\ {} \subseteq asides[r]
  BY <1>3
<1>7. CASE Compose(r)
  <2>1. /\ pc' = [pc EXCEPT ![r] = "calling"]
        /\ chain' = [chain EXCEPT ![r] = Attemptable(r)]
        /\ asides' = [asides EXCEPT ![r] = {}]
        /\ UNCHANGED <<database, question, number, own, wrote, modelAttempts, status>>
    BY <1>7 DEF Compose, Goto
  <2>2. Attemptable(r) \in SUBSET Position
    BY DEF Attemptable, Candidates
  <2>3. \A n \in Nat : Placed(n, r) =>
            PlacedAs(n, "calling", question[r], number[r], own[r], status[r])
    BY <1>3 DEF Placed, PlacedAs, InTurn
  <2> QED BY <1>1, <1>2, <1>4, <1>5, <1>6, <2>1, <2>2, <2>3, ATurnMoves
<1>8. CASE Abstain(r) \/ GiveUp(r)
  <2>1. PICK s \in Status \ {"none"}, e \in SUBSET asides[r] :
            /\ status' = [status EXCEPT ![r] = s]
            /\ asides' = [asides EXCEPT ![r] = e]
            /\ pc' = [pc EXCEPT ![r] = "numbering"]
            /\ UNCHANGED <<database, question, number, own, wrote, chain, modelAttempts>>
    <3>1. {} \in SUBSET asides[r] /\ asides[r] \in SUBSET asides[r]
      OBVIOUS
    <3>2. CASE Abstain(r)
      BY <3>1, <3>2 DEF Abstain, Goto, Status
    <3>3. CASE GiveUp(r)
      BY <1>2, <3>1, <3>3 DEF GiveUp, Goto, Status
    <3> QED BY <1>8, <3>2, <3>3
  <2>2. \A n \in Nat : Placed(n, r) =>
            PlacedAs(n, "numbering", question[r], number[r], own[r], s)
    BY <1>3 DEF Placed, PlacedAs, InTurn
  <2>3. s \in Status /\ e \in SUBSET Aside /\ e \subseteq asides[r]
    BY <1>2
  <2> QED BY <1>1, <1>2, <1>4, <1>5, <1>6, <2>1, <2>2, <2>3, ATurnMoves
<1> QED BY <1>7, <1>8

(* One call more, to a domain that has not limited the turn.                *)
LEMMA OneCallMore ==
    ASSUME NEW a \in Seq(Attempt), NEW e \in Entry, NEW o \in Outcome,
           e.domain \notin TrippedIn(a)
    PROVE  LET b == Append(a, [entry |-> e, outcome |-> o]) IN
           /\ b \in Seq(Attempt) /\ Len(b) = Len(a) + 1
           /\ b[Len(b)] = [entry |-> e, outcome |-> o]
           /\ TrippedIn(b) = TrippedIn(a) \cup (IF o \in Limit THEN {e.domain} ELSE {})
           /\ NeverAgain(a) => NeverAgain(b)
<1> DEFINE call == [entry |-> e, outcome |-> o]
           b == Append(a, call)
           l == Len(a)
<1>1. call \in Attempt /\ call.entry = e /\ call.outcome = o
  BY DEF Attempt
<1> HIDE DEF call
<1>2. /\ b \in Seq(Attempt) /\ Len(b) = l + 1 /\ l \in Nat /\ b[l + 1] = call
      /\ \A i \in 1..l : b[i] = a[i]
  BY <1>1
<1> HIDE DEF b, l
<1>3. 1..(l + 1) = 1..l \cup {l + 1} /\ l + 1 \notin 1..l
  BY <1>2
<1>4. TrippedIn(b) = TrippedIn(a) \cup (IF o \in Limit THEN {e.domain} ELSE {})
  <2>1. \A d : d \in TrippedIn(a) <=>
            \E i \in 1..l : a[i].outcome \in Limit /\ d = a[i].entry.domain
    BY DEF TrippedIn, l
  <2>2. \A d : d \in TrippedIn(b) <=>
            \E i \in 1..(l + 1) : b[i].outcome \in Limit /\ d = b[i].entry.domain
    BY <1>2 DEF TrippedIn
  <2>3. \A d : d \in TrippedIn(b) <=>
            \/ \E i \in 1..l : b[i].outcome \in Limit /\ d = b[i].entry.domain
            \/ b[l + 1].outcome \in Limit /\ d = b[l + 1].entry.domain
    BY <1>3, <2>2
  <2>4. \A d : d \in TrippedIn(b) <=> d \in TrippedIn(a) \/ (o \in Limit /\ d = e.domain)
    BY <1>1, <1>2, <2>1, <2>3
  <2> QED BY <2>4
<1>5. ASSUME NeverAgain(a) PROVE NeverAgain(b)
  <2> SUFFICES ASSUME NEW i \in 1..(l + 1), NEW k \in 1..(l + 1),
                      i < k, b[i].outcome \in Limit
               PROVE  b[k].entry.domain # b[i].entry.domain
    BY <1>2 DEF NeverAgain
  <2>1. i \in 1..l /\ b[i] = a[i]
    BY <1>2
  <2>2. CASE k \in 1..l
    <3>1. b[k] = a[k]
      BY <1>2, <2>2
    <3> QED BY <1>5, <2>1, <2>2, <3>1 DEF NeverAgain, l
  <2>3. CASE k = l + 1
    <3>1. a[i].entry.domain \in TrippedIn(a)
      BY <2>1 DEF TrippedIn, l
    <3> QED BY <1>1, <1>2, <2>1, <2>3, <3>1
  <2> QED BY <1>3, <2>2, <2>3
<1> QED BY <1>1, <1>2, <1>4, <1>5 DEF b, call, l

LEMMA CallKeepsInv ==
    ASSUME Inv, NEW r \in Request, Call(r)
    PROVE  Inv'
<1>1. /\ TypeOK /\ LimitsKept(pc[r], modelAttempts[r], wrote[r])
      /\ NeverAgain(modelAttempts[r])
      /\ pc[r] = "calling" /\ ~BudgetUsed(r)
  BY DEF Inv, Call
<1>2. /\ question[r] \in Nat /\ number[r] \in Nat /\ own[r] \in SUBSET Row
      /\ wrote[r] \in [Domain -> BreakerState] /\ chain[r] \in SUBSET Position
      /\ modelAttempts[r] \in Seq(Attempt) /\ status[r] \in Status /\ asides[r] \in SUBSET Aside
      /\ question = [question EXCEPT ![r] = question[r]]
      /\ number = [number EXCEPT ![r] = number[r]]
      /\ own = [own EXCEPT ![r] = own[r]]
      /\ wrote = [wrote EXCEPT ![r] = wrote[r]]
      /\ status = [status EXCEPT ![r] = status[r]]
      /\ asides = [asides EXCEPT ![r] = asides[r]]
  BY <1>1, TurnTyped
<1>3. PICK i \in NextCandidates(r), o \in Outcome :
        /\ modelAttempts' = [modelAttempts EXCEPT ![r] =
               Append(modelAttempts[r], [entry |-> Configured[i], outcome |-> o])]
        /\ chain' = [chain EXCEPT ![r] = {k \in chain[r] : k > i}]
        /\ pc' = [pc EXCEPT ![r] = IF o = "success" THEN "closing"
                   ELSE IF o \in Limit THEN "tripping" ELSE "calling"]
  BY DEF Call, Goto
<1>4. UNCHANGED <<database, question, number, own, wrote, asides, status>>
  BY DEF Call
<1> DEFINE e == Configured[i]
           a == modelAttempts[r]
           b == Append(a, [entry |-> e, outcome |-> o])
           c == {k \in chain[r] : k > i}
           p == IF o = "success" THEN "closing"
                ELSE IF o \in Limit THEN "tripping" ELSE "calling"
<1>5. e \in Entry /\ e.domain \notin TrippedIn(a) /\ c \in SUBSET Position
  <2>1. i \in Position /\ e.domain \notin Tripped(r)
    BY <1>2 DEF NextCandidates
  <2> QED BY <1>1, <1>2, <2>1, ChatAssumption, TrippedIsTrippedIn DEF Position
<1>6. /\ b \in Seq(Attempt) /\ Len(b) = Len(a) + 1
      /\ b[Len(b)] = [entry |-> e, outcome |-> o]
      /\ TrippedIn(b) = TrippedIn(a) \cup (IF o \in Limit THEN {e.domain} ELSE {})
      /\ NeverAgain(b)
  BY <1>1, <1>2, <1>5, OneCallMore
<1>7. /\ p \in Label /\ p \in {"closing", "tripping", "calling"}
      /\ p = "tripping" => o \in Limit
      /\ p # "tripping" => o \notin Limit
  BY DEF Label, Limit
<1>8. Len(b) <= MaxAttempts /\ Len(b) # 0
  <2>1. Len(a) \in Nat /\ MaxAttempts \in Nat /\ ~(Len(a) >= MaxAttempts)
    BY <1>1, <1>2, ChatAssumption DEF BudgetUsed
  <2> HIDE DEF a, b
  <2> QED BY <1>6, <2>1
<1>9. LimitsKept(p, b, wrote[r])
  <2>1. \A d \in TrippedIn(a) : wrote[r][d] \in Open
    BY <1>1 DEF LimitsKept, Ended
  <2>2. b[Len(b)].outcome = o /\ b[Len(b)].entry.domain = e.domain
    BY <1>6
  <2> HIDE DEF p, b, e, a
  <2> QED BY <1>5, <1>6, <1>7, <1>8, <2>1, <2>2 DEF LimitsKept
<1>10. ASSUME NEW n \in Nat, Placed(n, r)
       PROVE  PlacedAs(n, p, question[r], number[r], own[r], status[r])
  <2> HIDE DEF p
  <2> QED BY <1>1, <1>7, <1>10 DEF Placed, PlacedAs, InTurn
<1>11. pc' = [pc EXCEPT ![r] = p] /\ chain' = [chain EXCEPT ![r] = c]
       /\ modelAttempts' = [modelAttempts EXCEPT ![r] = b]
  BY <1>3
<1> HIDE DEF p, b, c
<1> QED BY <1>1, <1>2, <1>4, <1>5, <1>6, <1>7, <1>8, <1>9, <1>10, <1>11, ATurnMoves

(* What the last call has told is written before the next one; a success    *)
(* closes a domain that has not limited the turn.                           *)
LEMMA BreakerKeepsInv ==
    ASSUME Inv, NEW r \in Request, Trip(r) \/ Close(r)
    PROVE  Inv'
<1> DEFINE a == modelAttempts[r]
           d == LastCall(r).entry.domain
<1>1. TypeOK /\ LimitsKept(pc[r], a, wrote[r]) /\ NeverAgain(a)
      /\ pc[r] \in {"tripping", "closing"}
  BY DEF Inv, Trip, Close
<1>2. /\ question[r] \in Nat /\ number[r] \in Nat /\ own[r] \in SUBSET Row
      /\ wrote[r] \in [Domain -> BreakerState] /\ chain[r] \in SUBSET Position
      /\ a \in Seq(Attempt) /\ Len(a) <= MaxAttempts /\ status[r] \in Status
      /\ asides[r] \in SUBSET Aside
      /\ question = [question EXCEPT ![r] = question[r]]
      /\ number = [number EXCEPT ![r] = number[r]]
      /\ own = [own EXCEPT ![r] = own[r]]
      /\ wrote = [wrote EXCEPT ![r] = wrote[r]]
      /\ chain = [chain EXCEPT ![r] = chain[r]]
      /\ modelAttempts = [modelAttempts EXCEPT ![r] = modelAttempts[r]]
      /\ status = [status EXCEPT ![r] = status[r]]
      /\ asides = [asides EXCEPT ![r] = asides[r]]
  BY <1>1, TurnTyped
<1>3. Len(a) # 0 /\ LastCall(r) = a[Len(a)] /\ LastCall(r) \in Attempt
  BY <1>1, <1>2 DEF LimitsKept, LastCall, Last
<1>4. d \in Domain /\ LastCall(r).outcome \in Outcome
  BY <1>3 DEF Attempt, Entry
<1>5. "calling" \in Label /\ "numbering" \in Label /\ "answered" \in Status
  BY DEF Label, Status
<1>6. CASE Trip(r)
  <2> DEFINE w == [wrote[r] EXCEPT ![d] = LastCall(r).outcome]
  <2>1. pc[r] = "tripping" /\ LastCall(r).outcome \in Limit
    BY <1>1, <1>3, <1>6 DEF Trip, LimitsKept
  <2>2. /\ pc' = [pc EXCEPT ![r] = "calling"]
        /\ wrote' = [wrote EXCEPT ![r] = w]
        /\ UNCHANGED <<database, question, number, own, chain, modelAttempts, asides, status>>
    BY <1>2, <1>6 DEF Trip, Goto
  <2>3. /\ w \in [Domain -> BreakerState] /\ w[d] \in Open
        /\ \A x \in Domain \ {d} : w[x] = wrote[r][x]
    BY <1>2, <1>4, <2>1 DEF BreakerState, Open
  <2>4. TrippedIn(a) \subseteq Domain
    BY <1>2, TrippedAreDomains
  <2>5. LimitsKept("calling", a, w)
    <3>1. \A x \in TrippedIn(a) : wrote[r][x] \in Open \/ x = d
      BY <1>1, <1>3, <2>1 DEF LimitsKept, Ended
    <3> HIDE DEF w, d, a
    <3> QED BY <2>3, <2>4, <3>1 DEF LimitsKept
  <2>6. \A n \in Nat : Placed(n, r) =>
            PlacedAs(n, "calling", question[r], number[r], own[r], status[r])
    BY <2>1 DEF Placed, PlacedAs, InTurn
  <2> HIDE DEF w
  <2> QED BY <1>1, <1>2, <1>5, <2>2, <2>3, <2>5, <2>6, ATurnMoves
<1>7. CASE Close(r)
  <2>1. pc[r] = "closing" /\ d \notin TrippedIn(a)
    BY <1>1, <1>3, <1>7 DEF Close, LimitsKept
  <2>2. PICK w \in [Domain -> BreakerState] :
            /\ wrote' = [wrote EXCEPT ![r] = w]
            /\ \A x \in Domain \ {d} : w[x] = wrote[r][x]
    <3>1. CASE UNCHANGED wrote
      BY <1>2, <3>1
    <3>2. CASE wrote' = [wrote EXCEPT ![r][d] = "closed"]
      <4> DEFINE w == [wrote[r] EXCEPT ![d] = "closed"]
      <4>1. wrote' = [wrote EXCEPT ![r] = w]
        BY <1>2, <3>2
      <4>2. w \in [Domain -> BreakerState] /\ \A x \in Domain \ {d} : w[x] = wrote[r][x]
        BY <1>2, <1>4 DEF BreakerState
      <4> HIDE DEF w
      <4> QED BY <4>1, <4>2
    <3> QED BY <1>7, <3>1, <3>2 DEF Close
  <2>3. /\ pc' = [pc EXCEPT ![r] = "numbering"]
        /\ status' = [status EXCEPT ![r] = "answered"]
        /\ UNCHANGED <<database, question, number, own, chain, modelAttempts, asides>>
    BY <1>7 DEF Close, Goto
  <2>4. TrippedIn(a) \subseteq Domain
    BY <1>2, TrippedAreDomains
  <2>5. LimitsKept("numbering", a, w)
    <3>1. \A x \in TrippedIn(a) : wrote[r][x] \in Open
      BY <1>1, <2>1 DEF LimitsKept, Ended
    <3> HIDE DEF d, a
    <3> QED BY <2>1, <2>2, <2>4, <3>1 DEF LimitsKept
  <2>6. \A n \in Nat : Placed(n, r) =>
            PlacedAs(n, "numbering", question[r], number[r], own[r], "answered")
    BY <2>1 DEF Placed, PlacedAs, InTurn
  <2> QED BY <1>1, <1>2, <1>5, <2>2, <2>3, <2>5, <2>6, ATurnMoves
<1> QED BY <1>6, <1>7

-----------------------------------------------------------------------------
(* The commit: the rows follow the committed ones without a gap, a question *)
(* among them with its answer, and no other turn has any.                   *)
LEMMA CommitKeepsInv ==
    ASSUME Inv, NEW r \in Request, Commit(r)
    PROVE  Inv'
<1>1. TypeOK /\ pc[r] = "committing"
  BY DEF Inv, Commit
<1>2. PICK n \in Nat : Numbered(n) /\ \A x \in Request : Placed(n, x)
  BY DEF Inv, Numbering
<1>3. /\ messages' = messages \cup own[r]
      /\ breaker' = [d \in Domain |-> Visible(r, d)]
      /\ pc' = [pc EXCEPT ![r] = "committed"] /\ own' = [own EXCEPT ![r] = {}]
      /\ wrote' = [wrote EXCEPT ![r] = Clean] /\ number' = [number EXCEPT ![r] = 0]
      /\ chain' = [chain EXCEPT ![r] = {}] /\ asides' = [asides EXCEPT ![r] = {}]
      /\ UNCHANGED <<question, modelAttempts, status>>
  BY DEF Commit, Drop, Goto
<1>4. /\ pc \in [Request -> Label] /\ number \in [Request -> Nat]
      /\ own \in [Request -> SUBSET Row] /\ chain \in [Request -> SUBSET Position]
      /\ wrote \in [Request -> [Domain -> BreakerState]]
      /\ breaker \in [Domain -> BreakerState] /\ messages \subseteq Row
      /\ asides \in [Request -> SUBSET Aside]
  BY <1>1 DEF TypeOK, Label
<1>5. /\ pc'[r] = "committed" /\ own'[r] = {} /\ own[r] \subseteq Row /\ asides'[r] = {}
      /\ \A x \in Request \ {r} : /\ pc'[x] = pc[x] /\ own'[x] = own[x]
                                  /\ wrote'[x] = wrote[x] /\ number'[x] = number[x]
                                  /\ asides'[x] = asides[x]
  BY <1>3, <1>4
<1>6. TypeOK'
  <2>1. Clean \in [Domain -> BreakerState]
    BY DEF Clean, BreakerState
  <2>2. /\ pc' \in [Request -> Label] /\ number' \in [Request -> Nat]
        /\ own' \in [Request -> SUBSET Row] /\ chain' \in [Request -> SUBSET Position]
        /\ wrote' \in [Request -> [Domain -> BreakerState]]
        /\ asides' \in [Request -> SUBSET Aside]
    BY <1>3, <1>4, <2>1 DEF Label, Ended
  <2>3. breaker' \in [Domain -> BreakerState] /\ messages' \subseteq Row
    BY <1>3, <1>4, <1>5 DEF Visible
  <2> QED BY <1>1, <1>3, <2>2, <2>3 DEF TypeOK, Label
<1>7. \/ own[r] = {Asked(n + 1), Answered(n + 2, n + 1)}
      \/ \E k \in Nat : own[r] = {Answered(n + 1, k)}
  <2>1. Placed(n, r)
    BY <1>2
  <2> QED BY <1>1, <2>1 DEF Placed, PlacedAs, InTurn
<1>8. \A x \in Request \ {r} : own[x] = {}
  BY <1>7 DEF Inv, OneHolder
<1>9. Ordinals(messages') = 1..n \cup Ordinals(own[r])
  BY <1>2, <1>3 DEF Numbered, Ordinals
<1>10. PICK m \in {n + 1, n + 2} : Ordinals(messages') = 1..m
  <2>1. CASE own[r] = {Asked(n + 1), Answered(n + 2, n + 1)}
    <3>1. Ordinals(own[r]) = {n + 1, n + 2}
      BY <2>1 DEF Ordinals, Asked, Answered
    <3>2. 1..n \cup {n + 1, n + 2} = 1..(n + 2)
      OBVIOUS
    <3> QED BY <1>9, <3>1, <3>2
  <2>2. CASE \E k \in Nat : own[r] = {Answered(n + 1, k)}
    <3>1. Ordinals(own[r]) = {n + 1}
      BY <2>2 DEF Ordinals, Answered
    <3>2. 1..n \cup {n + 1} = 1..(n + 1)
      OBVIOUS
    <3> QED BY <1>9, <3>1, <3>2
  <2> QED BY <1>7, <2>1, <2>2
<1>11. Numbering'
  <2>1. m \in Nat /\ Numbered(m)'
    BY <1>10 DEF Numbered, Ordinals
  <2>2. Placed(m, r)'
    BY <1>5 DEF Placed, PlacedAs
  <2>3. ASSUME NEW x \in Request \ {r} PROVE Placed(m, x)'
    <3>1. Placed(n, x) /\ own[x] = {}
      BY <1>2, <1>8
    <3>2. 1..(n + 1) \subseteq 1..(m + 1)
      BY <1>10
    <3>3. pc[x] # "committing" /\ (pc[x] = "inserting" => number[x] \in 1..(m + 1))
      BY <3>1, <3>2 DEF Placed, PlacedAs
    <3> QED BY <1>5, <3>1, <3>3 DEF Placed, PlacedAs
  <2> QED BY <2>1, <2>2, <2>3 DEF Numbering
<1>12. OneHolder'
  BY <1>5, <1>8 DEF OneHolder
<1>13. \/ /\ own[r] = {Asked(n + 1), Answered(n + 2, n + 1)}
          /\ Questions' = Questions \cup {Asked(n + 1)}
       \/ Questions' = Questions
  BY <1>3, <1>7 DEF Questions, Asked, Answered
<1>14. \A k \in Ordinals(Questions) : k \in 1..n
  BY <1>2 DEF Numbered, Ordinals, Questions
<1>15. LastQuestion'
  <2>1. CASE Questions' = Questions \cup {Asked(n + 1)}
    <3>1. Ordinals(Questions)' = Ordinals(Questions) \cup {n + 1}
      <4>1. Asked(n + 1).ordinal = n + 1
        BY DEF Asked
      <4>2. Ordinals(Questions \cup {Asked(n + 1)})
                = Ordinals(Questions) \cup {Asked(n + 1).ordinal}
        BY DEF Ordinals
      <4>3. Ordinals(Questions)' = Ordinals(Questions \cup {Asked(n + 1)})
        BY <2>1 DEF Ordinals
      <4> QED BY <4>1, <4>2, <4>3
    <3>2. \A k \in Ordinals(Questions) \cup {n + 1} : n + 1 >= k
      BY <1>14
    <3> QED BY <3>1, <3>2 DEF LastQuestion
  <2>2. CASE Questions' = Questions
    BY <2>2 DEF Inv, LastQuestion, Ordinals
  <2> QED BY <1>13, <2>1, <2>2
<1>16. AnsweredNext'
  <2> SUFFICES ASSUME NEW q \in Questions'
               PROVE  Answered(q.ordinal + 1, q.ordinal) \in messages'
    BY DEF AnsweredNext, Answered
  <2>1. CASE q \in Questions
    BY <1>3, <2>1 DEF Inv, AnsweredNext, Answered
  <2>2. CASE q = Asked(n + 1) /\ own[r] = {Asked(n + 1), Answered(n + 2, n + 1)}
    <3>1. q.ordinal = n + 1 /\ q.ordinal + 1 = n + 2
      BY <2>2 DEF Asked
    <3> QED BY <1>3, <2>2, <3>1
  <2> QED BY <1>13, <2>1, <2>2
<1>17. \A x \in Request : LimitsKept(pc[x], modelAttempts[x], wrote[x])'
  <2>1. LimitsKept(pc'[r], modelAttempts'[r], wrote'[r])
    BY <1>5 DEF LimitsKept, Ended
  <2>2. ASSUME NEW x \in Request \ {r}
        PROVE  LimitsKept(pc'[x], modelAttempts'[x], wrote'[x])
    <3>1. LimitsKept(pc[x], modelAttempts[x], wrote[x])
      BY DEF Inv
    <3> QED BY <1>3, <1>5, <3>1
  <2> QED BY <2>1, <2>2 DEF LimitsKept
<1>18. \A x \in Request : NeverAgain(modelAttempts[x])'
  BY <1>3 DEF Inv, NeverAgain
<1>19. \A x \in Request : AsidesKept(pc[x], modelAttempts[x], wrote[x], asides[x])'
  <2>1. AsidesKept(pc'[r], modelAttempts'[r], wrote'[r], asides'[r])
    BY <1>5 DEF AsidesKept
  <2>2. ASSUME NEW x \in Request \ {r}
        PROVE  AsidesKept(pc'[x], modelAttempts'[x], wrote'[x], asides'[x])
    <3>1. AsidesKept(pc[x], modelAttempts[x], wrote[x], asides[x])
      BY DEF Inv
    <3> QED BY <1>3, <1>5, <3>1
  <2> QED BY <2>1, <2>2 DEF AsidesKept
<1> QED BY <1>6, <1>11, <1>12, <1>15, <1>16, <1>17, <1>18, <1>19 DEF Inv

(* A call beside the answer leaves the turn where it is.  The assessor sees *)
(* the rows its turn wrote: a domain that limited the turn is not open to it*)
(* before the reset time has passed.                                        *)
LEMMA AsideKeepsInv ==
    ASSUME Inv, NEW r \in Request,
           llmRewrite(r) \/ plannerModelAttempt(r) \/ runTopicalAssessorShadow(r)
    PROVE  Inv'
<1> DEFINE a == modelAttempts[r]
<1>1. /\ TypeOK /\ LimitsKept(pc[r], a, wrote[r]) /\ NeverAgain(a)
      /\ AsidesKept(pc[r], a, wrote[r], asides[r])
  BY DEF Inv
<1>2. PICK stage \in {"rewriting", "planning", "assessing"} :
        /\ CallAside(r, stage)
        /\ stage = "assessing" => pc[r] = "committing"
  BY DEF llmRewrite, plannerModelAttempt, runTopicalAssessorShadow
<1>3. PICK i \in Attemptable(r) :
        asides' = [asides EXCEPT ![r] = asides[r] \cup
            {[stage |-> stage, domain |-> Configured[i].domain]}]
  BY <1>2 DEF CallAside
<1> DEFINE d == Configured[i].domain
           call == [stage |-> stage, domain |-> d]
<1>4. UNCHANGED <<database, pc, question, number, own, wrote, chain,
                  modelAttempts, status>>
  BY <1>2 DEF CallAside
<1>5. d \in Domain /\ Visible(r, d) \notin Limit
  <2>1. i \in Position
    BY DEF Attemptable, Candidates
  <2> QED BY <2>1, ChatAssumption DEF Attemptable, Position, Entry
<1>6. call \in Aside /\ call.stage = stage /\ call.domain = d
  BY <1>5 DEF Aside
<1>7. stage = "assessing" /\ d \in TrippedIn(a) => wrote[r][d] = "expired"
  <2>1. SUFFICES ASSUME pc[r] = "committing", d \in TrippedIn(a)
                 PROVE  wrote[r][d] = "expired"
    BY <1>2
  <2>2. wrote[r][d] \in Open
    BY <1>1, <2>1 DEF LimitsKept, Ended
  <2> QED BY <1>5, <2>2 DEF Visible, Open, Limit
<1> HIDE DEF call, d
<1>8. AsidesKept(pc[r], a, wrote[r], asides[r] \cup {call})
  BY <1>1, <1>2, <1>6, <1>7 DEF AsidesKept
<1>9. asides' = [asides EXCEPT ![r] = asides[r] \cup {call}]
  BY <1>3 DEF call, d
<1>10. asides[r] \cup {call} \in SUBSET Aside
  BY <1>1, <1>6, TurnTyped
<1>11. \A n \in Nat : Placed(n, r) =>
           PlacedAs(n, pc[r], question[r], number[r], own[r], status[r])
  BY DEF Placed
<1> HIDE DEF a
<1>12. a = modelAttempts[r]
  BY DEF a
<1> QED
  BY <1>1, <1>4, <1>8, <1>9, <1>10, <1>11, <1>12, TurnTyped, ATurnMoves

LEMMA ExpiryKeepsInv ==
    ASSUME Inv, NEW d \in Domain, Expire(d)
    PROVE  Inv'
<1>1. /\ breaker' = [breaker EXCEPT ![d] = "expired"]
      /\ UNCHANGED <<messages, turn>>
  BY DEF Expire
<1>2. TypeOK'
  <2>1. breaker' \in [Domain -> BreakerState]
    BY <1>1 DEF Inv, TypeOK, BreakerState
  <2> QED BY <1>1, <2>1 DEF Inv, TypeOK, turn
<1>3. Numbering'
  BY <1>1 DEF Inv, Numbering, Numbered, Ordinals, Placed, turn
<1>4. LastQuestion' /\ AnsweredNext' /\ OneHolder'
  BY <1>1 DEF Inv, LastQuestion, AnsweredNext, OneHolder, Questions, Ordinals, turn
<1>5. \A x \in Request : LimitsKept(pc[x], modelAttempts[x], wrote[x])'
  BY <1>1 DEF Inv, LimitsKept, turn
<1>6. \A x \in Request : NeverAgain(modelAttempts[x])'
  BY <1>1 DEF Inv, NeverAgain, turn
<1>7. \A x \in Request : AsidesKept(pc[x], modelAttempts[x], wrote[x], asides[x])'
  BY <1>1 DEF Inv, AsidesKept, turn
<1> QED BY <1>2, <1>3, <1>4, <1>5, <1>6, <1>7 DEF Inv

(* An uncommitted limit that runs out is still the turn's row.              *)
LEMMA UncommittedExpiryKeepsInv ==
    ASSUME Inv, NEW r \in Request, NEW d \in Domain, ExpireUncommitted(r, d)
    PROVE  Inv'
<1> DEFINE a == modelAttempts[r]
           w == [wrote[r] EXCEPT ![d] = "expired"]
<1>1. /\ TypeOK /\ LimitsKept(pc[r], a, wrote[r]) /\ NeverAgain(a)
      /\ AsidesKept(pc[r], a, wrote[r], asides[r])
  BY DEF Inv
<1>2. /\ wrote[r] \in [Domain -> BreakerState] /\ a \in Seq(Attempt)
      /\ wrote \in [Request -> [Domain -> BreakerState]]
  BY <1>1, TurnTyped DEF TypeOK
<1>3. /\ wrote' = [wrote EXCEPT ![r] = w]
      /\ UNCHANGED <<database, pc, question, number, own, chain,
                     modelAttempts, asides, status>>
  BY <1>2 DEF ExpireUncommitted
<1>4. /\ w \in [Domain -> BreakerState] /\ w[d] = "expired"
      /\ \A x \in Domain \ {d} : w[x] = wrote[r][x]
  BY <1>2 DEF BreakerState
<1>5. TrippedIn(a) \subseteq Domain
  BY <1>2, TrippedAreDomains
<1> HIDE DEF w
<1>6. LimitsKept(pc[r], a, w)
  BY <1>1, <1>4, <1>5 DEF LimitsKept, Open
<1>7. AsidesKept(pc[r], a, w, asides[r])
  <2>1. \A x \in TrippedIn(a) : wrote[r][x] = "expired" => w[x] = "expired"
    BY <1>4, <1>5
  <2> QED BY <1>1, <2>1 DEF AsidesKept
<1>8. \A n \in Nat : Placed(n, r) =>
          PlacedAs(n, pc[r], question[r], number[r], own[r], status[r])
  BY DEF Placed
<1>9. Len(a) <= MaxAttempts
  BY <1>1, TurnTyped
<1> HIDE DEF a
<1>10. a = modelAttempts[r]
  BY DEF a
<1> QED
  BY <1>1, <1>2, <1>3, <1>4, <1>6, <1>7, <1>8, <1>9, <1>10, TurnTyped, ATurnMoves

LEMMA StutterKeepsInv == Inv /\ UNCHANGED vars => Inv'
<1> SUFFICES ASSUME Inv, UNCHANGED vars PROVE Inv'
  OBVIOUS
<1>1. UNCHANGED <<messages, breaker, turn>>
  BY DEF vars, database
<1>2. TypeOK'
  BY <1>1 DEF Inv, TypeOK, turn
<1>3. Numbering'
  BY <1>1 DEF Inv, Numbering, Numbered, Ordinals, Placed, turn
<1>4. LastQuestion' /\ AnsweredNext' /\ OneHolder'
  BY <1>1 DEF Inv, LastQuestion, AnsweredNext, OneHolder, Questions, Ordinals, turn
<1>5. \A x \in Request : LimitsKept(pc[x], modelAttempts[x], wrote[x])'
  BY <1>1 DEF Inv, LimitsKept, turn
<1>6. \A x \in Request : NeverAgain(modelAttempts[x])'
  BY <1>1 DEF Inv, NeverAgain, turn
<1>7. \A x \in Request : AsidesKept(pc[x], modelAttempts[x], wrote[x], asides[x])'
  BY <1>1 DEF Inv, AsidesKept, turn
<1> QED BY <1>2, <1>3, <1>4, <1>5, <1>6, <1>7 DEF Inv

LEMMA NextInv == Inv /\ [Next]_vars => Inv'
<1> SUFFICES ASSUME Inv, [Next]_vars PROVE Inv'
  OBVIOUS
<1>1. ASSUME NEW r \in Request, Post(r) \/ Retry(r) \/ Link(r) \/ ReadOrdinal(r)
      PROVE  Inv'
  BY <1>1, BeginKeepsInv
<1>2. ASSUME NEW r \in Request, Insert(r) PROVE Inv'
  BY <1>2, InsertKeepsInv
<1>3. ASSUME NEW r \in Request, Abstain(r) \/ Compose(r) \/ GiveUp(r) PROVE Inv'
  BY <1>3, DecisionKeepsInv
<1>4. ASSUME NEW r \in Request, Call(r) PROVE Inv'
  BY <1>4, CallKeepsInv
<1>5. ASSUME NEW r \in Request, Trip(r) \/ Close(r) PROVE Inv'
  BY <1>5, BreakerKeepsInv
<1>6. ASSUME NEW r \in Request, Commit(r) PROVE Inv'
  BY <1>6, CommitKeepsInv
<1>7. ASSUME NEW r \in Request, Throw(r) \/ Victim(r) PROVE Inv'
  BY <1>7, DropKeepsInv DEF Throw, Victim, Ended
<1>8. ASSUME NEW d \in Domain, Expire(d) PROVE Inv'
  BY <1>8, ExpiryKeepsInv
<1>9. ASSUME NEW r \in Request, NEW d \in Domain, ExpireUncommitted(r, d)
      PROVE  Inv'
  BY <1>9, UncommittedExpiryKeepsInv
<1>10. ASSUME NEW r \in Request,
              llmRewrite(r) \/ plannerModelAttempt(r) \/ runTopicalAssessorShadow(r)
       PROVE  Inv'
  BY <1>10, AsideKeepsInv
<1>11. CASE UNCHANGED vars
  BY <1>11, StutterKeepsInv
<1> QED
  BY <1>1, <1>2, <1>3, <1>4, <1>5, <1>6, <1>7, <1>8, <1>9, <1>10, <1>11
     DEF Next, Step

LEMMA InvAlways == Spec => []Inv
<1> QED BY InitInv, NextInv, PTL DEF Spec

(* The variables of conversations, turns and breaker rows keep their types, *)
(* and no turn makes more calls than AIFIQH_CHAT_FALLBACK_MAX_ATTEMPTS, for  *)
(* any configured chain.                                                    *)
THEOREM TypeCorrect == Spec => []TypeOK
<1>1. Inv => TypeOK
  BY DEF Inv
<1> QED BY <1>1, InvAlways, PTL

(* However the turns of a conversation race for message numbers (posted or  *)
(* retried, rolled back, refused by the unique constraint), every question  *)
(* that is visible has its own answer under the next number.                *)
THEOREM QuestionsAreAnswered == Spec => []AnsweredNext
<1>1. Inv => AnsweredNext
  BY DEF Inv
<1> QED BY <1>1, InvAlways, PTL

(* trippedThisTurn shields the rest of the chain: for any chain, budget and *)
(* order of what the domains answer, a domain that has limited a call for   *)
(* an answer is not asked for that answer again, whatever other turns do to *)
(* the breaker meanwhile, and the assessor's call avoids it as long as the  *)
(* reset time the turn has written has not passed.  Limits the rewriter and *)
(* the planner meet shield nothing, and nothing is said of them.            *)
THEOREM TrippedDomainsAreShielded == Spec => []TrippedIsShielded
<1> QED BY ShieldedWhenKept, InvAlways, PTL

-----------------------------------------------------------------------------
(* Only Commit takes a turn from "committing" to "committed".               *)
LEMMA OnlyCommitCommits ==
    ASSUME Inv, [Next]_vars, NEW r \in Request,
           pc[r] = "committing", pc'[r] = "committed"
    PROVE  Commit(r)
<1>1. pc \in [Request -> Label]
  BY DEF Inv, TypeOK, Label
<1>2. ASSUME NEW s \in Request, NEW p, pc' = [pc EXCEPT ![s] = p]
      PROVE  s = r /\ p = "committed"
  BY <1>1, <1>2
<1>3. ASSUME NEW s \in Request, Post(s) \/ Retry(s) \/ Link(s) \/ ReadOrdinal(s)
      PROVE  FALSE
  <2>1. \E p \in {"numbering", "refused", "linking", "planning", "inserting"} :
            pc' = [pc EXCEPT ![s] = p]
    BY <1>3 DEF Post, Retry, Link, ReadOrdinal, Goto
  <2> QED BY <1>2, <2>1
<1>4. ASSUME NEW s \in Request, Insert(s) PROVE FALSE
  <2>1. \E p \in {"lost", "planning", "committing"} : pc' = [pc EXCEPT ![s] = p]
    BY <1>4 DEF Insert, Drop, Keep, Goto
  <2> QED BY <1>2, <2>1
<1>5. ASSUME NEW s \in Request, Abstain(s) \/ Compose(s) \/ GiveUp(s) PROVE FALSE
  <2>1. \E p \in {"numbering", "calling"} : pc' = [pc EXCEPT ![s] = p]
    BY <1>5 DEF Abstain, Compose, GiveUp, Goto
  <2> QED BY <1>2, <2>1
<1>6. ASSUME NEW s \in Request, Call(s) \/ Trip(s) \/ Close(s) PROVE FALSE
  <2>1. \E p \in {"closing", "tripping", "calling", "numbering"} :
            pc' = [pc EXCEPT ![s] = p]
    BY <1>6 DEF Call, Trip, Close, Goto
  <2> QED BY <1>2, <2>1
<1>7. ASSUME NEW s \in Request, Throw(s) \/ Victim(s) PROVE FALSE
  <2>1. \E p \in {"lost", "victim"} : pc' = [pc EXCEPT ![s] = p]
    BY <1>7 DEF Throw, Victim, Drop, Goto
  <2> QED BY <1>2, <2>1
<1>8. ASSUME NEW s \in Request, Commit(s) PROVE Commit(r)
  <2>1. pc' = [pc EXCEPT ![s] = "committed"]
    BY <1>8 DEF Commit, Drop, Goto
  <2> QED BY <1>2, <1>8, <2>1
<1>9. ASSUME (\E d \in Domain : Expire(d)) \/ UNCHANGED vars PROVE FALSE
  BY <1>9 DEF Expire, turn, vars
<1>10. ASSUME NEW s \in Request, NEW d \in Domain, ExpireUncommitted(s, d)
       PROVE  FALSE
  BY <1>10 DEF ExpireUncommitted
<1>11. ASSUME NEW s \in Request,
              llmRewrite(s) \/ plannerModelAttempt(s) \/ runTopicalAssessorShadow(s)
       PROVE  FALSE
  BY <1>11 DEF llmRewrite, plannerModelAttempt, runTopicalAssessorShadow, CallAside
<1> QED
  BY <1>3, <1>4, <1>5, <1>6, <1>7, <1>8, <1>9, <1>10, <1>11 DEF Next, Step

(* A rate limit the candidates of a committed turn have met is an open row  *)
(* of the breaker when its answer appears, whether its reset time has       *)
(* passed by then or not: the turn's own later success closes another       *)
(* domain, and other turns have waited for the row.  What a limited planner *)
(* or rewriter has met is in no row, and not claimed.                       *)
THEOREM LimitsAreCommitted == Spec => TripsSurviveCommit
<1> DEFINE Survive == \A r \in Request : pc[r] = "committing" /\ pc'[r] = "committed" =>
                          \A d \in Tripped(r) : breaker'[d] \in Open
<1>1. Inv /\ [Next]_vars => [Survive]_vars
  <2> SUFFICES ASSUME Inv, [Next]_vars, NEW r \in Request,
                      pc[r] = "committing", pc'[r] = "committed",
                      NEW d \in Tripped(r)
               PROVE  breaker'[d] \in Open
    OBVIOUS
  <2>1. breaker' = [x \in Domain |-> Visible(r, x)]
    BY OnlyCommitCommits DEF Commit
  <2>2. d \in TrippedIn(modelAttempts[r])
    BY TrippedIsTrippedIn DEF Inv
  <2>3. wrote[r][d] \in Open
    BY <2>2 DEF Inv, LimitsKept, Ended
  <2>4. d \in Domain
    <3>1. modelAttempts[r] \in Seq(Attempt)
      BY TurnTyped DEF Inv
    <3> QED BY <2>2, <3>1, TrippedAreDomains
  <2> QED BY <2>1, <2>3, <2>4 DEF Visible, Open, Limit
<1> QED BY <1>1, InvAlways, PTL DEF Spec, TripsSurviveCommit
=============================================================================
