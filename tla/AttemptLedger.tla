---------------------------- MODULE AttemptLedger ----------------------------
(***************************************************************************)
(* What the ingestion engine promises about the attempts at a job, whoever  *)
(* makes them and however they end: they are numbered one after the other,  *)
(* each is decided once, every success leaves exactly one product, and only *)
(* a success its own caller was not told of can be declared a failure, once *)
(* and without its product being taken back.  The workers, their lock and   *)
(* the job's own status are not visible here: IngestionWorker implements    *)
(* this module.                                                             *)
(***************************************************************************)
EXTENDS Naturals, Sequences

CONSTANT Job

VARIABLES
    ledger,    \* the attempts at each job, in order
    product,   \* how many products each job has left
    unsure     \* the attempts whose callers were not told of their success

vars == <<ledger, product, unsure>>

Named(j, n) == [job |-> j, no |-> n]

Init ==
    /\ ledger = [j \in Job |-> <<>>]
    /\ product = [j \in Job |-> 0]
    /\ unsure = {}

Open(j) ==
    /\ ledger' = [ledger EXCEPT ![j] = Append(@, "running")]
    /\ UNCHANGED <<product, unsure>>

Win(j) ==
    /\ \E n \in DOMAIN ledger[j] :
           /\ ledger[j][n] = "running"
           /\ ledger' = [ledger EXCEPT ![j][n] = "succeeded"]
           /\ unsure' \in {unsure, unsure \cup {Named(j, n)}}
    /\ product' = [product EXCEPT ![j] = @ + 1]

Lose(j) ==
    /\ \E n \in DOMAIN ledger[j] :
           /\ ledger[j][n] = "running" \/ Named(j, n) \in unsure
           /\ ledger' = [ledger EXCEPT ![j][n] = "failed"]
           /\ unsure' = unsure \ {Named(j, n)}
    /\ UNCHANGED product

(* The caller is gone before it could.                                      *)
Leave(j) ==
    /\ \E n \in DOMAIN ledger[j] : unsure' = unsure \ {Named(j, n)}
    /\ UNCHANGED <<ledger, product>>

Next == \E j \in Job : Open(j) \/ Win(j) \/ Lose(j) \/ Leave(j)

Spec == Init /\ [][Next]_vars
=============================================================================
