---------------------------- MODULE AliasRegister ----------------------------
(***************************************************************************)
(* What the index alias service promises its readers: each alias           *)
(* ('staging', 'production') is an atomic register holding a release.  It   *)
(* moves in one step, a reader sees the old or the new release and nothing  *)
(* in between, and a release loses the label 'promoted' only in the very    *)
(* step that moves an alias away from it.  The steps of the requests, their *)
(* locks and their private writes are not visible here: IndexPromotion      *)
(* implements this module.                                                  *)
(***************************************************************************)
CONSTANTS Release, Alias, NoRelease

VARIABLES
    alias,   \* the release each alias resolves to, or NoRelease
    state    \* the committed state of each release

vars == <<alias, state>>

ReleaseState == {"absent", "ready", "promoted", "retired", "failed"}

(* A release that has never been an alias target can be in any built state; *)
(* an alias resolves to a promoted release.                                 *)
Init ==
    /\ alias \in [Alias -> Release \cup {NoRelease}]
    /\ state \in [Release -> {"absent", "ready", "promoted"}]
    /\ \A a \in Alias : alias[a] # NoRelease => state[alias[a]] = "promoted"

(* The alias moves to a promotable release and the release it leaves may be *)
(* demoted, both at once.                                                   *)
Promote(a, r) ==
    /\ alias[a] # r
    /\ state[r] \in {"ready", "promoted"}
    /\ alias' = [alias EXCEPT ![a] = r]
    /\ \E demoted \in SUBSET ({alias[a]} \cap Release) :
           /\ \A p \in demoted : state[p] = "promoted"
           /\ state' = [x \in Release |-> IF x = r THEN "promoted"
                                          ELSE IF x \in demoted THEN "retired"
                                          ELSE state[x]]

(* Only the alias moves: the labels of the releases are history.            *)
Rollback(a, r) ==
    /\ alias[a] \notin {r, NoRelease}
    /\ state[r] # "absent"
    /\ alias' = [alias EXCEPT ![a] = r]
    /\ UNCHANGED state

(* A builder publishes a new release or gives its verdict on one; no alias  *)
(* ever moves because of it.                                                *)
Build(r, s) ==
    /\ s \in {"ready", "failed"}
    /\ state[r] = "absent" => s = "ready"
    /\ state' = [state EXCEPT ![r] = s]
    /\ UNCHANGED alias

Next ==
    \/ \E a \in Alias, r \in Release : Promote(a, r) \/ Rollback(a, r)
    \/ \E r \in Release, s \in ReleaseState : Build(r, s)

Spec == Init /\ [][Next]_vars
=============================================================================
