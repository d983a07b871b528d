----------------------------- MODULE MCChatTurn -----------------------------
EXTENDS ChatTurn

(* The alias, a repetition of it, a second model of its domain, a model     *)
(* whose secret is missing, and a model of another domain.                  *)
Models ==
    << [model |-> "a1", domain |-> "a", usable |-> TRUE],
       [model |-> "a1", domain |-> "a", usable |-> TRUE],
       [model |-> "a2", domain |-> "a", usable |-> TRUE],
       [model |-> "b1", domain |-> "b", usable |-> FALSE],
       [model |-> "b2", domain |-> "b", usable |-> TRUE] >>
=============================================================================
