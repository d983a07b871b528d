------------------------ MODULE MCAnswerPublication ------------------------
(* Instances of AnswerPublication for TLC.                                  *)
EXTENDS AnswerPublication, TLC

Interchangeable == Permutations(Worker)
=============================================================================
