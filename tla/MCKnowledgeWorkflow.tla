------------------------ MODULE MCKnowledgeWorkflow ------------------------
(* Instances of KnowledgeWorkflow for TLC.                                  *)
EXTENDS KnowledgeWorkflow, TLC

Interchangeable == Permutations(Session) \cup Permutations(Alias)
                   \cup Permutations(Changeset) \cup Permutations(Concept)
=============================================================================
