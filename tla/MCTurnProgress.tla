--------------------------- MODULE MCTurnProgress ---------------------------
EXTENDS TurnProgress, TLC

Interchangeable == Permutations(Turn) \cup Permutations(Page)
=============================================================================
