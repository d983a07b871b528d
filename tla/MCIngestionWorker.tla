------------------------- MODULE MCIngestionWorker -------------------------
EXTENDS IngestionWorker, TLC

Interchangeable == Permutations(Worker)
=============================================================================
