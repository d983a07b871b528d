SPECIFICATION Spec
SYMMETRY Interchangeable
CONSTANTS
  Worker = {w1, w2, w3}
  NoWorker = NoWorker
  Job = {j1}
  MaxAttempts = 2
  Bound = 3
INVARIANT Resumable
CHECK_DEADLOCK FALSE
