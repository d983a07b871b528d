SPECIFICATION Spec
SYMMETRY Interchangeable
CONSTANTS
  Worker = {w1, w2, w3}
  NoWorker = NoWorker
  Job = {j1}
  MaxAttempts = 2
  Bound = 3
INVARIANTS TypeOK OneCallerPerAttempt CounterFollowsAttempts
PROPERTIES SuccessStaysUnderLock LedgerKept
CHECK_DEADLOCK FALSE
