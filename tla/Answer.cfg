SPECIFICATION Spec
SYMMETRY Interchangeable
CONSTANTS
  Answer = {a1}
  Worker = {w1, w2, w3}
INVARIANTS TypeOK PublishedWithoutCriticals AbandonedNeverPublished
CHECK_DEADLOCK FALSE
