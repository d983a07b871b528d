SPECIFICATION FairSpec
CONSTANTS
  Request = {r1, r2}
  Domain = {"a", "b"}
  Configured <- Models
  MaxAttempts = 2
INVARIANTS TypeOK AnsweredNext TrippedIsShielded
PROPERTIES TripsSurviveCommit EveryTurnEnds
CHECK_DEADLOCK FALSE
