CONSTANTS
    Request = {q1, q2}
    MaxRevisions = 2
    Content = {"x"}
    MaxAttempts = 2
SPECIFICATION FairSpec
INVARIANTS TypeOK AnswerableApproved RejectedStaysOut NumberedAndStored ChainLeadsBack
PROPERTIES EveryRequestEnds
