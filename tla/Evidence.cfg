CONSTANTS
    Unit = {1, 2, 3, 4, 5, 6}
    Scenarios <- Questions
    ExactHits = 1
    OtherHits = 2
    RrfK = 60
    FusionTopK = 4
    RerankTopK = 3
    EvidenceTopK = 3
    MaxPerSource = 1
    MaxPerMadhhab = 1
    Relations = {"adjacent", "footnote", "evidence", "definition", "exception", "comparison"}
    MaxDepth = 2
    MaxPerSeed = 2
    MaxItems = 2
    TokenBudget = 3
    ProtectedRelations = {"exception", "definition"}
SPECIFICATION Spec
INVARIANTS TypeOK FusedFairly RequestedAreHeard WalkHangsOnSeeds NeighboursAccountedFor
CHECK_DEADLOCK FALSE
