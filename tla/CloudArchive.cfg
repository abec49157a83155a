CONSTANTS
    None = None
    NoStatus = NoStatus
    Area <- TwoAreas
    SeedPlaces <- TwoPlaces
    SampleArea = "gwanghwamun"
    Body = {"a", "p", "e"}
    Answers <- AnswersOf
    Rejected = {"e"}
    Lacking = {"p"}
    CadenceSeconds = 15
    RunModes = {"SAMPLE", "SEED_COHORT"}
    CanCrash = TRUE
    Gaps = {15}
    MaxRuns = 3
    MaxRetries = 1
    Codes = {404, 503}
SPECIFICATION FairSpec
INVARIANTS
    TypeOK
    RetriesExact
    DedupeExact
PROPERTIES
    ImplementsArchive
    RunEnds
CHECK_DEADLOCK FALSE
