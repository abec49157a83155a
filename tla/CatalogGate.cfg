CONSTANTS
    None = None
    Process = {p1, p2}
    Dataset <- Datasets
    Signal = {"notice", "seeded"}
    Term = {"retail", "traffic"}
    Feeds <- FeedsOf
    Unhashable <- BadRecords
    Confidence <- Similar
    DatasetTerms <- TermsOf
    SameOrg = {"shop"}
    SeedRows <- InitialRows
    SeedSignals <- InitialSignals
    SeedOverrides <- InitialOverrides
    HumanOverrides <- Reviews
    MaxJobs = 3
SPECIFICATION Spec
INVARIANTS
    RestrictedIsNotCollected
CHECK_DEADLOCK FALSE
