CONSTANTS
    Workflow <- BothWorkflows
    AddsAll = {"seoul"}
    MaxAttempts = 3
    MaxRuns <- RunsOf
SPECIFICATION FairSpec
INVARIANTS
    TypeOK
    NoLostUpdate
    OutcomeHonest
PROPERTIES
    GivesUpOnlyWhenOverrun
    ReplacedByOwnOnly
    EveryDispatchSettles
CHECK_DEADLOCK FALSE
