CONSTANTS
    None = None
    Process = {p1, p2}
    Area <- TwoAreas
    Places <- AllOrSample
    Body = {"a", "p", "c"}
    Answers <- AnswersOf
    Lacking = {"p"}
    Untimed = {"p"}
    CadenceSeconds = 15
    Gaps = {20}
    MaxCommands = 3
SPECIFICATION FairSpec
INVARIANTS
    TypeOK
    RowsHaveFiles
    SnapshotsAreChanges
    RunsAccounted
    GapsMatchObservations
PROPERTIES
    NothingUndone
    LockIsReleased
CHECK_DEADLOCK FALSE
