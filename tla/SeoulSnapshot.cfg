CONSTANTS
    None = None
    Process = {p1, p2}
    Area <- TwoAreas
    Places <- SampleOnly
    Body = {"a", "p", "c"}
    Answers <- AnswersOf
    Lacking = {"p"}
    Untimed = {"p"}
    CadenceSeconds = 15
    Gaps = {20}
    MaxCommands = 3
SPECIFICATION Spec
INVARIANTS
    LatestAnswerIsLatestSnapshot
CHECK_DEADLOCK FALSE
