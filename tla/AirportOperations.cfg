CONSTANTS
    None = None
    Source <- TwoSources
    Specs <- TwoSpecs
    Kac = {"kac"}
    Weather = {"metar"}
    Schedule = {}
    Metar = {"metar"}
    Counted = {"kac"}
    Body = {"a", "b", "p", "m", "x", "n", "f"}
    Provider = {"a", "n"}
    Incomplete = {"p"}
    Malformed = {"n"}
    PageCount <- PagesOf
    FixtureResponses <- FixtureWeather
    SecretSets = {{"kac", "metar"}, {"kac"}}
    CadenceSeconds = 15
    WeatherCadence = 30
    DueSlack = 1
    MaxPages = 2
    Modes = {"live", "fixture"}
    ForceWeather = {TRUE, FALSE}
    Failures = {"auth"}
    CanCrash = TRUE
    Gaps = {14, 15, 45}
    MaxRuns = 3
SPECIFICATION Spec
INVARIANTS
    StateIsLastFinishedRun
    StorageCounted
    HealthMatchesHistory
PROPERTIES
    CadenceKept
CHECK_DEADLOCK FALSE
