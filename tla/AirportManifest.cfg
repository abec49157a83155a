CONSTANTS
    None = None
    Source <- TwoSources
    Specs <- TwoSpecs
    Kac = {"kac"}
    Weather = {"metar"}
    Schedule = {}
    Metar = {"metar"}
    Counted = {"kac"}
    Body = {"a", "b", "p", "m", "x", "n", "f"}
    Provider = {"a", "n"}
    Incomplete = {"p"}
    Malformed = {"n"}
    PageCount <- PagesOf
    FixtureResponses <- FixtureWeather
    SecretSets = {{"kac", "metar"}}
    CadenceSeconds = 15
    WeatherCadence = 30
    DueSlack = 1
    MaxPages = 2
    Modes = {"live"}
    ForceWeather = {FALSE}
    Failures = {}
    CanCrash = FALSE
    Gaps = {15}
    MaxRuns = 2
SPECIFICATION Spec
INVARIANTS
    EveryRunLeavesManifest
CHECK_DEADLOCK FALSE
