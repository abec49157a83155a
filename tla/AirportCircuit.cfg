CONSTANTS
    None = None
    Source <- FiveSources
    Specs <- FiveSpecs
    Kac <- FiveKac
    Weather = {"metar"}
    Schedule = {"schedule"}
    Metar = {"metar"}
    Counted = {"process", "parking"}
    Body = {"a", "b", "p", "m", "x", "n", "f"}
    Provider = {"a", "b"}
    Incomplete = {"p"}
    Malformed = {"n"}
    PageCount <- PagesOf
    FixtureResponses <- FixtureNone
    SecretSets <- WithOrWithoutWeather
    CadenceSeconds = 15
    WeatherCadence = 30
    DueSlack = 1
    MaxPages = 2
    Modes = {"live"}
    ForceWeather = {FALSE}
    Failures = {"transport", "provider", "unexpected"}
    CanCrash = FALSE
    Gaps = {570, 1395}
    MaxRuns = 1
    Airport <- OneAirport
    Components = {"process_time", "parking", "flight_status", "flight_schedule", "weather"}
    SourceOf <- CircuitSources
    Tables <- TablesOf
    Epoch = 30
SPECIFICATION FairSpec
INVARIANTS
    CircuitExact
    RecordsTellGaps
    DeparturesExact
PROPERTIES
    RunIsRecorded
CHECK_DEADLOCK FALSE
