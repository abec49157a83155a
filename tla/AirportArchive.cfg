CONSTANTS
    None = None
    Source <- PagedSources
    Specs <- PagedSpecs
    Kac = {"schedule"}
    Weather = {"metar"}
    Schedule = {"schedule"}
    Metar = {"metar"}
    Counted = {}
    Body = {"a", "b", "p", "m", "x", "n", "f"}
    Provider = {"a", "x"}
    Incomplete = {"p"}
    Malformed = {"n"}
    PageCount <- PagesOf
    FixtureResponses <- FixtureNone
    SecretSets = {{"schedule", "metar"}}
    CadenceSeconds = 15
    WeatherCadence = 30
    DueSlack = 1
    MaxPages = 2
    Modes = {"live"}
    ForceWeather = {FALSE}
    Failures = {"provider"}
    CanCrash = TRUE
    Gaps = {15, 45}
    MaxRuns = 3
    Airport <- OneAirport
    Components = {"flight_schedule", "weather"}
    SourceOf <- ArchiveSources
    Tables <- TablesOf
    Epoch = 0
SPECIFICATION Spec
INVARIANTS
    TypeOK
    StateHashesStored
    ReferencesResolve
    FinishedRunsReconstructable
    PartialNeverMasked
    RecordsTellGaps
PROPERTIES
    AppendOnly
    ImplementsArchive
CHECK_DEADLOCK FALSE
