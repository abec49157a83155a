--------------------------- MODULE AirportFriction ---------------------------
(***************************************************************************)
(* AirportFrictionCollector.collect: one run asks every request spec in    *)
(* order, decides per source whether the payload is new, and then writes   *)
(* three files into the asset directory, in this order:                    *)
(*                                                                         *)
(*   runs/...     the run manifest,                (atomic replace)        *)
(*   bundles/...  a tar with the new raw payloads, (member by member)      *)
(*   state/...    latest_hashes.json.              (atomic replace)        *)
(*                                                                         *)
(* The process may die between any two steps and the directory survives:   *)
(* the workflow commits whatever it finds there.  The next run starts from *)
(* the state file only.                                                    *)
(*                                                                         *)
(* A raw response body is a model value; SHA-256 is taken to be injective, *)
(* so the content hash of a source is the sequence of the page bodies it   *)
(* stands for, and the provider's timestamp is a function of it.           *)
(***************************************************************************)
EXTENDS ScheduleHealth, Sequences, FiniteSets

CONSTANTS
    Source,            \* source ids
    Specs,             \* _request_specs: the sources in the order they are asked
    Kac,               \* sources of provider "Korea Airports Corporation"
    Weather,           \* sources with the 30-minute cadence (KMA)
    Schedule,          \* kac_flight_schedule_*: the paginated sources
    Metar,             \* kma_metar_*: never checked for a totalCount
    Counted,           \* sources with fields read as integers: waiting times,
                       \* congestion levels and the spaces of the car parks
    Body,              \* raw response bodies that parse and carry result code 00
    Provider,          \* the bodies the live providers return
    Incomplete,        \* bodies with an expected field missing
    Malformed,         \* bodies with a number int() rejects: not finite
    PageCount,         \* the number of pages totalCount asks for
    FixtureResponses,  \* the response map of the fixture file, Body by source
    SecretSets,        \* the sets of sources whose repository secret may be set
    CadenceSeconds,    \* CADENCE_SECONDS
    WeatherCadence,    \* WEATHER_CADENCE_SECONDS
    DueSlack,          \* the 60 seconds _is_due allows
    MaxPages,          \* KAC_SCHEDULE_MAX_PAGES
    Modes,             \* the modes runs are dispatched with
    ForceWeather,      \* the force_weather inputs they are dispatched with
    Failures,          \* the ways a request may fail
    CanCrash,          \* may the process die?
    Gaps,              \* clock advances between two runs      (bound)
    MaxRuns            \* number of runs                       (bound)

FailureKinds == {"transport", "provider", "auth", "unexpected"}

ASSUME SourcesAssumption ==
    /\ Specs \in Seq(Source)
    /\ \A s \in Source : \E i \in 1..Len(Specs) : Specs[i] = s
    /\ \A i, j \in 1..Len(Specs) : Specs[i] = Specs[j] => i = j
    /\ Kac \subseteq Source /\ Weather \subseteq Source \ Kac
    /\ Schedule \subseteq Kac /\ Metar \subseteq Weather
    /\ Counted \subseteq Kac \ Schedule

ASSUME BodiesAssumption ==
    /\ Provider \subseteq Body /\ Incomplete \subseteq Body /\ Malformed \subseteq Body
    /\ PageCount \in [Body -> Nat]
    /\ DOMAIN FixtureResponses \subseteq Source
    /\ \A s \in DOMAIN FixtureResponses : FixtureResponses[s] \in Body
    /\ SecretSets \subseteq SUBSET Source

ASSUME NumbersAssumption ==
    /\ CadenceSeconds \in Nat \ {0} /\ WeatherCadence \in Nat \ {0} /\ DueSlack \in Nat
    /\ MaxPages \in Nat \ {0} /\ MaxRuns \in Nat /\ Gaps \subseteq Nat

ASSUME InputsAssumption ==
    /\ Modes \subseteq {"live", "fixture"} /\ ForceWeather \subseteq BOOLEAN
    /\ Failures \subseteq FailureKinds /\ CanCrash \in BOOLEAN

VARIABLES
    \* the asset directory
    state,      \* latest_hashes.json
    manifests,  \* runs/<run>.json, None when the file does not exist
    bundles,    \* bundles/<run>.tar: the payload members in it
    \* the process
    pc, run, now, mode, force,
    credentialed, \* the sources whose repository secret is set in this run
    mem,        \* the state object read at the start and updated in memory
    pos,        \* index of the current spec
    pages,      \* pages of the current source fetched so far
    obs,        \* observations
    payloads,   \* new payloads of this run
    kacFailures, kacCircuit,   \* the KAC circuit breaker
    alerts,     \* workflow_failure_reasons
    \* history
    finished    \* the runs that replaced the state file

disk    == <<state, manifests, bundles>>
request == <<pos, pages, obs, payloads, kacFailures, kacCircuit, alerts>>
clock   == <<run, now>>
inputs  == <<mode, force, credentialed>>
vars    == <<disk, pc, clock, inputs, mem, request, finished>>

Run      == 1..MaxRuns
Success  == {"OK", "PARTIAL", "DUPLICATE"}
Statuses == Success \cup {"ERROR", "SKIPPED_NOT_DUE"}
Causes   == FailureKinds \cup {"none", "circuit", "credential"}
Overall  == {"SUCCESS", "PARTIAL", "FAILED"}

Content == Seq(Body)

Entry == [content : Content, collected_at : Nat]

StateFile == [sources : [Source -> Entry \cup {None}], updated_at : Nat \cup {None},
              last_run : Run \cup {None}, last_status : Overall \cup {None},
              stored_payloads : Nat]

Observation == [status : Statuses, content : Content \cup {None}, stored : BOOLEAN,
                cause : Causes]

Health == [status : {"NO_BASELINE", "OK", "WARNING"}, late_by : Int, missed_intervals : Int]

Manifest == [mode : {"live", "fixture"}, status : Overall, collected_at : Nat,
             obs : [Source -> Observation], gaps : SUBSET Source, health : Health,
             alerts : SUBSET Causes, new_payloads : Nat]

ASSUME NoneAssumption ==
    None \notin Observation /\ None \notin Manifest /\ None \notin Entry /\ None \notin Nat

TypeOK ==
    /\ state \in StateFile /\ mem \in StateFile
    /\ manifests \in [Run -> Manifest \cup {None}]
    /\ bundles \in [Run -> SUBSET (Source \X Content)]
    /\ pc \in {"idle", "collect", "bundle", "state"}
    /\ run \in 0..MaxRuns /\ now \in Nat
    /\ mode \in {"live", "fixture"} /\ force \in BOOLEAN /\ credentialed \subseteq Source
    /\ pos \in 1..(Len(Specs) + 1) /\ pages \in Content
    /\ obs \in [Source -> Observation \cup {None}]
    /\ payloads \subseteq Source \X Content
    /\ kacFailures \in Nat /\ kacCircuit \in BOOLEAN
    /\ alerts \subseteq Causes /\ finished \subseteq Run

-----------------------------------------------------------------------------
(* read_json_state on a missing file, with collect's two defaults.          *)
EmptyState == [sources |-> [s \in Source |-> None], updated_at |-> None,
               last_run |-> None, last_status |-> None, stored_payloads |-> 0]

\* What is lost when the process ends, in one canonical form.
ProcessGone ==
    /\ pc' = "idle" /\ mem' = EmptyState /\ pos' = 1 /\ pages' = <<>>
    /\ obs' = [s \in Source |-> None] /\ payloads' = {}
    /\ kacFailures' = 0 /\ kacCircuit' = FALSE /\ alerts' = {}
    /\ mode' = "live" /\ force' = FALSE /\ credentialed' = {}

Init ==
    /\ state = EmptyState /\ mem = EmptyState
    /\ manifests = [r \in Run |-> None] /\ bundles = [r \in Run |-> {}]
    /\ pc = "idle" /\ run = 0 /\ now = 0 /\ mode = "live" /\ force = FALSE
    /\ credentialed = {}
    /\ pos = 1 /\ pages = <<>> /\ obs = [s \in Source |-> None] /\ payloads = {}
    /\ kacFailures = 0 /\ kacCircuit = FALSE /\ alerts = {}
    /\ finished = {}

-----------------------------------------------------------------------------
(* Helpers of the source loop.                                              *)

CadenceOf(s) == IF s \in Weather THEN WeatherCadence ELSE CadenceSeconds

\* Mutant: the weather follows the cadence of the collector.
IsDueEveryRun(s) ==
    ~force /\ s \in Weather /\ mem.sources[s] # None
       => now - mem.sources[s].collected_at >= CadenceSeconds - DueSlack

_is_due(s) ==
    ~force /\ s \in Weather /\ mem.sources[s] # None
       => now - mem.sources[s].collected_at >= CadenceOf(s) - DueSlack

\* total_pages: a missing or zero totalCount asks for one page.
TotalPages(s, first) ==
    CASE s \notin Schedule \/ PageCount[first] = 0 -> 1
      [] PageCount[first] > MaxPages -> MaxPages
      [] OTHER -> PageCount[first]

\* _missing_fields on the merged pages, pagination_incomplete included.
_missing_fields(s, content) ==
    \/ \E k \in DOMAIN content : content[k] \in Incomplete
    \/ s \notin Metar /\ PageCount[content[1]] > Len(content)

\* _workflow_failure_reason: only these need an operator.
_workflow_failure_reason(kind) == kind \in {"credential", "auth", "unexpected"}

src     == Specs[pos]
InLoop  == pc = "collect" /\ pos <= Len(Specs)
Blocked == src \in Kac /\ kacCircuit
Asking  == InLoop /\ ~Blocked /\ _is_due(src)

NextSource == pos' = pos + 1 /\ pages' = <<>>

Observed(status, content, stored, cause) ==
    obs' = [obs EXCEPT ![src] = [status |-> status, content |-> content,
                                 stored |-> stored, cause |-> cause]]

-----------------------------------------------------------------------------
\* Mutant: a run starts from an empty state object.
StartFromNothing ==
    /\ pc = "idle" /\ run < MaxRuns
    /\ pc' = "collect" /\ run' = run + 1
    /\ \E d \in Gaps : now' = now + d
    /\ mode' \in Modes /\ force' \in ForceWeather /\ credentialed' \in SecretSets
    /\ mem' = EmptyState
    /\ UNCHANGED <<disk, request, finished>>

(* A run is dispatched; the concurrency group lets one run at a time.       *)
Start ==
    /\ pc = "idle" /\ run < MaxRuns
    /\ pc' = "collect" /\ run' = run + 1
    /\ \E d \in Gaps : now' = now + d
    /\ mode' \in Modes /\ force' \in ForceWeather /\ credentialed' \in SecretSets
    /\ mem' = state
    /\ UNCHANGED <<disk, request, finished>>

\* The circuit is open: the source is not asked.
CircuitOpen ==
    /\ InLoop /\ Blocked
    /\ Observed("ERROR", None, FALSE, "circuit")
    /\ NextSource
    /\ UNCHANGED <<disk, pc, clock, inputs, mem, payloads, kacFailures, kacCircuit, alerts, finished>>

\* Not due: the observation repeats the hash and timestamp of the state file.
SkipNotDue ==
    /\ InLoop /\ ~Blocked /\ ~_is_due(src)
    /\ Observed("SKIPPED_NOT_DUE",
                IF mem.sources[src] = None THEN None ELSE mem.sources[src].content,
                FALSE, "none")
    /\ NextSource
    /\ UNCHANGED <<disk, pc, clock, inputs, mem, payloads, kacFailures, kacCircuit, alerts, finished>>

\* Mutants of Accept: the entry keeps the clock of the last run; pages after the
\* first are not compared; a repeated answer is DUPLICATE whatever it lacks.
AcceptAs(content, duplicate, status, at) ==
    /\ payloads' = IF duplicate THEN payloads ELSE payloads \cup {<<src, content>>}
    /\ Observed(status, content, ~duplicate, "none")
    /\ kacFailures' = IF src \in Kac THEN 0 ELSE kacFailures
    /\ mem' = [mem EXCEPT !.sources[src] = [content |-> content, collected_at |-> at]]
    /\ NextSource

AcceptWithOldClock(content) == AcceptAs(content, FALSE, "OK", state.updated_at)

AcceptByFirstPage(content) ==
    AcceptAs(content, mem.sources[src] # None /\ mem.sources[src].content[1] = content[1],
             IF _missing_fields(src, content) THEN "PARTIAL" ELSE "OK", now)

AcceptDuplicateFirst(content) ==
    LET duplicate == mem.sources[src] # None /\ mem.sources[src].content = content
    IN AcceptAs(content, duplicate,
                IF duplicate THEN "DUPLICATE"
                ELSE IF _missing_fields(src, content) THEN "PARTIAL" ELSE "OK", now)

\* All pages are in: dedupe against the state file, then record.
Accept(content) ==
    LET duplicate == mem.sources[src] # None /\ mem.sources[src].content = content
        status == IF _missing_fields(src, content) THEN "PARTIAL"
                  ELSE IF duplicate THEN "DUPLICATE" ELSE "OK"
    IN /\ payloads' = IF duplicate THEN payloads ELSE payloads \cup {<<src, content>>}
       /\ Observed(status, content, ~duplicate, "none")
       /\ kacFailures' = IF src \in Kac THEN 0 ELSE kacFailures
       /\ mem' = [mem EXCEPT !.sources[src] = [content |-> content, collected_at |-> now]]
       /\ NextSource

\* A page that parses.  Only the first page comes from the fixture file.
Respond(body) ==
    LET content == Append(pages, body)
    IN IF Len(content) < TotalPages(src, content[1])
       THEN /\ pages' = content
            /\ UNCHANGED <<mem, pos, obs, payloads, kacFailures>>
       ELSE Accept(content)

FixturePage ==
    /\ Asking /\ mode = "fixture" /\ pages = <<>>
    /\ src \in DOMAIN FixtureResponses
    /\ Respond(FixtureResponses[src])
    /\ UNCHANGED <<disk, pc, clock, inputs, kacCircuit, alerts, finished>>

LivePage ==
    /\ Asking /\ (mode = "live" \/ pages # <<>>)
    /\ src \in credentialed
    /\ \E body \in Provider : Respond(body)
    /\ UNCHANGED <<disk, pc, clock, inputs, kacCircuit, alerts, finished>>

\* Mutant: another failure does not end a series of transport failures.
FailKeepsCount(kind) ==
    LET failures == IF kind = "transport" THEN kacFailures + 1 ELSE kacFailures
    IN /\ Observed("ERROR", None, FALSE, kind)
       /\ NextSource
       /\ alerts' = IF _workflow_failure_reason(kind) THEN alerts \cup {kind} ELSE alerts
       /\ IF src \in Kac
          THEN kacFailures' = failures /\ kacCircuit' = (failures >= 2)
          ELSE UNCHANGED <<kacFailures, kacCircuit>>
       /\ UNCHANGED <<disk, pc, clock, inputs, mem, payloads, finished>>

\* The except clause: whatever was fetched of the source is dropped.
Fail(kind) ==
    LET failures == IF kind = "transport" THEN kacFailures + 1 ELSE 0
    IN /\ Observed("ERROR", None, FALSE, kind)
       /\ NextSource
       /\ alerts' = IF _workflow_failure_reason(kind) THEN alerts \cup {kind} ELSE alerts
       /\ IF src \in Kac
          THEN kacFailures' = failures /\ kacCircuit' = (failures >= 2)
          ELSE UNCHANGED <<kacFailures, kacCircuit>>
       /\ UNCHANGED <<disk, pc, clock, inputs, mem, payloads, finished>>

RequestFails ==
    /\ Asking /\ (mode = "live" \/ pages # <<>>)
    /\ src \in credentialed
    /\ \E kind \in Failures : Fail(kind)

\* Mutant: a missing secret is not caught and ends the process.
CredentialMissingRaises ==
    /\ Asking /\ (mode = "live" \/ pages # <<>>)
    /\ src \notin credentialed
    /\ ProcessGone
    /\ UNCHANGED <<disk, clock, finished>>

CredentialMissing ==
    /\ Asking /\ (mode = "live" \/ pages # <<>>)
    /\ src \notin credentialed
    /\ Fail("credential")

FixtureMissing ==
    /\ Asking /\ mode = "fixture" /\ pages = <<>>
    /\ src \notin DOMAIN FixtureResponses
    /\ Fail("unexpected")   \* KeyError

-----------------------------------------------------------------------------
(* After the loop.                                                          *)

LoopDone == pc = "collect" /\ pos > Len(Specs)

With(status) == {s \in Source : obs[s].status \in status}

\* normalize_records raises on some parsed payload of this run: _number takes
\* a number for one that int() rejects, and is asked for an integer.
Unnormalizable ==
    \E s \in With(Success) \cap Counted : \E k \in DOMAIN obs[s].content : obs[s].content[k] \in Malformed

NormalizeFails ==
    /\ LoopDone /\ Unnormalizable
    /\ ProcessGone
    /\ UNCHANGED <<disk, clock, finished>>

\* Mutant: one cadence for all sources.
SourceGapsOneCadence ==
    {s \in Source : \/ mem.sources[s] = None
                    \/ PastGapThreshold(now - mem.sources[s].collected_at, CadenceSeconds)}

\* source_gaps: measured after the loop, so a source that answered has age 0.
SourceGaps ==
    {s \in Source : \/ mem.sources[s] = None
                    \/ PastGapThreshold(now - mem.sources[s].collected_at, CadenceOf(s))}

OverallStatus ==
    IF With({"ERROR", "PARTIAL"}) = {} THEN "SUCCESS"
    ELSE IF With(Success) # {} THEN "PARTIAL" ELSE "FAILED"

\* Mutants of WriteManifest: the bundle is not awaited; the storage counter
\* grows by every answer.
WriteManifestAs(counted, next) ==
    /\ LoopDone /\ ~Unnormalizable
    /\ manifests' = [manifests EXCEPT ![run] =
          [mode |-> mode, status |-> OverallStatus, collected_at |-> now, obs |-> obs,
           gaps |-> SourceGaps, health |-> schedule_health(state.updated_at, now, CadenceSeconds),
           alerts |-> alerts, new_payloads |-> Cardinality(payloads)]]
    /\ mem' = [mem EXCEPT !.stored_payloads = @ + Cardinality(counted)]
    /\ pc' = next
    /\ UNCHANGED <<state, bundles, clock, inputs, request, finished>>

WriteManifestThenState == WriteManifestAs(payloads, "state")

WriteManifestCountsAnswers ==
    WriteManifestAs(With(Success), IF payloads = {} THEN "state" ELSE "bundle")

WriteManifest ==
    /\ LoopDone /\ ~Unnormalizable
    /\ manifests' = [manifests EXCEPT ![run] =
          [mode |-> mode, status |-> OverallStatus, collected_at |-> now, obs |-> obs,
           gaps |-> SourceGaps, health |-> schedule_health(state.updated_at, now, CadenceSeconds),
           alerts |-> alerts, new_payloads |-> Cardinality(payloads)]]
    /\ mem' = [mem EXCEPT !.stored_payloads = @ + Cardinality(payloads)]
    /\ pc' = IF payloads = {} THEN "state" ELSE "bundle"
    /\ UNCHANGED <<state, bundles, clock, inputs, request, finished>>

\* Mutant: the bundle is left after its first member.
WriteOneMember ==
    /\ pc = "bundle"
    /\ \E p \in payloads \ bundles[run] :
          bundles' = [bundles EXCEPT ![run] = @ \cup {p}]
    /\ pc' = "state"
    /\ UNCHANGED <<state, manifests, clock, inputs, mem, request, finished>>

\* tarfile writes straight to the final path, one member after the other.
WriteMember ==
    /\ pc = "bundle"
    /\ \E p \in payloads \ bundles[run] :
          /\ bundles' = [bundles EXCEPT ![run] = @ \cup {p}]
          /\ pc' = IF payloads \subseteq bundles'[run] THEN "state" ELSE "bundle"
    /\ UNCHANGED <<state, manifests, clock, inputs, mem, request, finished>>

\* Mutant: updated_at is not renewed.
WriteStateOldClock ==
    /\ pc = "state"
    /\ state' = [mem EXCEPT !.last_run = run, !.last_status = manifests[run].status]
    /\ finished' = finished \cup {run}
    /\ ProcessGone
    /\ UNCHANGED <<manifests, bundles, clock>>

WriteState ==
    /\ pc = "state"
    /\ state' = [mem EXCEPT !.updated_at = now, !.last_run = run,
                            !.last_status = manifests[run].status]
    /\ finished' = finished \cup {run}
    /\ ProcessGone
    /\ UNCHANGED <<manifests, bundles, clock>>

\* The process dies; the directory is left as it is.
Crash ==
    /\ CanCrash /\ pc # "idle"
    /\ ProcessGone
    /\ UNCHANGED <<disk, clock, finished>>

Step ==
    \/ CircuitOpen \/ SkipNotDue \/ FixturePage \/ LivePage
    \/ RequestFails \/ CredentialMissing \/ FixtureMissing
    \/ NormalizeFails \/ WriteManifest \/ WriteMember \/ WriteState

Next == Start \/ Step \/ Crash

Spec == Init /\ [][Next]_vars

\* Every request has a timeout and a bounded number of retries, and nothing
\* in a run waits for another process: a started run keeps taking steps.
FairSpec == Spec /\ WF_vars(Step)

-----------------------------------------------------------------------------
(***************************************************************************)
(* Safety.                                                                 *)
(***************************************************************************)

Stored(s, content, upTo) == \E r \in 1..upTo : <<s, content>> \in bundles[r]

\* A payload is skipped as a duplicate on the word of the state file alone, so
\* every hash in that file, on disk or in the memory of a running process,
\* must name a payload some bundle already holds or this run is to write.
StateHashesStored ==
    \A s \in Source :
       /\ state.sources[s] # None => Stored(s, state.sources[s].content, run)
       /\ mem.sources[s] # None =>
             \/ Stored(s, mem.sources[s].content, run)
             \/ <<s, mem.sources[s].content>> \in payloads

\* An observation without a raw member (DUPLICATE, a repeated PARTIAL, a
\* SKIPPED_NOT_DUE) can be resolved in a bundle of an EARLIER run, whatever
\* was interrupted in between.
ReferencesResolve ==
    \A r \in Run : manifests[r] # None =>
       \A s \in Source :
          LET o == manifests[r].obs[s]
          IN o.content # None /\ ~o.stored => Stored(s, o.content, r - 1)

\* A run that replaced the state file left a manifest and, in its own bundle,
\* every raw member the manifest lists and nothing else.
FinishedRunsReconstructable ==
    \A r \in finished :
       /\ manifests[r] # None
       /\ bundles[r] = {<<s, manifests[r].obs[s].content>> :
                          s \in {x \in Source : manifests[r].obs[x].stored}}

\* The state file is the last finished run's: same clock and status, and its
\* entry of a source is the newest answer among the finished runs.
StateIsLastFinishedRun ==
    /\ finished = {} => state = EmptyState
    /\ finished # {} =>
          LET last == state.last_run
              answered(s) == {r \in finished : manifests[r].obs[s].status \in Success}
          IN /\ last \in finished /\ \A r \in finished : r <= last
             /\ state.updated_at = manifests[last].collected_at
             /\ state.last_status = manifests[last].status
             /\ \A s \in Source :
                   IF answered(s) = {} THEN state.sources[s] = None
                   ELSE \E r \in answered(s) :
                           /\ \A q \in answered(s) : q <= r
                           /\ state.sources[s] = [content |-> manifests[r].obs[s].content,
                                                  collected_at |-> manifests[r].collected_at]

\* The storage counter never runs ahead of the archive: it is the number of
\* payloads the finished runs put into their bundles.
StorageCounted ==
    state.stored_payloads =
       Cardinality(UNION {{r} \X bundles[r] : r \in finished})

\* The circuit breaker, read off the manifest: a KAC source is refused with
\* the circuit's error exactly when two KAC sources that follow one another
\* before it both failed in transport.  No other source is ever refused.
TransportPairBefore(o, j) ==
    \E a, b \in 1..(j - 1) :
       /\ a < b /\ Specs[a] \in Kac /\ Specs[b] \in Kac
       /\ \A k \in (a + 1)..(b - 1) : Specs[k] \notin Kac
       /\ o[Specs[a]].cause = "transport" /\ o[Specs[b]].cause = "transport"

CircuitExact ==
    \A r \in Run : manifests[r] # None =>
       \A j \in 1..Len(Specs) :
          manifests[r].obs[Specs[j]].cause = "circuit"
             <=> Specs[j] \in Kac /\ TransportPairBefore(manifests[r].obs, j)

\* Dedupe is a storage decision, not a data-quality override: an answer with a
\* field or a page missing is PARTIAL however often it repeats, and its run is
\* never a SUCCESS.
PartialNeverMasked ==
    \A r \in Run : manifests[r] # None =>
       \A s \in Source :
          LET o == manifests[r].obs[s]
          IN o.status \in Success /\ _missing_fields(s, o.content) =>
                o.status = "PARTIAL" /\ manifests[r].status # "SUCCESS"

\* What a manifest says about lateness agrees with the finished runs before it:
\* the schedule health with the newest of them, late by what exceeds a cadence
\* and missing the whole cadences in that, early runs by none; and each source
\* gap with the newest of them, or this run, in which the source answered.
HealthMatchesHistory ==
    \A r \in Run : manifests[r] # None =>
       LET m == manifests[r]
           before == {q \in finished : q < r}
           age(q) == m.collected_at - manifests[q].collected_at
           late   == m.health.late_by
           missed == m.health.missed_intervals
           answered(s) == {q \in before \cup {r} : manifests[q].obs[s].status \in Success}
       IN /\ (m.health.status = "NO_BASELINE") <=> before = {}
          /\ (m.health.status = "WARNING") <=>
                before # {} /\ \A q \in before : 2 * age(q) > 5 * CadenceSeconds
          /\ late >= 0 /\ (late > 0 => before # {})
          /\ before # {} => \E q \in before : age(q) <= CadenceSeconds + late
          /\ late > 0 => \A q \in before : age(q) >= CadenceSeconds + late
          /\ missed * CadenceSeconds <= late /\ late < (missed + 1) * CadenceSeconds
          /\ \A s \in Source :
                s \in m.gaps <=> \A q \in answered(s) : 2 * age(q) > 5 * CadenceOf(s)

\* The weather cadence, over any two finished runs: a source is asked again, by
\* a run that does not force it, only after its cadence less the slack, and it
\* is left out only while its last answer is younger than that.
CadenceKept ==
    [][state' # state => \A s \in Weather :
          LET before == state.sources[s]
              after == state'.sources[s]
          IN /\ ~force /\ before # None /\ after # before =>
                   after.collected_at - before.collected_at >= WeatherCadence - DueSlack
             /\ manifests[run].obs[s].status = "SKIPPED_NOT_DUE" =>
                   before # None /\ now - before.collected_at < WeatherCadence - DueSlack
      ]_state

\* No step loses the baseline of a source, moves it back in time, or points it
\* at a payload that is not yet in a bundle; no step removes or alters a
\* manifest or takes a member out of a bundle.
AppendOnly ==
    [][/\ \A s \in Source : state.sources[s] # None =>
            /\ state'.sources[s] # None
            /\ state'.sources[s].collected_at >= state.sources[s].collected_at
       /\ \A s \in Source : state'.sources[s] # state.sources[s] =>
            Stored(s, state'.sources[s].content, run)
       /\ \A r \in Run : manifests[r] # None => manifests'[r] = manifests[r]
       /\ \A r \in Run : bundles[r] \subseteq bundles'[r]
      ]_disk

(***************************************************************************)
(* Refinement: the payloads in the bundles and the hashes of the state     *)
(* file are a PayloadArchive.  A crash between the bundle and the state    *)
(* file is a Store with no Publish after it.                               *)
(***************************************************************************)
storedPayloads == UNION {bundles[r] : r \in Run}

latestContents == [s \in Source |-> IF state.sources[s] = None THEN None
                                    ELSE state.sources[s].content]

Archive == INSTANCE PayloadArchive WITH stored <- storedPayloads, latest <- latestContents

\* Every step of the collector, a crash included, is a step of the abstract
\* archive: nothing stored is lost and no hash is published before its payload.
ImplementsArchive == Archive!Spec

(***************************************************************************)
(* Liveness: unless the process dies or an answer cannot be normalized, a  *)
(* run that started is recorded, whatever the providers answer.            *)
(***************************************************************************)
RunIsRecorded == \A r \in Run : (run = r /\ pc # "idle") ~> (r \in finished)

(***************************************************************************)
(* Statements of the documentation the code does not keep.                 *)
(***************************************************************************)

\* "fixtures cannot silently enter the production time series": what a LIVE
\* manifest says of a source came from a live provider.
NoFixtureInLive ==
    \A r \in Run : manifests[r] # None /\ manifests[r].mode = "live" =>
       \A s \in Source :
          LET content == manifests[r].obs[s].content
          IN content # None => \A k \in DOMAIN content : content[k] \in Provider

\* "Provider/API failures are always saved": a run that ends by itself leaves
\* its manifest.
EveryRunLeavesManifest == run > 0 /\ pc = "idle" => manifests[run] # None
=============================================================================
