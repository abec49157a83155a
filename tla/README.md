# Verification of the Public Data Alpha Engine

TLA+ models of the collectors, archives and registry of this repository, the
TLC runs that check them on small instances, and proofs checked by TLAPS.
Paths below are relative to the repository root; `pdae/` stands for
`src/public_data_alpha_engine/`.

    tlc -workers 2 -config AirportArchive.cfg MCAirportRecord
    tlapm AirportFrictionProofs.tla

`PROJECT.json` lists the components, runs, mutants, findings, hazards and
theorems, and maps every definition that models code to the lines it models.

## 1. The system

The engine collects public data on two sides.

**The archive side** runs in GitHub Actions and keeps files on the `data`
branch. An external scheduler dispatches two workflows every quarter of an
hour. Each checks the branch out, runs one collector on the clone, commits and
pushes.

| component | state it keeps | operations |
|---|---|---|
| Airport Friction collector (`pdae/airport_friction.py`) | `state/airport_friction/latest_hashes.json`, run manifests, tar bundles; in a run: observations, new payloads, the KAC circuit | `collect`: 22 sources in order, each skipped, refused by the circuit, answered (in up to three pages) or failed; then `normalize_records`, which makes a record of each airport; then manifest, bundle, state |
| Seoul cloud archive (`pdae/cloud_archive.py`) | the same kinds of files, for eight areas | `collect_cloud_archive`: each area in JSON, then XML; then manifest, bundle, state |
| schedule health, archive files (`pdae/archive.py`) | none | late and missed runs, atomic JSON replace |
| HTTP client (`pdae/http_client.py`) | one call: attempt, status, retries | `request`: attempts, back-off, errors that repeat and errors that escape |
| data branch (`scripts/push_data_branch.sh`, `.github/workflows/collect-*.yml`) | the branch, pending and running jobs | dispatch, replace, checkout, commit, push, rebase, cancel |

**The analysis side** runs from cron on one host and keeps an SQLite database
and a directory of raw files.

| component | state it keeps | operations |
|---|---|---|
| Seoul realtime collector (`pdae/collectors/seoul_city.py`, `storage.py`) | raw payload rows and files, snapshots, runs, gap events | `collect`, `collect_area`, `store_raw_payload`, `detect_gaps`; the `health` command |
| registry mirror (`pdae/registry.py`, `sources.py`) | datasets, their events, raw batches, runs | `mirror_records`, `reconcile_planned_to_open`, `start_run`, `finish_run` |
| scoring (`pdae/scoring.py`) | dimensions, scores, overrides, the seed queue | `score_all`, `score_dataset`, `set_override` |
| pre-release watcher (`pdae/prerelease.py`) | signals, links to datasets | `upsert_signals`, `link_signals_to_datasets` |
| bootstrap (`pdae/bootstrap.py`) | all of the above, at the start and again at any time | seed rows, seed signals, seed overrides, links, scores |
| exports, calendar, utilities, factory | none | read-only or pure |

They interact through files and the database only: the collectors through the
branch (two writers, one remote), the commands through SQLite's single write
lock, and everything that dedupes through what an earlier run left behind.

**What is hard.** Three durable writes in a row with a process that may die
between any two of them; dedupe that trusts the last state file; one provider's
failures counted across another's requests; a fixture mode that shares the
state of the live one; pushes that race, are rejected, or arrive although they
failed; a write lock held over network requests; raw files written outside the
transaction; an except clause that commits; commands that read before they hold
the lock they write under; time windows that end at midnight. The `hazards` of `PROJECT.json`
name the lines.

**What makes the parts correct.**

- Archive: every hash the state file names is in a bundle; what a manifest
  refers to can be found; nothing is altered or lost; a finished run can be
  reconstructed; a partial answer is never hidden; the cadence gate and the
  circuit do what the comments and the runbook say.
- Branch: each commit continues the last one of its workflow; what was accepted
  is there, once; a race costs a run its commit only after all attempts.
- Database: rows have files and provenance, events explain rows, counters add
  up, snapshots are the changes, gaps follow the observations, one override per
  dimension is in force, a run that succeeds leaves nothing unlinked or
  unscored, no command undoes another's commit, the lock comes free.
- Records of airports: the departures are those of the next half hour of the
  day, and quality OK means that nothing was missing.

## 2. The modules

| module | models | abstracts |
|---|---|---|
| `ScheduleHealth` | `schedule_health` | seconds are integers; the threshold 2.5 is compared as `2 * elapsed > 5 * cadence` |
| `PayloadArchive` | what both archives promise: contents are stored, then published, and never lost | everything else |
| `AirportFriction` | `AirportFrictionCollector.collect` | a raw body is a value that stands for its hash; requests with their retries are one step |
| `AirportRecord` | `normalize_records`: the record a manifest holds of each airport, as an operator on the manifest | a body stands for the provider's tables when it was sent; minutes; values copied from one field to another |
| `HttpClient` | `HttpClient.request` | bodies; the caller owns the call between `Request` and `Reset` |
| `CloudArchive` | `collect_cloud_archive` on top of `HttpClient` | as above |
| `DataBranch` | both workflows and the push script | files: a commit names its run, whether the state file is new in it, and the run whose state file it started from |
| `SeoulCity` | `collect`, `collect_area`, `store_raw_payload`, `detect_gaps`, the `health` command | a body stands for its hash, its timestamp and its missing sections; the day in a file's path |
| `Scoring` | the rules of `scoring.py`: dimensions, weights, totals, the gate | metadata is reduced to the classes and counts the rules read |
| `Catalog` | `mirror-odcloud`, `mirror-csv`, `watch-nia`, `bootstrap`, `score`, `set_override` | one monitored field (`modified`) stands for those but the status; title similarity and the tokens of a dataset are tables |

`AirportRecord` extends `AirportFriction`, `Catalog` extends `Scoring`.
`CloudArchive` composes `HttpClient`: its variables are the client's and its
own, `Ask` starts a call, `Transfer` lets the client step, and `Accept`,
`AskAgain` and `GiveUp` end it. Both archives instantiate `PayloadArchive` with
a refinement mapping (`storedPayloads`, `latestContents` / `latestHashes`).
`MC*` modules hold the values of constants, `*Proofs` the proofs.

### State and actions against the code

**AirportFriction.** `state`, `manifests` and `bundles` are the asset
directory; `mem` is the `state` object `collect` reads at its start and updates
in memory; `obs`, `payloads`, `kacFailures`, `kacCircuit` and `alerts` are its
local variables. `Start` is the prologue. An iteration of the source loop is
`CircuitOpen`, `SkipNotDue`, a series of pages (`FixturePage`, `LivePage`, the
last of which performs `Accept`) or a failure (`RequestFails`,
`CredentialMissing`, `FixtureMissing`, all of which perform `Fail`, the except
clause). Only the first page of a source comes from the fixture file, as in the
code. `NormalizeFails` is an exception out of `normalize_records`, which is
outside the try block; only the KAC sources whose counts are read as integers
(`Counted`) can raise it, the numbers of a METAR cannot. `WriteManifest`, `WriteMember` (one tar member, as the
tar is written in place) and `WriteState` are the three writes. `Crash` may
happen between any two steps; the workflow's collector step exits 0 and commits
what is there. `finished`, a history variable, holds the runs that replaced the
state file.

**AirportRecord.** What `normalize_records` returns is a function of the
observations, of the payloads parsed in this run and of the clock, so `records`
is an operator on a manifest and no variable. `Rows` are the rows of the merged
pages, each at its place, so that equal rows count twice. `_request_window` and
`Requested` are what a flight request asks for and gets; `Upcoming` and
`TimetableUpcoming` select the next half hour; `Flagged` and `HasValue` are the
two ways in which a component ends in the list of missing components.

**HttpClient, CloudArchive.** `slept` is a history variable: the sleeps of the
call under way. The collector differs from the airport's where it matters: a
repeated body is DUPLICATE even when sections are missing, a run with PARTIAL
answers is a SUCCESS, and without a secret one area only is asked. `died`, a
history variable, tells the runs that were killed from those that ended.

**DataBranch.** `remote` is the branch as a sequence of commits; a job's clone
is `base`, the length of the prefix it holds, and at most one commit on top.
`pending` and `job` are GitHub's concurrency groups, where a newer dispatch
replaces a pending one. `PushInterrupted` lets the network fail before or after
the remote took the commit; `Rebase` drops a commit the branch already holds,
as `git rebase` does; `Cancel` is the workflow's 10-minute limit. The step of
the collector exits 0 when it dies: a run that got no further than its manifest
is committed like any other (`finished` is FALSE in its commit), and the next
run starts from the newest commit that `Renews` the state file. `git add` fails
where the directory it names holds no state (`HasState`): the airport workflow
adds its own directory, the Seoul workflow `state` as a whole (`AddsAll`), so
that a first Seoul run that died is committed once an airport state is there.

**SeoulCity, Catalog.** `db` is the committed database, `tx` the same as the
owner of the write lock sees it. `start_run`'s INSERT takes the lock
(`Acquire`), which is kept while areas or batches are fetched; a process that
waits longer than `busy_timeout` dies (`Busy`). `OpenFile` and `WriteFile`
split `write_bytes`, outside the transaction. `RollBack` is a crash, or an
exception outside the except clauses.

In `SeoulCity` the health command has a connection of its own (`health`). Its
cursor over the places stays open while it goes from area to area, so it reads
the database as it was at its first read (`view`); its first write needs the
lock and, as SQLite has it, a view that is still the newest one (`MayWrite`).

In `Catalog`, `Fail` is the except clause of the mirror commands and of the
watcher, which commits what was mirrored so far. `StartScore` and
`StartOverride` are what `score` and `set_override` read before their first
write takes the lock. `Bootstrap` holds the lock throughout, so it is one step;
`bootstrap` names the order of what it does. The rows of `score_overrides` are
kept by dataset and dimension, in the order they were inserted (`Replaced` is
the UPDATE and the INSERT of `set_override`).

## 3. The runs

Passing runs (properties in `PROJECT.json`; each has a mutant of a modelled
definition that violates it under the same `.cfg`):

| run | instance | asks |
|---|---|---|
| `AirportArchive` | a paginated and a weather source, 3 runs, crashes | is the archive sound whatever is interrupted, and do the records tell what is missing? `StateHashesStored`, `ReferencesResolve`, `FinishedRunsReconstructable`, `PartialNeverMasked`, `RecordsTellGaps`, `AppendOnly`, refinement of `PayloadArchive` |
| `AirportOperations` | both modes, KMA secret set or not, force_weather, clock advances of 14, 15 and 45 minutes, crashes, KAC counts that cannot be normalized | do state, storage counter, health (by how much is a run late, how many intervals were missed, which sources are silent) and cadence follow the finished runs? `StateIsLastFinishedRun`, `StorageCounted`, `HealthMatchesHistory`, `CadenceKept` |
| `AirportCircuit` | four KAC sources around a weather source, all failures, one run at ten o'clock or at a quarter to midnight | does the circuit open exactly after two transport failures in a row, are the departures counted that the day has in the next half hour, does a run leave a manifest? `CircuitExact`, `RecordsTellGaps`, `DeparturesExact`, `RunIsRecorded` |
| `CloudArchive` | two areas, sample and cohort mode, one retry, 404 and 503, 3 runs, crashes | is dedupe exact, are retries, is the archive sound, does every run that is not killed get to its state file? `RetriesExact`, `DedupeExact`, refinement of `PayloadArchive`, `RunEnds` |
| `DataBranch` | one Seoul and three airport dispatches, 3 push attempts, collectors that finish or die | is an update lost or doubled, is an outcome wrong, does a dispatch stay unsettled? `NoLostUpdate`, `OutcomeHonest`, `GivesUpOnlyWhenOverrun`, `ReplacedByOwnOnly`, `EveryDispatchSettles` |
| `SeoulCity` | three commands: collectors of two processes, or health commands beside them; two areas of which one changes its answer | do rows, files, counters, snapshots and gaps agree; does a command undo another's commit; is the lock released? `RowsHaveFiles`, `SnapshotsAreChanges`, `RunsAccounted`, `GapsMatchObservations`, `NothingUndone`, `LockIsReleased` |
| `Catalog` | four commands of two processes over one planned, two open and one seed dataset and two signals | do events explain rows, has each row its payload, is one override in force, may one bootstrap again, is a success complete? `EventsExplainRows`, `RowsHaveProvenance`, `OneOverrideInForce`, `BootstrapIdempotent`, `SuccessIsComplete` |

Each module has one type invariant, checked by one of its runs where the rest
of the properties does not make it superfluous.

Runs that find a statement of the documentation violated by the code:

| run | statement | what happens |
|---|---|---|
| `AirportFixture` | runbook: fixtures cannot silently enter the production time series | a live run that skips a weather source repeats the hash of a fixture body |
| `AirportMidnight` | schema: departures inside `[observed_at, observed_at + 30m]` | the window asked for ends at 23:59, so a record of 23:45 leaves out a departure of 00:05, with quality OK |
| `AirportManifest` | runbook: provider failures are always saved | a KAC count of `nan` or `inf` ends a run without manifest |
| `SeoulSnapshot` | data dictionary: a snapshot is left out when the last hash is the same | an answer that changes and changes back meets the UNIQUE constraint and becomes an ERROR |
| `CatalogGate` | scoring spec: RESTRICTED is METADATA_ONLY | a mirror that fails half-way commits the restricted row and leaves COLLECT_NOW in the queue |

None of them needs a crash: each is a sequence of legal answers and commands.

### Bounds, and why they are enough

Time is in minutes: cadence 15, weather 30, slack 1. Three runs are what the
deepest archive property needs: one that stores, one that dies or skips, one
that relies on what is left. Clock advances of 14, 15 and 45 lie on both sides
of the weather gate (29 of 30 minutes) and of the gap thresholds (37.5 and 75).
Two airport sources are the least with different cadence and provider; the
circuit needs four KAC sources (two to open it, one to be refused, one to show
a reset) and a weather source between them. Its run starts at ten o'clock, with
departures at the minute, 30 and 31 minutes later, or at a quarter to midnight,
where the window is clamped and the small hours of the same day lie beyond it
(`AirportMidnight` has this hour only, and no failures).

In `DataBranch` three push attempts, for the script's four, give a first, a
middle and a last pass of the loop; a Seoul run can then be overrun by the
three airport runs, and three airport dispatches let one be replaced while one
is in progress. In `SeoulCity` three commands give the answers A, B, A, two
collectors around a health command, or one collector between the reads and the
writes of a health command. In `Catalog` every behaviour starts with a
bootstrap; four more commands let a dataset be planned, opened, linked and
mirrored again, an override be set by two reviewers and a bootstrap, and a
mirror commit while a score command waits. The seed scores lie at exactly 75.00
and at 71.80; the overrides move them to either side.

`MaxRuns`, `MaxJobs`, `MaxCommands`, `Gaps`, `Feeds` and the body sets are
bounds of the instances. Deadlock is not checked because all modules stop at
such a bound. `Catalog` uses symmetry in its processes, and states no liveness.

### Fairness

`WF_vars(Step)` in the archives: every request has a timeout and a bounded
number of retries, sleeps have a length, and a run waits for no other process;
a crash is never fair and a run may always crash. `WF_vars(JobStep(g))` in
`DataBranch`: GitHub starts a pending run when its group is free and cancels a
job after 10 minutes. `WF_vars(RunStep)` and `WF_vars(Waits(p))` in
`SeoulCity`: the same for a run, and `busy_timeout` bounds a wait. Nothing is
assumed of dispatches or starts. `WF_vars(HealthStep)` lets a health command end:
it waits for nothing but the lock, and not for long.

## 4. What is proved

All theorems hold for every value of the constants that satisfies the named
assumptions of the module: any sources, areas, bodies, workflows, processes,
datasets, failures, clock advances and numbers of runs. `None` is only assumed
to differ from the values it stands beside.

| module | theorem | states |
|---|---|---|
| `AirportFrictionProofs` | `TypeCorrect` | `Spec => []TypeOK` |
| | `HashesAreStored` | `Spec => []StateHashesStored` |
| | `ManifestReferencesResolve` | `Spec => []ReferencesResolve` |
| | `CollectorImplementsArchive` | `Spec => ImplementsArchive` |
| `AirportHistoryProofs` | `FinishedRunsComplete` | `Spec => []FinishedRunsReconstructable` |
| | `PartialStaysVisible` | `Spec => []PartialNeverMasked` |
| | `StateFollowsLastRun` | `Spec => []StateIsLastFinishedRun` |
| | `CircuitIsExact` | `Spec => []CircuitExact` |
| | `StorageIsCounted` | `Spec => []StorageCounted` |
| | `HealthIsHistory` | `Spec => []HealthMatchesHistory` |
| | `ArchiveAppendsOnly` | `Spec => AppendOnly` |
| | `CadenceIsKept` | `Spec => CadenceKept` |
| `AirportRecordProofs` | `QualityIsExact` | `Spec => []RecordsTellGaps` |
| | `DeparturesCounted` | `Spec => []DeparturesExact` |
| `CloudArchiveProofs` | `CollectorImplementsArchive` | `Spec => ImplementsArchive` |
| | `DedupeIsExact` | `Spec => []DedupeExact` |
| | `RetriesAreExact` | `Spec => []RetriesExact` |
| | `CloudTypeCorrect` | `Spec => []TypeOK` |
| `DataBranchProofs` | `TypeCorrect` | `Spec => []TypeOK` |
| | `NoUpdateLost` | `Spec => []NoLostUpdate` |
| | `HonestOutcomes` | `Spec => []OutcomeHonest` |
| | `OverrunIsEarned` | `Spec => GivesUpOnlyWhenOverrun` |
| | `ReplacedByOwn` | `Spec => ReplacedByOwnOnly` |
| `SeoulCityProofs` | `TypeCorrect` | `Spec => []TypeOK` |
| | `RowsNameFiles` | `Spec => []RowsHaveFiles` |
| | `SnapshotsChange` | `Spec => []SnapshotsAreChanges` |
| | `CommitsAdd` | `Spec => NothingUndone` |
| | `GapsTell` | `Spec => []GapsMatchObservations` |
| | `RunsAreAccounted` | `Spec => []RunsAccounted` |
| `CatalogProofs` | `Provenance` | `Spec => []RowsHaveProvenance` |
| | `NothingLeft` | `Spec => SuccessIsComplete` |
| | `CatalogTypeCorrect` | `Spec => []TypeOK` |
| | `EventsAreExplained` | `Spec => []EventsExplainRows` |
| | `NewestInForce` | `Spec => []OneOverrideInForce` |
| | `BootstrapChangesNothing` | `Spec => []BootstrapIdempotent` |
| `ScoringProofs` | `ScoresBounded` | the totals of a dataset lie between 0.00 and 100.00 |

Every invariant and every action property the passing runs check is the
statement of one of these theorems.

None of the invariants is inductive as it stands. What each rests on:

**Airport collector.** `Inv1` is `TypeInv` (`TypeOK`, and `payloads` is finite)
with `Progress`: what each `pc` says of the run, namely that every source before
`pos` has an observation and that a manifest exists once the loop is left. It is
needed for types already: a manifest is well typed only because every source
has been observed. `Inv2` adds `BaselineInv`: an entry of the state file is in a
bundle of an earlier run; an entry of `mem` is in an earlier bundle or in
`payloads`; the entries of the sources still to be asked are those of the state
file; the bundle holds all payloads once the state is to be written. This gives
`StateHashesStored`, `ReferencesResolve` and the refinement: `WriteMember` is
`Store`, `WriteState` is `Publish` of contents that are stored by then, all
other steps stutter.

`AirportHistoryProofs` builds on it. `ObsInv` ties the observations of a run to
its memory (an answer is the newest entry of `mem`) and to its payloads; `Inv3`
adds `RunInv`, where the runs stand (a finished run is none of the present, the
bundle of the present one lies between nothing and `payloads`); `Inv4` adds
`LastInv`, that the state file is that of the newest finished run and each of
its entries the newest answer of all of them. Beside them stand the sum behind
the storage counter (`CountInv`), the health of every manifest (`HealthInv`),
`CadenceInv`, and `BreakerInv`, which reads the breaker's counter and flag off
the causes observed so far: the circuit is open when two KAC sources that follow
one another failed in transport, and the counter is 1 when the last KAC source
did.

The lateness in `HealthInv` needs no more: the newest finished run is one of the
manifests before, its age is what the others' ages exceed, and the missed
intervals are the quotient of what is late by the cadence.

`AirportRecordProofs` needs little of that: `ReliableInv` says of every
observation, of the run and of all manifests, that an answer has a page, is
PARTIAL exactly when it lacks something, and that none but a weather source is
left out as not due. From there the quality of a record is a case distinction
by component and status (`ComponentTells`). The departures need the clock:
`WindowReaches` shows that the window a request asks for, clamped to its day,
cuts off nothing of the next half hour but what lies beyond midnight, so that the
count lies between the day's departures and all of them, and
`TimetableLeaves` that a row of the timetable is never put there. Timetable and
flights are compared minute by minute (`DateByDate`): of two finite sets that
agree on every date, the first date up to which they differ would be preceded by
one on which they do. The proofs assume, as `component_sources` and the request
specs have it, that only the two weather components have a weather source.

**Cloud archive.** `Safe` is `TypeInv`, `Progress`, `MemoryInv` (the state in
memory is the published one but for the areas that answered in this run) and
`OnceInv` (an area is asked once). `DedupeInv` is what a reader of the manifests
computes: an entry of the state is the last published answer (`LastInv`), a
masked body was reported when it was stored (`LackingInv`), and DUPLICATE is
that answer again (`DedupedInv`). These two hold for any client. `HttpSafe` is
about the client alone: the call under way has made one attempt more than it has
slept, the sleeps double from 1 on, and each attempt but the last failed in a
way worth repeating. It gives `RetriesExact`, and with `Safe` the types.

**Data branch.** `IInv` says that a workflow has one run in progress and one
newer run pending, whose outcomes are still open; that every run on the branch
is older than both, but for the commit a job has pushed without hearing of it;
that a clone agrees with its prefix of the branch and was computed from the
newest state file on it; and that the attempts made are races lost.

**Seoul database.** `Inv` is `TypeOK`, `Phases` (the file of the area at work is
complete before its row is written, and no row names it while it is written),
`Sound(db)` (the three properties, of a database), `OwnerInv` (what the owner of
the lock sees is sound and continues what is committed) and `HealthInv` (a
health command that writes does so on top of what is committed). Two invariants
are proved beside it. `GapsInv` says that nothing in a database lies ahead of its
time; that a gap was expected before the last check and, when resolved, has a
later row of its area, which is why the gap `INSERT OR IGNORE` would ignore is
never one that is missing; and that the areas a check has passed are settled: an
open gap exactly when their last raw row was stale (`DetectGapsSettles`), which is
more than `GapsMatchObservations` says. `FreshIs` shows that
looking at the last row of an area is as good as looking at all, since of finitely
many times one is the latest. `AccountsInv` balances the verdicts of the run in
progress with the rows it has inserted so far (`Progress`); an area that fails
adds a verdict without rows, one that breaks the UNIQUE constraint a raw row
without a snapshot. Beyond what the types say, the proofs assume `NoneIsNoTime`: a
NULL is no time.

**Catalogue.** `Inv` says that the committed database is traced (`Traces`), that
so is the one the owner of the lock sees, whose last run is its own
(`OwnerInv`), and that while records are mirrored the last payload is their
batch (`BatchInv`). One lemma per step of a command says what it keeps. That a
success leaves nothing to do rests on `ReconcileTraces` (linking a dataset
opens none, so one pass is enough; the closest dataset exists because
confidences are bounded), on `LinkFacts`, and on `ScoresComplete`: scores are
taken last, and from the rows that are committed. `GateIsDocumented` shows the
gate of the code to be that of the scoring specification for any score.

`FullInv` adds the other tables, of the committed database and of the one the
owner sees (`Full`): they are typed (`Tables`); the events of a dataset tell its
row (`Explained`); the newest override of a dimension is the active one
(`Newest`). It is inductive only with what a command carries from its first read
to its write (`HeldInv`: the datasets and signals `score` read are still there,
and what a reviewer sets is one of the overrides) and with `Grows`: the owner's
database never forgets a row. Each helper that writes (mirror, link, override,
score, bootstrap) has a lemma that it keeps `Full`; a second bootstrap is
followed helper by helper, on a database the first one left.

That the tables hold scores at all rests on `ScoringProofs`: a total is a sum
over a set of dimensions, which the library defines by recursion. The sums over
the subsets of a finite set are unique, by taking a smallest set on which two of
them differ, so that they can be computed term by term and bounded by the sum of
the weights. The number of a dataset's terms enters them, and `CatalogAssumption`
says that it is finite.

### Only model-checked

- Liveness: `RunIsRecorded`, `RunEnds`, `EveryDispatchSettles`,
  `LockIsReleased`. Liveness under fairness is out of the prover's reach.
- The statements of the documentation the code does not keep: their runs find
  a behaviour that violates them.
- The parking sums of a record: no property speaks of them.

Induction over data is done here by least elements of sets of numbers
(`LeastExists`, `DateByDate`, `FreshIs`), since the library's induction theorems
take an operator, which the backends cannot instantiate.

No module uses a RECURSIVE operator.

## 5. What is not modelled

- Text: the parsing of provider answers, CSV files and the NIA page, and the
  terms, cadences and sizes that scoring reads off titles and descriptions. A
  batch, a notice or a record's features are what the parser returns.
- `quota_budget`, a constant table; the gate it relies on is `_is_due`, which
  `CadenceKept` is about.
- Of `normalize_records`, the values that are copied from one field to another,
  calendar features, and the source timestamps of `_source_timestamp`, which no
  step compares with anything.
- The registration of sources, collectors and places; `enabled` of a collector,
  which no step reads; `last_seen_at` and the other timestamps of the catalogue;
  overrides of other kinds of scores than SEED.
- INVALID_BASELINE of `schedule_health`: state files are written by the
  collectors alone and their clocks parse.
- Git conflicts: the workflows write disjoint paths.
- Rounding ties: where a total of scores lies halfway between two hundredths,
  Python's binary representation decides and the model rounds up. No seed
  score of the instance is such a tie; the proofs hold for any total.
- Exports, calendar, utilities, publishing script, tests workflow; `init`,
  `status`, `check` and `export`, which print or compare.
- `live-smoke` as a command. It writes: on one connection it bootstraps, mirrors
  a page of the registry, upserts the notices of the watcher, collects the
  sample area, reconciles, links and scores, and commits (`cli.py:254-324`). Each
  of these is modelled as part of another command, their sequence is not.
- SHA-256 collisions.

Three things in which the documentation says more than a property claims, and
which no run shows:

- `docs/airport_friction_runbook.md:60` counts 288 cadence-gated KMA calls a day
  as a maximum. `CadenceKept` counts from the last answer that was accepted, as
  the code does: a weather source that failed is asked again in the next run.
- `docs/runbook.md:68` takes gaps from the last successful observation, and
  `docs/data_dictionary.md:104` from the last snapshot. `detect_gaps` takes them
  from raw rows, also those of an area whose attempt ended in ERROR
  (`seoul_city.py:410-425`). `GapsMatchObservations` claims nothing of an area
  whose only recent row is of that kind (`Succeeded`); how an area gets there is
  what `SeoulSnapshot` shows.
- A job that is cancelled, or gives up, after a push that arrived is reported as
  failed and its run is on the branch. `OutcomeHonest` speaks of the runs that
  were accepted, replaced or overrun, and leaves these two open.

A score a `score` command computed before a mirror committed may be written
after it, and stays until the next command that scores; `SuccessIsComplete`
speaks of commands that keep a run.

Two properties of the cloud archive are not listed because another implies them:
that nothing of it is altered and that its hashes are stored follow from its
refinement of `PayloadArchive`. The counters of a run of the catalogue and the
parking sums of a record are modelled, and no property speaks of them.

## 6. What could follow

1. A composition of an archive with `DataBranch`: the state a run starts from is
   that of the clone, and a cancelled or overrun run is a crash whose files are
   lost. The two halves are proved (`NoUpdateLost`, `HashesAreStored`); what
   joins them is that the collector's paths are those the workflow commits.
2. The registration of collectors and places, with `enabled` and its reset by a
   bootstrap, once a step of the code depends on it.
3. Properties of the parking sums of a record and of the counters of a run of
   the catalogue.
