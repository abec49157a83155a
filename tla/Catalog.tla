------------------------------- MODULE Catalog -------------------------------
(***************************************************************************)
(* The catalogue on the local SQLite database: bootstrap; mirror-odcloud   *)
(* and mirror-csv with mirror_records and reconcile_planned_to_open;       *)
(* watch-nia with upsert_signals and link_signals_to_datasets; overrides   *)
(* set by a reviewer; and score_all, at the end of each of them and as the *)
(* score command.                                                          *)
(*                                                                         *)
(* A mirror or a watcher takes the write lock with start_run and keeps it  *)
(* while it fetches.  Its except clause commits: what was mirrored before  *)
(* the failure stays, under a FAILED run.  The score command and           *)
(* set_override open their transaction with their first write only, after  *)
(* they have read.                                                         *)
(*                                                                         *)
(* A record stands for its hash.  modified stands for the monitored fields *)
(* but public_status, features for what scoring reads of the metadata,     *)
(* terms for a notice's keywords.  Titles and providers of a dataset do    *)
(* not change and no two candidates match a planned dataset equally well.  *)
(* Timestamps are left out, and so are overrides of other score kinds than *)
(* SEED.  One source stands for those of the seed file.                    *)
(***************************************************************************)
EXTENDS ScheduleHealth, Scoring, Sequences, FiniteSets

CONSTANTS
    Process,        \* processes that run commands
    Dataset,        \* dataset ids
    Signal,         \* signal ids
    Term,           \* tokens of titles and keywords, those of DATA_TERMS left out
    Feeds,          \* the batches a source may serve: sequences of [id, record]
    Unhashable,     \* records sha256_json raises on (a lone surrogate)
    Confidence,     \* title similarity in percent; 0 if the providers differ
    DatasetTerms,   \* the tokens of a dataset's title, provider and description
    SameOrg,        \* the datasets whose provider is the buyer of the notices
    SeedRows,       \* initial_registry.json
    SeedSignals,    \* initial_signals.json
    SeedOverrides,  \* initial_overrides.json
    HumanOverrides, \* overrides a reviewer may set
    MaxJobs         \* commands started (bound)

Registry == {"data_go_registry", "data_go_planned"}
Source   == Registry \cup {"nia_procurement"}

Record == [status : {"PLANNED", "OPEN"}, rights : {"ALLOW", "RESTRICTED", "UNKNOWN"},
           cost : {"FREE", "PAID", "UNKNOWN"}, features : Features, modified : STRING]

NoticeRecord == [notice : Notice, terms : SUBSET Term]

Batch       == Seq([id : Dataset, record : Record])
NoticeBatch == Seq([id : Signal, record : NoticeRecord])

Override == [id : Dataset, dimension : SeedDimension, rating : Rating,
             type : {"HUMAN", "AI"}, rationale : STRING]

Distinct(batch) == \A i, j \in DOMAIN batch : batch[i].id = batch[j].id => i = j

Key(o) == <<o.id, o.dimension>>

ASSUME CatalogAssumption ==
    /\ \A s \in Registry : Feeds[s] \subseteq Batch
    /\ Feeds["nia_procurement"] \subseteq NoticeBatch
    /\ \A b \in Feeds["nia_procurement"] \cup {SeedRows, SeedSignals} : Distinct(b)
    /\ Unhashable \subseteq Record /\ Confidence \in [Dataset \X Dataset -> 0..100]
    /\ DatasetTerms \in [Dataset -> SUBSET Term] /\ SameOrg \subseteq Dataset
    /\ \A d \in Dataset : IsFiniteSet(DatasetTerms[d])
    /\ SeedRows \in Batch /\ SeedSignals \in NoticeBatch
    /\ SeedOverrides \subseteq Override /\ HumanOverrides \subseteq Override
    /\ \A o, p \in SeedOverrides : Key(o) = Key(p) => o = p
    /\ MaxJobs \in Nat /\ None \notin Process \cup Dataset \cup Signal

VARIABLES
    db,       \* the committed database
    tx,       \* the database as the owner of the write lock sees it
    owner,    \* the process that holds the write lock
    job,      \* what a process that waits for the lock will do
    held,     \* what it has read, or was given, before its transaction
    phase, feed, batch, pos, counts,   \* the run of the owner
    started   \* counter of the bound

run  == <<phase, feed, batch, pos, counts>>
vars == <<db, tx, owner, job, held, run, started>>

Status == {"PLANNED", "OPEN", "OPEN_LINKED"}

Row == [status : Status, hash : Record,
        link : Dataset \cup {None}, raw : Nat]

SignalRow == [hash : NoticeRecord, raw : Nat]

ASSUME CatalogNoneAssumption == None \notin Row /\ None \notin SignalRow

Event == [type : {"NEW_DATASET", "PUBLIC_STATUS_CHANGED", "MODIFIED_AT_CHANGED",
                  "EXPECTED_TO_OPEN"},
          old : Status \cup STRING \cup {None}, new : Status \cup STRING \cup {None},
          run : Nat \cup {None}]

Counts == [new : Nat, updated : Nat, unchanged : Nat]

RunRow == [source : Source, status : {"RUNNING", "SUCCESS", "FAILED"}, received : Nat,
           inserted : Nat, duplicates : Nat]

\* alpha_scores and seed_queue.
Score == [pra : ScoreValue, seed : ScoreValue, ephemeral : ScoreValue, decision : Decisions,
          review : {"AUTO", "HUMAN_OVERRIDE", "AI_OVERRIDE", "MIXED_OVERRIDE"}]

OverrideRow == [of : Override, active : BOOLEAN]

Database == [rows : [Dataset -> Row \cup {None}], events : [Dataset -> Seq(Event)],
             raws : Seq(Batch \cup NoticeBatch), runs : Seq(RunRow),
             signals : [Signal -> SignalRow \cup {None}],
             links : [Signal \X Dataset -> 0..100],   \* confidence, 0 for no row
             overrides : [Dataset \X SeedDimension -> Seq(OverrideRow)],
             queue : [Dataset -> Score \cup {None}],
             ranks : [Signal -> Recommendations \cup {None}]]

EmptyDb == [rows |-> [d \in Dataset |-> None], events |-> [d \in Dataset |-> <<>>],
            raws |-> <<>>, runs |-> <<>>, signals |-> [s \in Signal |-> None],
            links |-> [p \in Signal \X Dataset |-> 0], overrides |-> [key \in Dataset \X SeedDimension |-> <<>>],
            queue |-> [d \in Dataset |-> None], ranks |-> [s \in Signal |-> None]]

TypeOK ==
    /\ db \in Database /\ tx \in Database /\ owner \in Process \cup {None}
    /\ job \in [Process -> Source \cup {"none", "score", "override"}]
    /\ held \in [Process -> [ids : SUBSET Dataset, signals : SUBSET Signal, id : Dataset, row : Row]
                              \cup Override \cup {None}]
    /\ phase \in {"idle", "fetch", "records"} /\ feed \in Source \cup {None}
    /\ batch \in Batch /\ pos \in Nat /\ counts \in Counts /\ started \in 0..MaxJobs

-----------------------------------------------------------------------------
(* mirror_records: what one record does to the row and the events of its   *)
(* dataset.                                                                 *)

Changed(type, old, new, r) ==
    IF old = new THEN <<>> ELSE <<[type |-> type, old |-> old, new |-> new, run |-> r]>>

\* The field diff of a dataset whose hash changed.
Diff(existing, record, r) ==
    Changed("PUBLIC_STATUS_CHANGED", existing.status, record.status, r)
    \o Changed("MODIFIED_AT_CHANGED", existing.hash.modified, record.modified, r)

MirrorEvents(existing, record, r) ==
    CASE existing = None -> <<[type |-> "NEW_DATASET", old |-> None, new |-> None, run |-> r]>>
      [] existing # None /\ existing.hash = record -> <<>>
      [] OTHER -> Diff(existing, record, r)

\* Mutants: the status is stored as the source spells it; the row keeps the
\* payload it was first seen in.
MirroredRowAsSpelled(existing, record, raw) ==
    [status |-> IF record.status = "PLANNED" THEN "N" ELSE "Y", hash |-> record,
     link |-> None, raw |-> raw]

MirroredRowKeepsRaw(existing, record, raw) ==
    [status |-> record.status, hash |-> record, link |-> None,
     raw |-> IF existing = None THEN raw ELSE existing.raw]

MirroredRow(existing, record, raw) ==
    IF existing # None /\ existing.hash = record
    THEN [existing EXCEPT !.raw = raw]
    ELSE [status |-> record.status, hash |-> record, link |-> None, raw |-> raw]

mirrored(d, entry, raw, r) ==
    [d EXCEPT !.rows[entry.id] = MirroredRow(@, entry.record, raw),
              !.events[entry.id] = @ \o MirrorEvents(d.rows[entry.id], entry.record, r)]

DatasetIds(d) == {x \in Dataset : d.rows[x] # None}
SignalIds(d)  == {s \in Signal : d.signals[s] # None}

\* The open dataset a planned one is linked to, None if no title is close.
Release(d, plan) ==
    LET close == {o \in Dataset : /\ d.rows[o] # None /\ d.rows[o].status = "OPEN"
                                  /\ Confidence[<<plan, o>>] >= 62}
    IN IF close = {} THEN None
       ELSE CHOOSE o \in close : \A c \in close : Confidence[<<plan, c>>] <= Confidence[<<plan, o>>]

Released(d) == {plan \in Dataset : /\ d.rows[plan] # None /\ d.rows[plan].status = "PLANNED"
                                   /\ Release(d, plan) # None}

\* Mutant: the link leaves no event.
reconcileSilently(d) ==
    [d EXCEPT !.rows = [x \in Dataset |->
        IF x \in Released(d)
        THEN [d.rows[x] EXCEPT !.status = "OPEN_LINKED", !.link = Release(d, x)]
        ELSE d.rows[x]]]

\* EXPECTED_TO_OPEN stands for the step to OPEN_LINKED; the event has no run.
reconcile_planned_to_open(d) ==
    [d EXCEPT
       !.rows = [x \in Dataset |->
          IF x \in Released(d)
          THEN [d.rows[x] EXCEPT !.status = "OPEN_LINKED", !.link = Release(d, x)]
          ELSE d.rows[x]],
       !.events = [x \in Dataset |->
          IF x \in Released(d)
          THEN Append(d.events[x], [type |-> "EXPECTED_TO_OPEN", old |-> "PLANNED",
                                    new |-> "OPEN_LINKED", run |-> None])
          ELSE d.events[x]]]

-----------------------------------------------------------------------------
(* Pre-release signals.                                                     *)

upsert_signals(d, notices) ==
    [d EXCEPT !.raws = Append(@, notices),
              !.signals = [s \in Signal |->
                 IF \E i \in DOMAIN notices : notices[i].id = s
                 THEN [hash |-> (CHOOSE n \in {notices[i] : i \in DOMAIN notices} : n.id = s).record,
                       raw |-> Len(d.raws) + 1]
                 ELSE d.signals[s]]]

\* new and unchanged of upsert_signals; a notice is on a page once.
SignalCounts(d, notices) ==
    LET known(i) == d.signals[notices[i].id]
    IN [new       |-> Cardinality({i \in DOMAIN notices : known(i) = None}),
        unchanged |-> Cardinality({i \in DOMAIN notices :
                                      known(i) # None /\ known(i).hash = notices[i].record})]

\* One meaningful term is enough: 0.35 is above the least confidence, 0.28.
LinkConfidence(d, s, x) ==
    LET meaningful == Cardinality(d.signals[s].hash.terms \cap DatasetTerms[x])
        confidence == 20 + 15 * meaningful + (IF x \in SameOrg THEN 15 ELSE 0)
    IN IF meaningful = 0 \/ confidence < 28 THEN 0 ELSE IF confidence > 100 THEN 100 ELSE confidence

Linkable(d) ==
    {p \in SignalIds(d) \X DatasetIds(d) : LinkConfidence(d, p[1], p[2]) > 0}

\* Rows are added and renewed; a pair that no longer matches keeps its row.
link_signals_to_datasets(d) ==
    [d EXCEPT !.links = [p \in Signal \X Dataset |->
        IF p \in Linkable(d) THEN LinkConfidence(d, p[1], p[2]) ELSE d.links[p]]]

-----------------------------------------------------------------------------
(* Overrides and scores.                                                    *)

ActiveOf(d, key) == {i \in DOMAIN d.overrides[key] : d.overrides[key][i].active}

\* The latest active override of a dimension, as set_override and
\* _calculate_kind select it.
InForce(d, key) ==
    IF ActiveOf(d, key) = {} THEN None ELSE d.overrides[key][Max(ActiveOf(d, key))].of

\* Mutant: the active override stays active next to the new one.
ReplacedBeside(rows, o) == Append(rows, [of |-> o, active |-> TRUE])

\* The UPDATE and the INSERT of set_override, on the rows of one key.
Replaced(rows, o) ==
    Append([i \in DOMAIN rows |-> [rows[i] EXCEPT !.active = FALSE]], [of |-> o, active |-> TRUE])

\* The writes of set_override, of overrides with different keys.
replace_overrides(d, given) ==
    [d EXCEPT !.overrides = [key \in Dataset \X SeedDimension |->
        IF \E o \in given : Key(o) = key
        THEN Replaced(@[key], CHOOSE o \in given : Key(o) = key)
        ELSE @[key]]]

\* Mutant: an override that is in force is set again.
set_overrides_anyway(d, given) == replace_overrides(d, given)

\* set_override for each of given: one that is in force is left alone.
set_overrides(d, given) == replace_overrides(d, {o \in given : InForce(d, Key(o)) # o})

\* The types of the overrides of a dataset: {} leaves the review AUTO.
ReviewStatus(types) ==
    CASE types = {} -> "AUTO" [] types = {"HUMAN"} -> "HUMAN_OVERRIDE"
      [] types = {"AI"} -> "AI_OVERRIDE" [] OTHER -> "MIXED_OVERRIDE"

\* score_dataset on a row, under the overrides of d.
ScoreOf(d, x, row) ==
    LET features == row.hash.features
        auto     == seed_dimensions(features)
        given    == [k \in SeedDimension |-> InForce(d, <<x, k>>)]
        seed     == Total(SEED_WEIGHTS, [k \in SeedDimension |->
                             IF given[k] = None THEN auto[k] ELSE given[k].rating])
    IN [pra       |-> Total(PRA_WEIGHTS, pra_dimensions_dataset(row.status, features)),
        seed      |-> seed,
        ephemeral |-> Total(EPHEMERAL_WEIGHTS, ephemeral_dimensions(features)),
        decision  |-> Decision(seed, row.hash.rights, row.hash.cost),
        review    |-> ReviewStatus({given[k].type : k \in {j \in SeedDimension : given[j] # None}})]

score_signal(row) == Recommendation(Total(PRA_WEIGHTS, pra_dimensions_signal(row.hash.notice)))

score_all(d, ids, signals) ==
    [d EXCEPT !.queue = [x \in Dataset |->
                 IF x \in ids THEN ScoreOf(d, x, d.rows[x]) ELSE d.queue[x]],
              !.ranks = [s \in Signal |->
                 IF s \in signals THEN score_signal(d.signals[s]) ELSE d.ranks[s]]]

score_everything(d) == score_all(d, DatasetIds(d), SignalIds(d))

-----------------------------------------------------------------------------
(* bootstrap: the seed file is mirrored, the signals, the overrides of the *)
(* datasets that exist, the links and the scores follow, in one            *)
(* transaction from the first upsert_source to the commit.                 *)

SeedMirrored(d) ==
    LET seeded(x) == \E i \in DOMAIN SeedRows : SeedRows[i].id = x
        record(x) == (CHOOSE e \in {SeedRows[i] : i \in DOMAIN SeedRows} : e.id = x).record
        raw       == Len(d.raws) + 1
    IN [d EXCEPT
          !.raws   = Append(@, SeedRows),
          !.rows   = [x \in Dataset |-> IF seeded(x) THEN MirroredRow(d.rows[x], record(x), raw)
                                        ELSE d.rows[x]],
          !.events = [x \in Dataset |->
                        IF seeded(x) THEN d.events[x] \o MirrorEvents(d.rows[x], record(x), None)
                        ELSE d.events[x]]]

bootstrap(d) ==
    LET noticed    == upsert_signals(SeedMirrored(d), SeedSignals)
        applicable == {o \in SeedOverrides : o.id \in DatasetIds(noticed)}
    IN score_everything(link_signals_to_datasets(set_overrides(noticed, applicable)))

-----------------------------------------------------------------------------
NoCounts == [new |-> 0, updated |-> 0, unchanged |-> 0]

\* init and a first bootstrap: no other command works without its sources.
Init ==
    /\ db = bootstrap(EmptyDb) /\ tx = EmptyDb /\ owner = None
    /\ job = [p \in Process |-> "none"] /\ held = [p \in Process |-> None]
    /\ phase = "idle" /\ feed = None /\ batch = <<>> /\ pos = 1 /\ counts = NoCounts
    /\ started = 0

Close ==
    /\ owner' = None /\ tx' = EmptyDb
    /\ phase' = "idle" /\ feed' = None /\ batch' = <<>> /\ pos' = 1 /\ counts' = NoCounts

Idle(p) == job[p] = "none" /\ owner # p /\ started < MaxJobs

\* It holds the lock throughout; a crash before the commit is no step.
Bootstrap(p) ==
    /\ Idle(p) /\ owner = None
    /\ db' = bootstrap(db) /\ started' = started + 1
    /\ UNCHANGED <<tx, owner, job, held, run>>

-----------------------------------------------------------------------------
(* The mirror commands and watch-nia.                                       *)

StartRun(p) ==
    /\ Idle(p)
    /\ \E s \in Source : job' = [job EXCEPT ![p] = s]
    /\ started' = started + 1
    /\ UNCHANGED <<db, tx, owner, held, run>>

\* start_run.
Acquire(p) ==
    /\ job[p] \in Source /\ owner = None
    /\ owner' = p /\ feed' = job[p] /\ job' = [job EXCEPT ![p] = "none"]
    /\ tx' = [db EXCEPT !.runs = Append(@, [source |-> job[p], status |-> "RUNNING",
                                            received |-> 0, inserted |-> 0, duplicates |-> 0])]
    /\ phase' = "fetch"
    /\ UNCHANGED <<db, held, batch, pos, counts, started>>

\* "database is locked", of any command.
Busy(p) ==
    /\ job[p] # "none" /\ owner # None
    /\ job' = [job EXCEPT ![p] = "none"] /\ held' = [held EXCEPT ![p] = None]
    /\ UNCHANGED <<db, tx, owner, run, started>>

\* The batch arrives and store_raw_payload adds its row.
Fetch ==
    /\ phase = "fetch" /\ feed \in Registry /\ phase' = "records"
    /\ batch' \in Feeds[feed]
    /\ tx' = [tx EXCEPT !.raws = Append(@, batch')]
    /\ UNCHANGED <<db, owner, job, held, feed, pos, counts, started>>

\* One record of mirror_records: new, unchanged, or changed with its field diff.
MirrorRecord ==
    /\ phase = "records" /\ pos <= Len(batch) /\ batch[pos].record \notin Unhashable
    /\ tx' = mirrored(tx, batch[pos], Len(tx.raws), Len(tx.runs))
    /\ LET existing == tx.rows[batch[pos].id]
       IN counts' = CASE existing = None -> [counts EXCEPT !.new = @ + 1]
                      [] existing # None /\ existing.hash = batch[pos].record ->
                           [counts EXCEPT !.unchanged = @ + 1]
                      [] OTHER -> [counts EXCEPT !.updated = @ + 1]
    /\ pos' = pos + 1
    /\ UNCHANGED <<db, owner, job, held, phase, feed, batch, started>>

finish_run(d, status, received, counted) ==
    [d EXCEPT !.runs[Len(d.runs)] =
       [@ EXCEPT !.status = status, !.received = received, !.inserted = counted.new,
                 !.duplicates = counted.unchanged]]

\* All records are mirrored: link, finish, score, commit.
Succeed ==
    /\ phase = "records" /\ pos > Len(batch)
    /\ db' = score_everything(
                finish_run(reconcile_planned_to_open(tx), "SUCCESS", Len(batch), counts))
    /\ Close
    /\ UNCHANGED <<job, held, started>>

\* The page arrives: nothing after it can fail.
WatchNia ==
    /\ phase = "fetch" /\ feed = "nia_procurement"
    /\ \E notices \in Feeds[feed] :
          db' = score_everything(
                  finish_run(link_signals_to_datasets(upsert_signals(tx, notices)), "SUCCESS",
                             Len(notices), SignalCounts(tx, notices)))
    /\ Close
    /\ UNCHANGED <<job, held, started>>

\* The except clause: the fetch raised, or a record cannot be hashed.
Fail ==
    /\ \/ phase = "fetch"
       \/ phase = "records" /\ pos <= Len(batch) /\ batch[pos].record \in Unhashable
    /\ db' = finish_run(tx, "FAILED", 0, NoCounts)
    /\ Close
    /\ UNCHANGED <<job, held, started>>

\* The process dies.
RollBack ==
    /\ owner # None
    /\ Close
    /\ UNCHANGED <<db, job, held, started>>

-----------------------------------------------------------------------------
(* The score command.  score_all reads the ids and the first of the rows   *)
(* before _calculate_kind's INSERT takes the lock, and the other rows and  *)
(* the overrides of SEED in its transaction; which row is the first        *)
(* depends on the ids.                                                      *)

StartScore(p) ==
    /\ Idle(p)
    /\ \E d \in DatasetIds(db) :
          held' = [held EXCEPT ![p] = [ids |-> DatasetIds(db), signals |-> SignalIds(db),
                                       id |-> d, row |-> db.rows[d]]]
    /\ job' = [job EXCEPT ![p] = "score"] /\ started' = started + 1
    /\ UNCHANGED <<db, tx, owner, run>>

ScoreCommand(p) ==
    /\ job[p] = "score" /\ owner = None
    /\ db' = [score_all(db, held[p].ids, held[p].signals)
                 EXCEPT !.queue[held[p].id] = ScoreOf(db, held[p].id, held[p].row)]
    /\ job' = [job EXCEPT ![p] = "none"] /\ held' = [held EXCEPT ![p] = None]
    /\ UNCHANGED <<tx, owner, run, started>>

\* A reviewer's set_override reads that its override is not in force ...
StartOverride(p) ==
    /\ Idle(p)
    /\ \E o \in HumanOverrides :
          InForce(db, Key(o)) # o /\ held' = [held EXCEPT ![p] = o]
    /\ job' = [job EXCEPT ![p] = "override"] /\ started' = started + 1
    /\ UNCHANGED <<db, tx, owner, run>>

\* ... and writes it when the lock is free, whatever was written in between.
SetOverride(p) ==
    /\ job[p] = "override" /\ owner = None
    /\ db' = replace_overrides(db, {held[p]})
    /\ job' = [job EXCEPT ![p] = "none"] /\ held' = [held EXCEPT ![p] = None]
    /\ UNCHANGED <<tx, owner, run, started>>

Next ==
    \/ \E p \in Process : \/ Bootstrap(p) \/ StartRun(p) \/ Acquire(p) \/ Busy(p)
                          \/ StartScore(p) \/ ScoreCommand(p) \/ StartOverride(p) \/ SetOverride(p)
    \/ Fetch \/ MirrorRecord \/ Succeed \/ WatchNia \/ Fail \/ RollBack

Spec == Init /\ [][Next]_vars

-----------------------------------------------------------------------------
(***************************************************************************)
(* Safety, of the committed database.                                      *)
(***************************************************************************)

\* The events of a dataset are its history, across failed runs, links, links
\* undone by a later mirror and rows set back by a bootstrap: they start with
\* NEW_DATASET, the status events follow on one another, and the last of them
\* leads to the status in the row; so do the other diffs.  A link is told too.
\* The events of the types follow on one another and lead to current.
Follow(events, types, current) ==
    \A i \in {k \in DOMAIN events : events[k].type \in types} :
       /\ (\A k \in DOMAIN events : k > i => events[k].type \notin types) => events[i].new = current
       /\ \A j \in DOMAIN events :
             /\ j > i /\ events[j].type \in types
             /\ \A k \in DOMAIN events : k > i /\ k < j => events[k].type \notin types
             => events[i].new = events[j].old

Told(row, events) ==
    /\ row = None <=> events = <<>>
    /\ \A i \in DOMAIN events : events[i].type = "NEW_DATASET" <=> i = 1
    /\ row # None =>
          /\ Follow(events, {"PUBLIC_STATUS_CHANGED", "EXPECTED_TO_OPEN"}, row.status)
          /\ Follow(events, {"MODIFIED_AT_CHANGED"}, row.hash.modified)
          /\ row.status = "OPEN_LINKED" =>
                \E i \in DOMAIN events : events[i].type = "EXPECTED_TO_OPEN"

EventsExplainRows == \A x \in Dataset : Told(db.rows[x], db.events[x])

\* A row can be traced to the payload it was last seen in: that payload holds
\* the very record the row, of a dataset or of a signal, was made from.  A
\* link lives in the row's metadata and is there exactly while the row is
\* OPEN_LINKED.
Traced(row, id) ==
    /\ row.raw \in 1..Len(db.raws)
    /\ \E i \in DOMAIN db.raws[row.raw] : db.raws[row.raw][i] = [id |-> id, record |-> row.hash]

RowsHaveProvenance ==
    /\ \A x \in DatasetIds(db) :
          /\ Traced(db.rows[x], x)
          /\ (db.rows[x].status = "OPEN_LINKED") <=> (db.rows[x].link # None)
    /\ \A s \in SignalIds(db) : Traced(db.signals[s], s)

\* However reviewers and bootstraps that read the same state write one after
\* the other, a dimension has at most one active override, the newest of all
\* that were ever set: the one a score uses is the last judgement.
OneOverrideInForce ==
    \A key \in Dataset \X SeedDimension : \A i \in DOMAIN db.overrides[key] :
       db.overrides[key][i].active <=> \A j \in DOMAIN db.overrides[key] : j <= i

\* "bootstrap is idempotent" (docs/runbook.md:13): whatever ran since the last
\* one, a second bootstrap right after a first changes nothing but the
\* payload rows and the references to them.
WithoutPayloads(d) ==
    [d EXCEPT !.raws = <<>>,
              !.rows = [x \in Dataset |-> IF @[x] = None THEN None ELSE [@[x] EXCEPT !.raw = 0]],
              !.signals = [s \in Signal |-> IF @[s] = None THEN None ELSE [@[s] EXCEPT !.raw = 0]]]

BootstrapIdempotent ==
    WithoutPayloads(bootstrap(bootstrap(db))) = WithoutPayloads(bootstrap(db))

\* The gate as docs/scoring_spec.md states it.
DocumentedGate(seed, rights, cost) ==
    IF rights = "RESTRICTED" THEN "METADATA_ONLY"
    ELSE IF ~(seed >= 7500) THEN "HOLD"
    ELSE IF rights = "ALLOW" /\ cost \in {"FREE", "NEAR_ZERO"} THEN "COLLECT_NOW"
    ELSE IF "UNKNOWN" \in {rights, cost} THEN "REVIEW_RIGHTS_COST" ELSE "HOLD"

\* A run that succeeds leaves nothing to do: every dataset and signal is scored
\* as it is now, under the overrides in force and by the documented gate; after
\* a mirror no released dataset is left unlinked, after a watcher no match of a
\* notice.
SuccessIsComplete ==
    [][LET last == db'.runs[Len(db'.runs)] IN
       Len(db'.runs) > Len(db.runs) /\ last.status = "SUCCESS" =>
          /\ last.source \in Registry => Released(db') = {}
          /\ last.source \notin Registry =>
                \A p \in Linkable(db') : db'.links[p] = LinkConfidence(db', p[1], p[2])
          /\ \A x \in DatasetIds(db') :
                /\ db'.queue[x] = ScoreOf(db', x, db'.rows[x])
                /\ db'.queue[x].decision =
                      DocumentedGate(db'.queue[x].seed, db'.rows[x].hash.rights, db'.rows[x].hash.cost)
          /\ \A s \in SignalIds(db') : db'.ranks[s] = score_signal(db'.signals[s])
      ]_db

(***************************************************************************)
(* A statement of the documentation the code does not keep.                *)
(***************************************************************************)

\* "if rights == RESTRICTED: METADATA_ONLY": a dataset known to be restricted
\* is not in the queue for collection.
RestrictedIsNotCollected ==
    \A x \in DatasetIds(db) :
       db.rows[x].hash.rights = "RESTRICTED" =>
          db.queue[x] = None \/ db.queue[x].decision # "COLLECT_NOW"
=============================================================================
