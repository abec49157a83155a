---------------------------- MODULE CatalogProofs ----------------------------
(***************************************************************************)
(* The catalogue, for any processes, datasets, signals, batches, seed      *)
(* files and commands.  First what a row was made from and what a command  *)
(* that reports success leaves to do; then the other tables: the types,    *)
(* the history the events tell, the overrides in force and what a second   *)
(* bootstrap changes.                                                      *)
(***************************************************************************)
EXTENDS Catalog, ScoringProofs

Fields == {"rows", "events", "raws", "runs", "signals", "links", "overrides", "queue", "ranks"}

\* A database, of whose fields those are typed the theorems speak of.
Good(d) ==
    /\ d = [f \in Fields |-> d[f]]
    /\ d.rows \in [Dataset -> Row \cup {None}] /\ d.raws \in Seq(Batch \cup NoticeBatch)
    /\ d.runs \in Seq(RunRow) /\ d.signals \in [Signal -> SignalRow \cup {None}]

TracedIn(row, id, raws) ==
    /\ row.raw \in 1..Len(raws)
    /\ \E i \in DOMAIN raws[row.raw] : raws[row.raw][i] = [id |-> id, record |-> row.hash]

RowTraced(d, x) ==
    d.rows[x] # None => /\ TracedIn(d.rows[x], x, d.raws)
                        /\ (d.rows[x].status = "OPEN_LINKED") <=> (d.rows[x].link # None)

Traces(d) ==
    /\ \A x \in Dataset : RowTraced(d, x)
    /\ \A s \in Signal : d.signals[s] # None => TracedIn(d.signals[s], s, d.raws)

(***************************************************************************)
(* What the steps of a command do to a database.                           *)
(***************************************************************************)
LEMMA NoneFacts == None \notin Row /\ None \notin SignalRow
  BY CatalogNoneAssumption

LEMMA TracedAppend ==
    ASSUME NEW S, NEW raws \in Seq(S), NEW payload \in S, NEW row, NEW id, TracedIn(row, id, raws)
    PROVE  TracedIn(row, id, Append(raws, payload))
<1>1. /\ Append(raws, payload) \in Seq(S) /\ Len(Append(raws, payload)) = Len(raws) + 1
      /\ Len(raws) \in Nat /\ \A i \in 1..Len(raws) : Append(raws, payload)[i] = raws[i]
  OBVIOUS
<1>2. PICK n \in 1..Len(raws) : n = row.raw
  BY DEF TracedIn
<1>3. n \in 1..Len(Append(raws, payload))
  BY <1>1
<1>4. Append(raws, payload)[n] = raws[n]
  BY <1>1
<1>5. QED
  BY <1>2, <1>3, <1>4 DEF TracedIn

LEMMA TracedNew ==
    ASSUME NEW raws \in Seq(Batch \cup NoticeBatch), NEW payload \in Batch \cup NoticeBatch,
           NEW i \in DOMAIN payload, NEW id, NEW record,
           payload[i] = [id |-> id, record |-> record],
           NEW row, row.hash = record, row.raw = Len(raws) + 1
    PROVE  TracedIn(row, id, Append(raws, payload))
<1> DEFINE S == Batch \cup NoticeBatch
<1>1. raws \in Seq(S) /\ payload \in S
  OBVIOUS
<1> HIDE DEF S
<1>2. /\ Len(Append(raws, payload)) = Len(raws) + 1 /\ Len(raws) \in Nat
      /\ Append(raws, payload)[Len(raws) + 1] = payload
  BY <1>1
<1>3. QED
  BY <1>2 DEF TracedIn

LEMMA EntryFacts ==
    /\ \A b \in Batch : \A i \in DOMAIN b :
          b[i].id \in Dataset /\ b[i].record \in Record
          /\ b[i] = [id |-> b[i].id, record |-> b[i].record]
    /\ \A b \in NoticeBatch : \A i \in DOMAIN b :
          b[i].id \in Signal /\ b[i].record \in NoticeRecord
          /\ b[i] = [id |-> b[i].id, record |-> b[i].record]
<1> DEFINE Entries == [id : Dataset, record : Record]
           Notices == [id : Signal, record : NoticeRecord]
<1>1. \A b \in Batch : \A i \in DOMAIN b : b[i] \in Entries
  <2>1. Batch = Seq(Entries)
    BY DEF Batch
  <2> HIDE DEF Entries
  <2>2. QED
    BY <2>1
<1>2. \A b \in NoticeBatch : \A i \in DOMAIN b : b[i] \in Notices
  <2>1. NoticeBatch = Seq(Notices)
    BY DEF NoticeBatch
  <2> HIDE DEF Notices
  <2>2. QED
    BY <2>1
<1>3. ASSUME NEW X, NEW Y, NEW e \in [id : X, record : Y]
      PROVE  e.id \in X /\ e.record \in Y /\ e = [id |-> e.id, record |-> e.record]
  OBVIOUS
<1>4. QED
  BY <1>1, <1>2, <1>3

\* Of numbers up to 100 one is the greatest.
LEMMA GreatestExists ==
    ASSUME NEW S \in SUBSET (0..100), S # {} PROVE \E m \in S : \A k \in S : k <= m
<1> DEFINE T == {100 - k : k \in S}
<1>1. T \in SUBSET Nat /\ T # {}
  <2>1. \A k \in S : 100 - k \in Nat
    OBVIOUS
  <2>2. PICK k \in S : TRUE
    OBVIOUS
  <2>3. 100 - k \in T
    OBVIOUS
  <2>4. QED
    BY <2>1, <2>3
<1>2. PICK x \in T : \A y \in T : x <= y
  <2> HIDE DEF T
  <2>1. QED
    BY <1>1, LeastExists
<1>3. PICK m \in S : x = 100 - m
  OBVIOUS
<1>4. ASSUME NEW k \in S PROVE k <= m
  <2>1. 100 - m <= 100 - k
    BY <1>2, <1>3
  <2>2. QED
    BY <2>1
<1>5. QED
  BY <1>4

\* An entry of a batch without doubles is found by its id.
LEMMA FoundById ==
    ASSUME NEW b, Distinct(b), NEW i \in DOMAIN b
    PROVE  (CHOOSE e \in {b[j] : j \in DOMAIN b} : e.id = b[i].id) = b[i]
<1>1. \A e \in {b[j] : j \in DOMAIN b} : e.id = b[i].id => e = b[i]
  BY DEF Distinct
<1>2. QED
  BY <1>1

\* Fields other than those of a mirror stay.
SameTables(d, e) == /\ e.rows = d.rows /\ e.raws = d.raws /\ e.runs = d.runs
                    /\ e.signals = d.signals

LEMMA SameTablesGood ==
    ASSUME NEW d, NEW e, Good(d), e = [f \in Fields |-> e[f]], SameTables(d, e)
    PROVE  Good(e) /\ (Traces(d) => Traces(e))
  BY DEF Good, SameTables, Traces, RowTraced

LEMMA OverridesFacts ==
    ASSUME NEW d, Good(d), NEW given
    PROVE  /\ Good(replace_overrides(d, given)) /\ SameTables(d, replace_overrides(d, given))
           /\ Traces(d) => Traces(replace_overrides(d, given))
<1>1. PICK v : replace_overrides(d, given) = [d EXCEPT !.overrides = v]
  BY DEF replace_overrides
<1>2. /\ [d EXCEPT !.overrides = v] = [f \in Fields |-> [d EXCEPT !.overrides = v][f]]
      /\ SameTables(d, [d EXCEPT !.overrides = v])
  BY DEF Good, Fields, SameTables
<1>3. QED
  BY <1>1, <1>2, SameTablesGood

LEMMA LinkFacts ==
    ASSUME NEW d, Good(d)
    PROVE  /\ Good(link_signals_to_datasets(d)) /\ SameTables(d, link_signals_to_datasets(d))
           /\ Traces(d) => Traces(link_signals_to_datasets(d))
           /\ \A p \in Linkable(d) :
                 link_signals_to_datasets(d).links[p] = LinkConfidence(d, p[1], p[2])
<1> DEFINE v == [p \in Signal \X Dataset |->
                   IF p \in Linkable(d) THEN LinkConfidence(d, p[1], p[2]) ELSE d.links[p]]
           e == [d EXCEPT !.links = v]
<1>1. link_signals_to_datasets(d) = e
  BY DEF link_signals_to_datasets
<1>2. \A p \in Linkable(d) : v[p] = LinkConfidence(d, p[1], p[2])
  BY DEF Linkable, SignalIds, DatasetIds
<1> HIDE DEF v
<1>3. e = [f \in Fields |-> e[f]] /\ SameTables(d, e) /\ e.links = v
  BY DEF Good, Fields, SameTables
<1> HIDE DEF e
<1>4. QED
  BY <1>1, <1>2, <1>3, SameTablesGood

LEMMA ScoreFacts ==
    ASSUME NEW d, Good(d), NEW ids \in SUBSET Dataset, NEW signals \in SUBSET Signal
    PROVE  /\ Good(score_all(d, ids, signals)) /\ SameTables(d, score_all(d, ids, signals))
           /\ Traces(d) => Traces(score_all(d, ids, signals))
           /\ score_all(d, ids, signals).overrides = d.overrides
           /\ score_all(d, ids, signals).links = d.links
           /\ \A x \in ids : score_all(d, ids, signals).queue[x] = ScoreOf(d, x, d.rows[x])
           /\ \A s \in signals : score_all(d, ids, signals).ranks[s] = score_signal(d.signals[s])
<1> DEFINE q == [x \in Dataset |-> IF x \in ids THEN ScoreOf(d, x, d.rows[x]) ELSE d.queue[x]]
           r == [s \in Signal |-> IF s \in signals THEN score_signal(d.signals[s]) ELSE d.ranks[s]]
           e == [d EXCEPT !.queue = q, !.ranks = r]
<1>1. score_all(d, ids, signals) = e
  BY DEF score_all
<1>2. /\ \A x \in ids : q[x] = ScoreOf(d, x, d.rows[x])
      /\ \A s \in signals : r[s] = score_signal(d.signals[s])
  OBVIOUS
<1> HIDE DEF q, r
<1>3. /\ e = [f \in Fields |-> e[f]] /\ SameTables(d, e) /\ e.queue = q /\ e.ranks = r
      /\ e.overrides = d.overrides /\ e.links = d.links
  BY DEF Good, Fields, SameTables
<1> HIDE DEF e
<1>4. QED
  BY <1>1, <1>2, <1>3, SameTablesGood

\* A mirrored record: the row is that of the record, in the payload given.
LEMMA MirroredRowFacts ==
    ASSUME NEW existing \in Row \cup {None}, NEW record \in Record, NEW raw \in Nat
    PROVE  /\ MirroredRow(existing, record, raw) \in Row
           /\ MirroredRow(existing, record, raw).hash = record
           /\ MirroredRow(existing, record, raw).raw = raw
           /\ (existing # None => ((existing.status = "OPEN_LINKED") <=> (existing.link # None)))
              => LET row == MirroredRow(existing, record, raw)
                 IN (row.status = "OPEN_LINKED") <=> (row.link # None)
<1>1. CASE existing # None /\ existing.hash = record
  <2>1. existing \in Row /\ MirroredRow(existing, record, raw) = [existing EXCEPT !.raw = raw]
    BY <1>1 DEF MirroredRow
  <2>2. QED
    BY <1>1, <2>1 DEF Row, Status
<1>2. CASE ~(existing # None /\ existing.hash = record)
  <2>1. MirroredRow(existing, record, raw) =
           [status |-> record.status, hash |-> record, link |-> None, raw |-> raw]
    BY <1>2 DEF MirroredRow
  <2>2. record.status \in {"PLANNED", "OPEN"}
    BY DEF Record
  <2>3. QED
    BY <2>1, <2>2 DEF Row, Status
<1>3. QED
  BY <1>1, <1>2

LEMMA MirroredFacts ==
    ASSUME NEW d, Good(d), NEW entry \in [id : Dataset, record : Record], NEW raw \in Nat, NEW r
    PROVE  /\ Good(mirrored(d, entry, raw, r))
           /\ mirrored(d, entry, raw, r).raws = d.raws /\ mirrored(d, entry, raw, r).runs = d.runs
           /\ mirrored(d, entry, raw, r).signals = d.signals
           /\ \A x \in Dataset : mirrored(d, entry, raw, r).rows[x] =
                 IF x = entry.id THEN MirroredRow(d.rows[x], entry.record, raw) ELSE d.rows[x]
<1> DEFINE row == MirroredRow(d.rows[entry.id], entry.record, raw)
           rows == [d.rows EXCEPT ![entry.id] = row]
<1>1. entry.id \in Dataset /\ entry.record \in Record
  OBVIOUS
<1>2. d.rows[entry.id] \in Row \cup {None}
  BY <1>1 DEF Good
<1>3. row \in Row
  BY <1>1, <1>2, MirroredRowFacts
<1>4. PICK v : mirrored(d, entry, raw, r) = [d EXCEPT !.rows = rows, !.events = v]
  BY DEF mirrored
<1> DEFINE e == [d EXCEPT !.rows = rows, !.events = v]
<1>5. /\ rows \in [Dataset -> Row \cup {None}]
      /\ \A x \in Dataset : rows[x] = IF x = entry.id THEN row ELSE d.rows[x]
  BY <1>1, <1>3 DEF Good
<1> HIDE DEF rows, row
<1>6. /\ e = [f \in Fields |-> e[f]] /\ e.rows = rows /\ e.raws = d.raws /\ e.runs = d.runs
      /\ e.signals = d.signals
  BY DEF Good, Fields
<1> HIDE DEF e
<1>7. Good(e)
  BY <1>5, <1>6 DEF Good
<1>8. QED
  BY <1>4, <1>5, <1>6, <1>7 DEF row, e

\* A planned dataset is linked to a dataset.
LEMMA ReleaseType ==
    ASSUME NEW d, Good(d), NEW x \in Released(d) PROVE Release(d, x) \in Dataset /\ d.rows[x] \in Row
<1>1. x \in Dataset /\ d.rows[x] \in Row /\ Release(d, x) # None
  BY DEF Released, Good
<1> DEFINE close == {o \in Dataset : /\ d.rows[o] # None /\ d.rows[o].status = "OPEN"
                                     /\ Confidence[<<x, o>>] >= 62}
<1>2. close # {} /\ Release(d, x) = CHOOSE o \in close : \A c \in close : Confidence[<<x, c>>] <= Confidence[<<x, o>>]
  BY <1>1 DEF Release
<1>3. close \in SUBSET Dataset /\ \A c \in close : Confidence[<<x, c>>] \in 0..100
  BY <1>1, CatalogAssumption
<1> HIDE DEF close
<1> DEFINE S == {Confidence[<<x, c>>] : c \in close}
<1>s. S \in SUBSET (0..100) /\ S # {}
  BY <1>2, <1>3
<1>m. PICK m \in S : \A k \in S : k <= m
  <2> HIDE DEF S
  <2>1. QED
    BY <1>s, GreatestExists
<1>4. PICK o \in close : m = Confidence[<<x, o>>]
  BY <1>m
<1>5. \A c \in close : Confidence[<<x, c>>] <= Confidence[<<x, o>>]
  BY <1>m, <1>4
<1>6. Release(d, x) \in close
  BY <1>2, <1>4, <1>5
<1>7. QED
  BY <1>1, <1>3, <1>6

LEMMA ReconcileFacts ==
    ASSUME NEW d, Good(d)
    PROVE  /\ Good(reconcile_planned_to_open(d))
           /\ reconcile_planned_to_open(d).raws = d.raws /\ reconcile_planned_to_open(d).runs = d.runs
           /\ reconcile_planned_to_open(d).signals = d.signals
           /\ reconcile_planned_to_open(d).rows = [x \in Dataset |->
                 IF x \in Released(d)
                 THEN [d.rows[x] EXCEPT !.status = "OPEN_LINKED", !.link = Release(d, x)]
                 ELSE d.rows[x]]
<1> DEFINE rows == [x \in Dataset |->
                      IF x \in Released(d)
                      THEN [d.rows[x] EXCEPT !.status = "OPEN_LINKED", !.link = Release(d, x)]
                      ELSE d.rows[x]]
<1>1. PICK v : reconcile_planned_to_open(d) = [d EXCEPT !.rows = rows, !.events = v]
  BY DEF reconcile_planned_to_open
<1> DEFINE e == [d EXCEPT !.rows = rows, !.events = v]
<1>2. \A x \in Released(d) : Release(d, x) \in Dataset /\ d.rows[x] \in Row
  BY ReleaseType
<1>3. rows \in [Dataset -> Row \cup {None}]
  <2> SUFFICES ASSUME NEW x \in Dataset PROVE rows[x] \in Row \cup {None}
    OBVIOUS
  <2>1. CASE x \in Released(d)
    <3>1. rows[x] = [d.rows[x] EXCEPT !.status = "OPEN_LINKED", !.link = Release(d, x)]
      BY <2>1
    <3>2. QED
      BY <1>2, <2>1, <3>1 DEF Row, Status
  <2>2. CASE x \notin Released(d)
    BY <2>2 DEF Good
  <2>3. QED
    BY <2>1, <2>2
<1> HIDE DEF rows
<1>4. /\ e = [f \in Fields |-> e[f]] /\ e.rows = rows /\ e.raws = d.raws /\ e.runs = d.runs
      /\ e.signals = d.signals
  BY DEF Good, Fields
<1> HIDE DEF e
<1>5. Good(e)
  BY <1>3, <1>4 DEF Good
<1>6. QED
  BY <1>1, <1>4, <1>5 DEF rows, e

\* A link has its dataset, and leaves no released dataset behind.
LEMMA ReconcileTraces ==
    ASSUME NEW d, Good(d), Traces(d)
    PROVE  Traces(reconcile_planned_to_open(d)) /\ Released(reconcile_planned_to_open(d)) = {}
<1> DEFINE e == reconcile_planned_to_open(d)
<1>1. /\ e.raws = d.raws /\ e.signals = d.signals
      /\ e.rows = [x \in Dataset |->
                     IF x \in Released(d)
                     THEN [d.rows[x] EXCEPT !.status = "OPEN_LINKED", !.link = Release(d, x)]
                     ELSE d.rows[x]]
  BY ReconcileFacts
<1> HIDE DEF e
<1>2. ASSUME NEW x \in Released(d)
      PROVE  /\ x \in Dataset /\ d.rows[x] # None /\ Release(d, x) # None
             /\ e.rows[x].status = "OPEN_LINKED" /\ e.rows[x].link = Release(d, x)
             /\ e.rows[x].hash = d.rows[x].hash /\ e.rows[x].raw = d.rows[x].raw
  <2>1. x \in Dataset /\ d.rows[x] # None /\ Release(d, x) # None
    BY DEF Released
  <2>2. e.rows[x] = [d.rows[x] EXCEPT !.status = "OPEN_LINKED", !.link = Release(d, x)]
    BY <1>1, <2>1
  <2>3. d.rows[x] \in Row
    BY <2>1 DEF Good
  <2>4. QED
    BY <2>1, <2>2, <2>3 DEF Row, Status
<1>3. \A x \in Dataset : x \notin Released(d) => e.rows[x] = d.rows[x]
  BY <1>1
<1>4. ASSUME NEW x \in Dataset PROVE RowTraced(e, x)
  <2>1. CASE x \in Released(d)
    <3>1. TracedIn(d.rows[x], x, d.raws)
      BY <1>2, <2>1 DEF Traces, RowTraced
    <3>2. e.rows[x].hash = d.rows[x].hash /\ e.rows[x].raw = d.rows[x].raw
      BY <1>2, <2>1
    <3>3. TracedIn(e.rows[x], x, e.raws)
      BY <1>1, <3>1, <3>2 DEF TracedIn
    <3>4. e.rows[x].status = "OPEN_LINKED" /\ e.rows[x].link # None
      BY <1>2, <2>1
    <3>5. QED
      BY <3>3, <3>4 DEF RowTraced
  <2>2. CASE x \notin Released(d)
    BY <1>1, <1>3, <2>2 DEF Traces, RowTraced
  <2>3. QED
    BY <2>1, <2>2
<1>5. Traces(e)
  BY <1>1, <1>4 DEF Traces
<1>6. \A o \in Dataset : (e.rows[o] # None /\ e.rows[o].status = "OPEN")
                           <=> (d.rows[o] # None /\ d.rows[o].status = "OPEN")
  <2> SUFFICES ASSUME NEW o \in Dataset
               PROVE  (e.rows[o] # None /\ e.rows[o].status = "OPEN")
                         <=> (d.rows[o] # None /\ d.rows[o].status = "OPEN")
    OBVIOUS
  <2>1. CASE o \in Released(d)
    <3>1. d.rows[o].status = "PLANNED" /\ e.rows[o].status = "OPEN_LINKED"
      BY <1>2, <2>1 DEF Released
    <3>2. QED
      BY <3>1
  <2>2. QED
    BY <1>3, <2>1
<1>7. ASSUME NEW x \in Dataset PROVE Release(e, x) = Release(d, x)
  <2> DEFINE close(f) == {o \in Dataset : /\ f.rows[o] # None /\ f.rows[o].status = "OPEN"
                                          /\ Confidence[<<x, o>>] >= 62}
             best(c) == IF c = {} THEN None
                        ELSE CHOOSE o \in c : \A k \in c : Confidence[<<x, k>>] <= Confidence[<<x, o>>]
  <2>1. close(e) = close(d)
    BY <1>6
  <2>2. Release(e, x) = best(close(e)) /\ Release(d, x) = best(close(d))
    BY Zenon DEF Release
  <2> HIDE DEF close, best
  <2>3. QED
    BY <2>1, <2>2
<1>8. ASSUME NEW x \in Released(e) PROVE FALSE
  <2>1. x \in Dataset /\ e.rows[x] # None /\ e.rows[x].status = "PLANNED" /\ Release(d, x) # None
    BY <1>7 DEF Released
  <2>2. x \notin Released(d)
    BY <1>2, <2>1
  <2>3. QED
    BY <1>3, <2>1, <2>2 DEF Released
<1>9. QED
  BY <1>5, <1>8 DEF e

LEMMA FinishFacts ==
    ASSUME NEW d, Good(d), Len(d.runs) > 0, NEW status \in {"SUCCESS", "FAILED"},
           NEW received \in Nat, NEW counted, counted.new \in Nat, counted.unchanged \in Nat
    PROVE  LET e == finish_run(d, status, received, counted)
           IN /\ Good(e) /\ (Traces(d) => Traces(e))
              /\ e.rows = d.rows /\ e.signals = d.signals /\ e.links = d.links
              /\ e.overrides = d.overrides
              /\ Len(e.runs) = Len(d.runs) /\ e.runs[Len(e.runs)].source = d.runs[Len(d.runs)].source
              /\ e.runs[Len(e.runs)].status = status
<1> DEFINE n   == Len(d.runs)
           last == [d.runs[n] EXCEPT !.status = status, !.received = received,
                                     !.inserted = counted.new, !.duplicates = counted.unchanged]
           runs == [d.runs EXCEPT ![n] = last]
           e    == [d EXCEPT !.runs = runs]
<1>1. finish_run(d, status, received, counted) = e
  BY DEF finish_run
<1>2. d.runs \in Seq(RunRow)
  BY DEF Good
<1>3. n \in 1..Len(d.runs) /\ d.runs[n] \in RunRow
  <2> HIDE DEF n
  <2>1. n \in Nat /\ n > 0 /\ n = Len(d.runs)
    BY <1>2 DEF n
  <2> DEFINE R == RunRow
  <2> HIDE DEF R
  <2>2. d.runs \in Seq(R)
    BY <1>2 DEF R
  <2>3. n \in 1..Len(d.runs) /\ d.runs[n] \in R
    BY <2>1, <2>2
  <2>4. QED
    BY <2>3 DEF R
<1>4. last \in RunRow /\ last.source = d.runs[n].source /\ last.status = status
  <2> HIDE DEF n
  <2>1. QED
    BY <1>3 DEF RunRow
<1>5. runs \in Seq(RunRow) /\ Len(runs) = n /\ runs[n] = last
  <2> DEFINE R == RunRow
  <2>1. d.runs \in Seq(R) /\ last \in R
    BY <1>2, <1>4
  <2> HIDE DEF R, last
  <2>2. runs \in Seq(R) /\ Len(runs) = n /\ runs[n] = last
    BY <1>3, <2>1
  <2>3. QED
    BY <2>2 DEF R
<1> HIDE DEF runs, last
<1>6. /\ e = [f \in Fields |-> e[f]] /\ e.rows = d.rows /\ e.raws = d.raws /\ e.runs = runs
      /\ e.signals = d.signals /\ e.links = d.links /\ e.overrides = d.overrides
  BY DEF Good, Fields
<1> HIDE DEF e
<1>7. Good(e)
  BY <1>5, <1>6 DEF Good
<1>8. Traces(d) => Traces(e)
  BY <1>6 DEF Traces, RowTraced
<1>9. QED
  BY <1>1, <1>4, <1>5, <1>6, <1>7, <1>8

LEMMA RawsAppend ==
    ASSUME NEW raws \in Seq(Batch \cup NoticeBatch), NEW payload \in Batch \cup NoticeBatch
    PROVE  /\ Append(raws, payload) \in Seq(Batch \cup NoticeBatch)
           /\ Len(Append(raws, payload)) = Len(raws) + 1 /\ Len(raws) \in Nat
           /\ Append(raws, payload)[Len(raws) + 1] = payload
           /\ \A row, id : TracedIn(row, id, raws) => TracedIn(row, id, Append(raws, payload))
<1> DEFINE S == Batch \cup NoticeBatch
<1>1. raws \in Seq(S) /\ payload \in S
  OBVIOUS
<1>2. Append(raws, payload) \in Seq(S) => Append(raws, payload) \in Seq(Batch \cup NoticeBatch)
  OBVIOUS
<1> HIDE DEF S
<1>3. \A row, id : TracedIn(row, id, raws) => TracedIn(row, id, Append(raws, payload))
  BY <1>1, TracedAppend
<1>4. /\ Append(raws, payload) \in Seq(S)
      /\ Len(Append(raws, payload)) = Len(raws) + 1 /\ Len(raws) \in Nat
      /\ Append(raws, payload)[Len(raws) + 1] = payload
  BY <1>1
<1>5. QED
  BY <1>2, <1>3, <1>4

LEMMA UpsertFacts ==
    ASSUME NEW d, Good(d), NEW notices \in NoticeBatch, Distinct(notices)
    PROVE  LET e == upsert_signals(d, notices)
           IN /\ Good(e) /\ (Traces(d) => Traces(e))
              /\ e.rows = d.rows /\ e.runs = d.runs /\ e.overrides = d.overrides
<1> DEFINE on(s)   == \E i \in DOMAIN notices : notices[i].id = s
           at(s)   == [hash |-> (CHOOSE n \in {notices[i] : i \in DOMAIN notices} : n.id = s).record,
                       raw  |-> Len(d.raws) + 1]
           signals == [s \in Signal |-> IF on(s) THEN at(s) ELSE d.signals[s]]
           raws    == Append(d.raws, notices)
           e       == [d EXCEPT !.raws = raws, !.signals = signals]
<1>1. upsert_signals(d, notices) = e
  BY DEF upsert_signals
<1>2. /\ raws \in Seq(Batch \cup NoticeBatch) /\ Len(d.raws) \in Nat
      /\ \A row, id : TracedIn(row, id, d.raws) => TracedIn(row, id, raws)
  BY RawsAppend DEF Good
<1>3. ASSUME NEW s \in Signal, on(s)
      PROVE  at(s) \in SignalRow /\ TracedIn(at(s), s, raws)
  <2>1. PICK i \in DOMAIN notices : notices[i].id = s
    BY <1>3
  <2>2. /\ notices[i].record \in NoticeRecord
        /\ notices[i] = [id |-> s, record |-> notices[i].record]
    BY <2>1, EntryFacts
  <2>3. at(s).hash = notices[i].record /\ at(s).raw = Len(d.raws) + 1
    <3>1. (CHOOSE n \in {notices[j] : j \in DOMAIN notices} : n.id = notices[i].id) = notices[i]
      BY FoundById
    <3>2. QED
      BY <2>1, <3>1
  <2>4. at(s) \in SignalRow
    <3>1. Len(d.raws) + 1 \in Nat
      BY <1>2
    <3>2. QED
      BY <2>2, <2>3, <3>1 DEF SignalRow
  <2> HIDE DEF at
  <2>5. TracedIn(at(s), s, raws)
    BY <2>2, <2>3, TracedNew DEF Good
  <2>6. QED
    BY <2>4, <2>5
<1> HIDE DEF on, at
<1>4. signals \in [Signal -> SignalRow \cup {None}]
  BY <1>3 DEF Good
<1>5. \A s \in Signal : signals[s] = IF on(s) THEN at(s) ELSE d.signals[s]
  OBVIOUS
<1> HIDE DEF signals, raws
<1>6. /\ e = [f \in Fields |-> e[f]] /\ e.rows = d.rows /\ e.raws = raws /\ e.runs = d.runs
      /\ e.signals = signals /\ e.overrides = d.overrides
  BY DEF Good, Fields
<1> HIDE DEF e
<1>7. Good(e)
  BY <1>2, <1>4, <1>6 DEF Good
<1>8. ASSUME Traces(d) PROVE Traces(e)
  <2>1. \A x \in Dataset : RowTraced(e, x)
    BY <1>2, <1>6, <1>8 DEF Traces, RowTraced
  <2>2. \A s \in Signal : e.signals[s] # None => TracedIn(e.signals[s], s, e.raws)
    BY <1>2, <1>3, <1>5, <1>6, <1>8 DEF Traces
  <2>3. QED
    BY <2>1, <2>2 DEF Traces
<1>9. QED
  BY <1>1, <1>6, <1>7, <1>8

LEMMA SeedFacts ==
    ASSUME NEW d, Good(d)
    PROVE  /\ Good(SeedMirrored(d)) /\ SeedMirrored(d).runs = d.runs
           /\ Traces(d) => Traces(SeedMirrored(d))
<1> DEFINE seeded(x) == \E i \in DOMAIN SeedRows : SeedRows[i].id = x
           record(x) == (CHOOSE r \in {SeedRows[i] : i \in DOMAIN SeedRows} : r.id = x).record
           raw       == Len(d.raws) + 1
           rows      == [x \in Dataset |-> IF seeded(x) THEN MirroredRow(d.rows[x], record(x), raw)
                                           ELSE d.rows[x]]
           raws      == Append(d.raws, SeedRows)
<1>1. PICK v : SeedMirrored(d) = [d EXCEPT !.raws = raws, !.rows = rows, !.events = v]
  BY DEF SeedMirrored
<1> DEFINE e == [d EXCEPT !.raws = raws, !.rows = rows, !.events = v]
<1>2. SeedRows \in Batch /\ Distinct(SeedRows)
  BY CatalogAssumption
<1>3. /\ raws \in Seq(Batch \cup NoticeBatch) /\ Len(d.raws) \in Nat
      /\ \A row, id : TracedIn(row, id, d.raws) => TracedIn(row, id, raws)
  BY <1>2, RawsAppend DEF Good
<1>4. ASSUME NEW x \in Dataset, seeded(x)
      PROVE  /\ rows[x] \in Row /\ TracedIn(rows[x], x, raws)
             /\ RowTraced(d, x) => ((rows[x].status = "OPEN_LINKED") <=> (rows[x].link # None))
  <2>1. PICK i \in DOMAIN SeedRows : SeedRows[i].id = x
    BY <1>4
  <2>2. /\ SeedRows[i].record \in Record
        /\ SeedRows[i] = [id |-> x, record |-> SeedRows[i].record]
    BY <1>2, <2>1, EntryFacts
  <2>3. record(x) = SeedRows[i].record
    <3>1. (CHOOSE r \in {SeedRows[j] : j \in DOMAIN SeedRows} : r.id = SeedRows[i].id) = SeedRows[i]
      BY <1>2, FoundById
    <3>2. QED
      BY <2>1, <3>1
  <2>4. rows[x] = MirroredRow(d.rows[x], SeedRows[i].record, raw) /\ raw \in Nat
    <3>1. rows[x] = MirroredRow(d.rows[x], record(x), raw)
      BY <1>4
    <3>2. QED
      BY <1>3, <2>3, <3>1
  <2>5. d.rows[x] \in Row \cup {None}
    BY DEF Good
  <2> HIDE DEF rows, raw
  <2>6. rows[x] \in Row /\ rows[x].hash = SeedRows[i].record /\ rows[x].raw = raw
    BY <2>2, <2>4, <2>5, MirroredRowFacts
  <2>7. RowTraced(d, x) => ((rows[x].status = "OPEN_LINKED") <=> (rows[x].link # None))
    <3>1. RowTraced(d, x) => (d.rows[x] # None =>
             ((d.rows[x].status = "OPEN_LINKED") <=> (d.rows[x].link # None)))
      BY DEF RowTraced
    <3>2. SeedRows[i].record \in Record /\ raw \in Nat
      BY <2>2, <2>4
    <3>3. QED
      BY <2>4, <2>5, <3>1, <3>2, MirroredRowFacts
  <2>8. TracedIn(rows[x], x, raws)
    BY <1>2, <2>2, <2>6, TracedNew DEF Good, raw
  <2>9. QED
    BY <2>6, <2>7, <2>8
<1>5. \A x \in Dataset : ~seeded(x) => rows[x] = d.rows[x]
  OBVIOUS
<1>6. rows \in [Dataset -> Row \cup {None}]
  <2>1. \A x \in Dataset : rows[x] \in Row \cup {None}
    <3> SUFFICES ASSUME NEW x \in Dataset PROVE rows[x] \in Row \cup {None}
      OBVIOUS
    <3>1. d.rows[x] \in Row \cup {None}
      BY DEF Good
    <3> HIDE DEF rows
    <3>2. QED
      BY <1>4, <1>5, <3>1
  <2>2. rows = [x \in Dataset |-> rows[x]]
    OBVIOUS
  <2> HIDE DEF rows
  <2>3. QED
    BY <2>1, <2>2
<1> HIDE DEF rows, raws, seeded
<1>7. /\ e = [f \in Fields |-> e[f]] /\ e.rows = rows /\ e.raws = raws /\ e.runs = d.runs
      /\ e.signals = d.signals
  BY DEF Good, Fields
<1> HIDE DEF e
<1>8. Good(e)
  BY <1>3, <1>6, <1>7 DEF Good
<1>9. ASSUME Traces(d) PROVE Traces(e)
  <2>1. ASSUME NEW x \in Dataset PROVE RowTraced(e, x)
    <3>1. CASE seeded(x)
      BY <1>4, <1>7, <1>9, <3>1 DEF Traces, RowTraced
    <3>2. CASE ~seeded(x)
      BY <1>3, <1>5, <1>7, <1>9, <3>2 DEF Traces, RowTraced
    <3>3. QED
      BY <3>1, <3>2
  <2>2. \A s \in Signal : e.signals[s] # None => TracedIn(e.signals[s], s, e.raws)
    BY <1>3, <1>7, <1>9 DEF Traces
  <2>3. QED
    BY <2>1, <2>2 DEF Traces
<1>10. QED
  BY <1>1, <1>7, <1>8, <1>9 DEF e

\* Scores, and a score after them, touch neither rows nor payloads.
LEMMA ScoresKeep ==
    ASSUME NEW d, Good(d), NEW ids, NEW signals
    PROVE  LET e == score_all(d, ids, signals)
           IN /\ Good(e) /\ SameTables(d, e) /\ (Traces(d) => Traces(e))
<1>1. PICK q, r : score_all(d, ids, signals) = [d EXCEPT !.queue = q, !.ranks = r]
  BY DEF score_all
<1> DEFINE e == [d EXCEPT !.queue = q, !.ranks = r]
<1>2. e = [f \in Fields |-> e[f]] /\ SameTables(d, e)
  BY DEF Good, Fields, SameTables
<1> HIDE DEF e
<1>3. QED
  BY <1>1, <1>2, SameTablesGood DEF e

LEMMA BootstrapFacts ==
    ASSUME NEW d, Good(d)
    PROVE  /\ Good(bootstrap(d)) /\ bootstrap(d).runs = d.runs
           /\ Traces(d) => Traces(bootstrap(d))
<1> DEFINE a == SeedMirrored(d)
           b == upsert_signals(a, SeedSignals)
<1>1. Good(a) /\ a.runs = d.runs /\ (Traces(d) => Traces(a))
  BY SeedFacts
<1>2. SeedSignals \in NoticeBatch /\ Distinct(SeedSignals)
  BY CatalogAssumption
<1>3. PICK given : bootstrap(d) = score_everything(link_signals_to_datasets(set_overrides(b, given)))
  BY Zenon DEF bootstrap
<1> HIDE DEF a
<1>4. Good(b) /\ b.runs = a.runs /\ (Traces(a) => Traces(b))
  BY <1>1, <1>2, UpsertFacts
<1> HIDE DEF b
<1> DEFINE c == set_overrides(b, given)
<1>5. Good(c) /\ c.runs = b.runs /\ (Traces(b) => Traces(c))
  BY <1>4, OverridesFacts DEF set_overrides, SameTables
<1> HIDE DEF c
<1> DEFINE l == link_signals_to_datasets(c)
<1>6. Good(l) /\ l.runs = c.runs /\ (Traces(c) => Traces(l))
  BY <1>5, LinkFacts DEF SameTables
<1> HIDE DEF l
<1>7. LET e == score_everything(l)
      IN Good(e) /\ e.runs = l.runs /\ (Traces(l) => Traces(e))
  BY <1>6, ScoresKeep DEF score_everything, SameTables
<1>8. QED
  BY <1>1, <1>3, <1>4, <1>5, <1>6, <1>7 DEF c, l

(***************************************************************************)
(* The invariant: the committed database is traced; so is the one of the   *)
(* owner of the lock, whose last run is its own; while records are         *)
(* mirrored, the last payload is their batch.                              *)
(***************************************************************************)
OwnerInv ==
    /\ phase # "idle" => owner # None
    /\ owner # None => /\ Good(tx) /\ Traces(tx) /\ feed \in Source
                       /\ Len(tx.runs) = Len(db.runs) + 1
                       /\ tx.runs[Len(tx.runs)].source = feed

BatchInv ==
    /\ counts \in Counts /\ pos \in Nat \ {0}
    /\ phase = "records" => /\ feed \in Registry /\ batch \in Batch
                            /\ tx.raws # <<>> /\ tx.raws[Len(tx.raws)] = batch

Inv == Good(db) /\ Traces(db) /\ OwnerInv /\ BatchInv

LEMMA InvInit == Init => Inv
<1> SUFFICES ASSUME Init PROVE Inv
  OBVIOUS
<1>1. Good(EmptyDb) /\ Traces(EmptyDb)
  <2>1. EmptyDb.raws = <<>> /\ EmptyDb.runs = <<>>
    BY DEF EmptyDb
  <2>2. <<>> \in Seq(Batch \cup NoticeBatch) /\ <<>> \in Seq(RunRow)
    OBVIOUS
  <2>3. EmptyDb.rows = [x \in Dataset |-> None] /\ EmptyDb.signals = [s \in Signal |-> None]
    BY DEF EmptyDb
  <2>4. EmptyDb = [f \in Fields |-> EmptyDb[f]]
    BY DEF EmptyDb, Fields
  <2> HIDE DEF Good
  <2>5. Good(EmptyDb)
    BY <2>1, <2>2, <2>3, <2>4 DEF Good
  <2>6. QED
    BY <2>3, <2>5 DEF Traces, RowTraced
<1>2. Good(bootstrap(EmptyDb)) /\ Traces(bootstrap(EmptyDb))
  BY <1>1, BootstrapFacts
<1>3. db = bootstrap(EmptyDb) /\ owner = None /\ phase = "idle" /\ pos = 1 /\ counts = NoCounts
  BY Zenon DEF Init
<1>4. BatchInv
  BY <1>3 DEF BatchInv, NoCounts, Counts
<1>5. QED
  BY <1>2, <1>3, <1>4 DEF Inv, OwnerInv

\* A command without a run, on a database that is traced.
LEMMA WriteKeeps ==
    ASSUME Inv, Good(db'), Traces(db'), db'.runs = db.runs, UNCHANGED <<tx, owner, run>>
    PROVE  Inv'
  BY DEF Inv, OwnerInv, BatchInv, run

\* The end of a run.
LEMMA CloseKeeps == ASSUME Close, Good(db'), Traces(db') PROVE Inv'
<1>1. owner' = None /\ phase' = "idle" /\ pos' = 1 /\ counts' = NoCounts
  BY DEF Close
<1>2. BatchInv'
  BY <1>1 DEF BatchInv, NoCounts, Counts
<1>3. QED
  BY <1>1, <1>2 DEF Inv, OwnerInv

\* The run an owner finishes is its own.
LEMMA RunNotEmpty ==
    ASSUME Inv, owner # None
    PROVE  Good(tx) /\ Traces(tx) /\ Len(tx.runs) > 0
<1>1. Good(tx) /\ Traces(tx) /\ Len(tx.runs) = Len(db.runs) + 1
  BY DEF Inv, OwnerInv
<1>2. Len(db.runs) \in Nat
  BY DEF Inv, Good
<1>3. QED
  BY <1>1, <1>2

LEMMA AcquireKeeps == ASSUME Inv, NEW p \in Process, Acquire(p) PROVE Inv'
<1> DEFINE r == [source |-> job[p], status |-> "RUNNING", received |-> 0, inserted |-> 0,
                 duplicates |-> 0]
           runs == Append(db.runs, r)
           e == [db EXCEPT !.runs = runs]
<1>1. /\ job[p] \in Source /\ owner' = p /\ feed' = job[p] /\ tx' = e /\ phase' = "fetch"
      /\ UNCHANGED <<db, batch, pos, counts>>
  BY DEF Acquire
<1>2. r \in RunRow
  BY <1>1 DEF RunRow
<1>3. runs \in Seq(RunRow) /\ Len(runs) = Len(db.runs) + 1 /\ runs[Len(runs)] = r
  <2> DEFINE R == RunRow
  <2>1. db.runs \in Seq(R) /\ r \in R
    BY <1>2 DEF Inv, Good
  <2> HIDE DEF R, r
  <2>2. runs \in Seq(R) /\ Len(runs) = Len(db.runs) + 1 /\ runs[Len(runs)] = r
    BY <2>1
  <2>3. QED
    BY <2>2 DEF R
<1>4. r.source = job[p]
  OBVIOUS
<1> HIDE DEF runs, r
<1>5. Good(db) /\ Traces(db)
  BY DEF Inv
<1>6. /\ e = [f \in Fields |-> e[f]] /\ e.rows = db.rows /\ e.raws = db.raws /\ e.runs = runs
      /\ e.signals = db.signals
  BY <1>5 DEF Good, Fields
<1> HIDE DEF e
<1>7. Good(e)
  BY <1>3, <1>5, <1>6 DEF Good
<1>8. Traces(e)
  BY <1>5, <1>6 DEF Traces, RowTraced
<1>9. OwnerInv'
  BY <1>1, <1>3, <1>4, <1>6, <1>7, <1>8, CatalogAssumption DEF OwnerInv
<1>10. BatchInv'
  BY <1>1 DEF Inv, BatchInv
<1>11. QED
  BY <1>1, <1>5, <1>9, <1>10 DEF Inv

LEMMA FetchKeeps == ASSUME Inv, Fetch PROVE Inv'
<1> DEFINE raws == Append(tx.raws, batch')
           e == [tx EXCEPT !.raws = raws]
<1>1. /\ phase = "fetch" /\ feed \in Registry /\ phase' = "records" /\ batch' \in Feeds[feed]
      /\ tx' = e /\ UNCHANGED <<db, owner, feed, pos, counts>>
  BY DEF Fetch
<1>2. batch' \in Batch
  BY <1>1, CatalogAssumption
<1>3. /\ owner # None /\ Good(tx) /\ Traces(tx) /\ feed \in Source
      /\ Len(tx.runs) = Len(db.runs) + 1 /\ tx.runs[Len(tx.runs)].source = feed
  BY <1>1 DEF Inv, OwnerInv
<1>4. /\ raws \in Seq(Batch \cup NoticeBatch) /\ Len(raws) = Len(tx.raws) + 1
      /\ Len(tx.raws) \in Nat /\ raws[Len(tx.raws) + 1] = batch'
      /\ \A row, id : TracedIn(row, id, tx.raws) => TracedIn(row, id, raws)
  BY <1>2, <1>3, RawsAppend DEF Good
<1> HIDE DEF raws
<1>5. /\ e = [f \in Fields |-> e[f]] /\ e.rows = tx.rows /\ e.raws = raws /\ e.runs = tx.runs
      /\ e.signals = tx.signals
  BY <1>3 DEF Good, Fields
<1> HIDE DEF e
<1>6. Good(e)
  BY <1>3, <1>4, <1>5 DEF Good
<1>7. Traces(e)
  BY <1>3, <1>4, <1>5 DEF Traces, RowTraced
<1>8. OwnerInv'
  BY <1>1, <1>3, <1>5, <1>6, <1>7 DEF OwnerInv
<1>9. BatchInv'
  <2>1. raws # <<>>
    BY <1>4
  <2>2. QED
    BY <1>1, <1>2, <1>4, <1>5, <2>1 DEF Inv, BatchInv
<1>10. QED
  BY <1>1, <1>8, <1>9 DEF Inv

LEMMA MirrorRecordKeeps == ASSUME Inv, MirrorRecord PROVE Inv'
<1> DEFINE n == Len(tx.raws)
           e == mirrored(tx, batch[pos], n, Len(tx.runs))
<1>1. /\ phase = "records" /\ pos <= Len(batch) /\ tx' = e /\ pos' = pos + 1
      /\ UNCHANGED <<db, owner, phase, feed, batch>>
  BY DEF MirrorRecord
<1>2. /\ owner # None /\ Good(tx) /\ Traces(tx) /\ feed \in Source
      /\ Len(tx.runs) = Len(db.runs) + 1 /\ tx.runs[Len(tx.runs)].source = feed
  BY <1>1 DEF Inv, OwnerInv
<1>3. /\ feed \in Registry /\ batch \in Batch /\ tx.raws # <<>> /\ tx.raws[n] = batch
      /\ pos \in Nat \ {0} /\ counts \in Counts
  BY <1>1 DEF Inv, BatchInv
<1>4. pos \in DOMAIN batch /\ pos + 1 \in Nat \ {0}
  <2> DEFINE T == [id : Dataset, record : Record]
  <2>1. batch \in Seq(T)
    BY <1>3 DEF Batch
  <2> HIDE DEF T
  <2>2. QED
    BY <1>1, <1>3, <2>1
<1> DEFINE entry == batch[pos]
<1>5. /\ entry.id \in Dataset /\ entry.record \in Record
      /\ entry = [id |-> entry.id, record |-> entry.record]
  BY <1>3, <1>4, EntryFacts
<1>6. n \in 1..Len(tx.raws) /\ n \in Nat
  <2> DEFINE S == Batch \cup NoticeBatch
  <2>1. tx.raws \in Seq(S)
    BY <1>2 DEF Good
  <2> HIDE DEF S
  <2>2. QED
    BY <1>3, <2>1
<1> HIDE DEF n
<1>7. /\ Good(e) /\ e.raws = tx.raws /\ e.runs = tx.runs /\ e.signals = tx.signals
      /\ \A x \in Dataset : e.rows[x] = IF x = entry.id THEN MirroredRow(tx.rows[x], entry.record, n)
                                        ELSE tx.rows[x]
  <2>1. entry \in [id : Dataset, record : Record]
    BY <1>5
  <2> HIDE DEF entry
  <2>2. e = mirrored(tx, entry, n, Len(tx.runs))
    BY DEF entry
  <2> HIDE DEF e
  <2>3. QED
    BY <1>2, <1>6, <2>1, <2>2, MirroredFacts
<1> HIDE DEF e
<1>8. ASSUME NEW x \in Dataset PROVE RowTraced(e, x)
  <2>1. CASE x = entry.id
    <3>1. e.rows[x] = MirroredRow(tx.rows[x], entry.record, n) /\ tx.rows[x] \in Row \cup {None}
      BY <1>2, <1>7, <2>1 DEF Good
    <3>2. /\ e.rows[x].hash = entry.record /\ e.rows[x].raw = n
          /\ RowTraced(tx, x) => ((e.rows[x].status = "OPEN_LINKED") <=> (e.rows[x].link # None))
      <4>1. RowTraced(tx, x) => (tx.rows[x] # None =>
               ((tx.rows[x].status = "OPEN_LINKED") <=> (tx.rows[x].link # None)))
        BY DEF RowTraced
      <4>2. entry.record \in Record /\ n \in Nat
        BY <1>5, <1>6
      <4>3. QED
        BY <3>1, <4>1, <4>2, MirroredRowFacts
    <3>3. tx.raws[n][pos] = [id |-> x, record |-> entry.record] /\ pos \in DOMAIN tx.raws[n]
      BY <1>3, <1>4, <1>5, <2>1
    <3>4. TracedIn(e.rows[x], x, e.raws)
      BY <1>6, <1>7, <3>2, <3>3 DEF TracedIn
    <3>5. QED
      BY <1>2, <3>2, <3>4 DEF RowTraced, Traces
  <2>2. CASE x # entry.id
    BY <1>2, <1>7, <2>2 DEF Traces, RowTraced
  <2>3. QED
    BY <2>1, <2>2
<1>9. Traces(e)
  BY <1>2, <1>7, <1>8 DEF Traces
<1>10. OwnerInv'
  BY <1>1, <1>2, <1>7, <1>9 DEF OwnerInv
<1>11. counts' \in Counts
  <2>1. \/ counts' = [counts EXCEPT !.new = @ + 1] \/ counts' = [counts EXCEPT !.unchanged = @ + 1]
        \/ counts' = [counts EXCEPT !.updated = @ + 1]
    BY Zenon DEF MirrorRecord
  <2>2. QED
    BY <1>3, <2>1 DEF Counts
<1>12. BatchInv'
  BY <1>1, <1>3, <1>4, <1>7, <1>11 DEF BatchInv, n
<1>13. QED
  BY <1>1, <1>10, <1>12 DEF Inv

(***************************************************************************)
(* What is left to do in a database whose scores are taken last: nothing   *)
(* that was not left before them.                                          *)
(***************************************************************************)
ScoredNow(d) ==
    /\ \A x \in DatasetIds(d) :
          /\ d.queue[x] = ScoreOf(d, x, d.rows[x])
          /\ d.queue[x].decision =
                DocumentedGate(d.queue[x].seed, d.rows[x].hash.rights, d.rows[x].hash.cost)
    /\ \A s \in SignalIds(d) : d.ranks[s] = score_signal(d.signals[s])

AllLinked(d) == \A p \in Linkable(d) : d.links[p] = LinkConfidence(d, p[1], p[2])

\* The gate of the code is the one of the documentation.
LEMMA GateIsDocumented ==
    ASSUME NEW d, NEW x \in DatasetIds(d), Good(d)
    PROVE  ScoreOf(d, x, d.rows[x]).decision =
              DocumentedGate(ScoreOf(d, x, d.rows[x]).seed, d.rows[x].hash.rights, d.rows[x].hash.cost)
<1> DEFINE row == d.rows[x]
<1>1. row \in Row
  BY DEF DatasetIds, Good
<1>2. row.hash.rights \in {"ALLOW", "RESTRICTED", "UNKNOWN"} /\ row.hash.cost \in {"FREE", "PAID", "UNKNOWN"}
  BY <1>1 DEF Row, Status, Record
<1> HIDE DEF row
<1>3. PICK pra, seed, ephemeral, review :
         ScoreOf(d, x, row) = [pra |-> pra, seed |-> seed, ephemeral |-> ephemeral,
                               decision |-> Decision(seed, row.hash.rights, row.hash.cost),
                               review |-> review]
  BY Zenon DEF ScoreOf
<1>4. ASSUME NEW total PROVE Decision(total, row.hash.rights, row.hash.cost)
                               = DocumentedGate(total, row.hash.rights, row.hash.cost)
  <2> DEFINE rights == row.hash.rights
             cost   == row.hash.cost
  <2>1. /\ rights_gate(rights) = "FAIL" <=> rights = "RESTRICTED"
        /\ rights_gate(rights) = "PASS" <=> rights = "ALLOW"
        /\ rights_gate(rights) = "REVIEW" <=> rights = "UNKNOWN"
        /\ cost_gate(cost) = "FAIL" <=> cost = "PAID"
        /\ cost_gate(cost) = "PASS" <=> cost = "FREE"
        /\ cost_gate(cost) = "REVIEW" <=> cost = "UNKNOWN"
    BY <1>2 DEF rights_gate, cost_gate
  <2>2. rights \in {"ALLOW", "RESTRICTED", "UNKNOWN"} /\ cost \in {"FREE", "PAID", "UNKNOWN"}
    BY <1>2
  <2> HIDE DEF rights, cost
  <2> DEFINE enough == total >= 7500
             r == rights_gate(rights)
             c == cost_gate(cost)
  <2>3. Decision(total, rights, cost) =
           CASE enough /\ r = "PASS" /\ c = "PASS" -> "COLLECT_NOW"
             [] r = "FAIL" -> "METADATA_ONLY"
             [] enough /\ r # "FAIL" /\ "REVIEW" \in {r, c} -> "REVIEW_RIGHTS_COST"
             [] OTHER -> "HOLD"
    BY DEF Decision
  <2>4. DocumentedGate(total, rights, cost) =
           IF rights = "RESTRICTED" THEN "METADATA_ONLY" ELSE IF ~enough THEN "HOLD"
           ELSE IF rights = "ALLOW" /\ cost \in {"FREE", "NEAR_ZERO"} THEN "COLLECT_NOW"
           ELSE IF "UNKNOWN" \in {rights, cost} THEN "REVIEW_RIGHTS_COST" ELSE "HOLD"
    BY DEF DocumentedGate
  <2> HIDE DEF enough, r, c
  <2>5. /\ r = "FAIL" <=> rights = "RESTRICTED"
        /\ r = "PASS" <=> rights = "ALLOW"
        /\ r = "REVIEW" <=> rights = "UNKNOWN"
        /\ c = "FAIL" <=> cost = "PAID"
        /\ c = "PASS" <=> cost = "FREE"
        /\ c = "REVIEW" <=> cost = "UNKNOWN"
    BY <2>1 DEF r, c
  <2>6. Decision(total, rights, cost) = DocumentedGate(total, rights, cost)
    BY <2>2, <2>3, <2>4, <2>5
  <2>7. QED
    BY <2>6 DEF rights, cost
<1>5. QED
  BY <1>3, <1>4 DEF row

LEMMA ScoresComplete ==
    ASSUME NEW d, Good(d)
    PROVE  LET e == score_everything(d)
           IN /\ Good(e) /\ SameTables(d, e) /\ (Traces(d) => Traces(e)) /\ ScoredNow(e)
              /\ (Released(d) = {} => Released(e) = {}) /\ (AllLinked(d) => AllLinked(e))
<1> DEFINE ids == DatasetIds(d)
           signals == SignalIds(d)
           e == score_all(d, ids, signals)
<1>1. score_everything(d) = e
  BY DEF score_everything
<1>2. ids \in SUBSET Dataset /\ signals \in SUBSET Signal
  BY DEF DatasetIds, SignalIds
<1> HIDE DEF ids, signals
<1>3. /\ Good(e) /\ SameTables(d, e) /\ (Traces(d) => Traces(e))
      /\ e.overrides = d.overrides /\ e.links = d.links
      /\ \A x \in ids : e.queue[x] = ScoreOf(d, x, d.rows[x])
      /\ \A s \in signals : e.ranks[s] = score_signal(d.signals[s])
  BY <1>2, ScoreFacts
<1> HIDE DEF e
<1>4. e.rows = d.rows /\ e.signals = d.signals
  BY <1>3 DEF SameTables
<1>5. DatasetIds(e) = ids /\ SignalIds(e) = signals
  BY <1>4 DEF DatasetIds, SignalIds, ids, signals
<1>6. \A x : ScoreOf(e, x, e.rows[x]) = ScoreOf(d, x, d.rows[x])
  <2>1. \A key : InForce(e, key) = InForce(d, key)
    BY <1>3 DEF InForce, ActiveOf
  <2> SUFFICES ASSUME NEW x PROVE ScoreOf(e, x, d.rows[x]) = ScoreOf(d, x, d.rows[x])
    BY <1>4
  <2> DEFINE given(f) == [k \in SeedDimension |-> InForce(f, <<x, k>>)]
             row      == d.rows[x]
             scored(g) ==
               LET auto == seed_dimensions(row.hash.features)
                   seed == Total(SEED_WEIGHTS, [k \in SeedDimension |->
                              IF g[k] = None THEN auto[k] ELSE g[k].rating])
               IN [pra       |-> Total(PRA_WEIGHTS, pra_dimensions_dataset(row.status, row.hash.features)),
                   seed      |-> seed,
                   ephemeral |-> Total(EPHEMERAL_WEIGHTS, ephemeral_dimensions(row.hash.features)),
                   decision  |-> Decision(seed, row.hash.rights, row.hash.cost),
                   review    |-> ReviewStatus({g[k].type : k \in {j \in SeedDimension : g[j] # None}})]
  <2>2. given(e) = given(d)
    BY <2>1
  <2>3. ScoreOf(e, x, row) = scored(given(e)) /\ ScoreOf(d, x, row) = scored(given(d))
    BY Zenon DEF ScoreOf
  <2> HIDE DEF given, scored
  <2>4. QED
    BY <2>2, <2>3
<1>7. ScoredNow(e)
  <2>1. ASSUME NEW x \in DatasetIds(e)
        PROVE  /\ e.queue[x] = ScoreOf(e, x, e.rows[x])
               /\ e.queue[x].decision =
                     DocumentedGate(e.queue[x].seed, e.rows[x].hash.rights, e.rows[x].hash.cost)
    <3>1. e.queue[x] = ScoreOf(e, x, e.rows[x])
      BY <1>3, <1>5, <1>6
    <3>2. QED
      BY <1>3, <3>1, GateIsDocumented
  <2>2. \A s \in SignalIds(e) : e.ranks[s] = score_signal(e.signals[s])
    BY <1>3, <1>4, <1>5
  <2>3. QED
    BY <2>1, <2>2 DEF ScoredNow
<1>8. Released(e) = Released(d)
  BY <1>4 DEF Released, Release
<1>9. AllLinked(d) => AllLinked(e)
  <2>1. \A s, x : LinkConfidence(e, s, x) = LinkConfidence(d, s, x)
    BY <1>4 DEF LinkConfidence
  <2>2. Linkable(e) = Linkable(d)
    BY <1>4, <2>1 DEF Linkable, DatasetIds, SignalIds
  <2>3. QED
    BY <1>3, <2>1, <2>2 DEF AllLinked
<1>10. QED
  BY <1>1, <1>3, <1>7, <1>8, <1>9

\* Finishing the run leaves what there is to link as it was.
LEMMA FinishLeaves ==
    ASSUME NEW d, NEW e, e.rows = d.rows, e.signals = d.signals, e.links = d.links
    PROVE  Released(e) = Released(d) /\ (AllLinked(d) => AllLinked(e))
<1>1. Released(e) = Released(d)
  BY DEF Released, Release
<1>2. \A s, x : LinkConfidence(e, s, x) = LinkConfidence(d, s, x)
  BY DEF LinkConfidence
<1>3. Linkable(e) = Linkable(d)
  BY <1>2 DEF Linkable, DatasetIds, SignalIds
<1>4. QED
  BY <1>1, <1>2, <1>3 DEF AllLinked

(***************************************************************************)
(* The ends of a run.                                                      *)
(***************************************************************************)
LEMMA SucceedFacts ==
    ASSUME Inv, Succeed
    PROVE  /\ Good(db') /\ Traces(db') /\ ScoredNow(db') /\ Released(db') = {}
           /\ db'.runs[Len(db'.runs)].source = feed /\ feed \in Registry
<1> DEFINE a == reconcile_planned_to_open(tx)
           b == finish_run(a, "SUCCESS", Len(batch), counts)
<1>1. phase = "records" /\ db' = score_everything(b)
  BY Zenon DEF Succeed
<1>2. /\ feed \in Registry /\ batch \in Batch /\ counts \in Counts
      /\ owner # None /\ tx.runs[Len(tx.runs)].source = feed
  BY <1>1 DEF Inv, BatchInv, OwnerInv
<1>3. Len(batch) \in Nat
  <2> DEFINE T == [id : Dataset, record : Record]
  <2>1. batch \in Seq(T)
    BY <1>2 DEF Batch
  <2> HIDE DEF T
  <2>2. QED
    BY <2>1
<1>4. Good(tx) /\ Traces(tx) /\ Len(tx.runs) > 0
  BY <1>2, RunNotEmpty
<1>5. Good(a) /\ Traces(a) /\ a.runs = tx.runs /\ Released(a) = {}
  BY <1>4, ReconcileFacts, ReconcileTraces
<1> HIDE DEF a
<1>6. /\ Good(b) /\ Traces(b) /\ b.rows = a.rows /\ b.signals = a.signals /\ b.links = a.links
      /\ b.runs[Len(b.runs)].source = feed
  <2>1. counts.new \in Nat /\ counts.unchanged \in Nat
    BY <1>2 DEF Counts
  <2>2. QED
    <3>1. Len(a.runs) > 0 /\ a.runs[Len(a.runs)].source = feed
      BY <1>2, <1>4, <1>5
    <3>2. LET f == finish_run(a, "SUCCESS", Len(batch), counts)
          IN /\ Good(f) /\ (Traces(a) => Traces(f))
             /\ f.rows = a.rows /\ f.signals = a.signals /\ f.links = a.links
             /\ f.runs[Len(f.runs)].source = a.runs[Len(a.runs)].source
      <4>1. "SUCCESS" \in {"SUCCESS", "FAILED"} /\ Good(a) /\ Len(a.runs) > 0
        BY <1>5, <3>1
      <4> HIDE DEF a
      <4>2. QED
        BY <1>3, <2>1, <4>1, FinishFacts
    <3>3. QED
      BY <1>5, <3>1, <3>2
<1> HIDE DEF b
<1>7. Released(b) = {}
  BY <1>5, <1>6, FinishLeaves
<1>8. QED
  BY <1>1, <1>2, <1>6, <1>7, ScoresComplete DEF SameTables

LEMMA SignalCountsType ==
    ASSUME NEW d, NEW notices \in NoticeBatch
    PROVE  /\ Len(notices) \in Nat
           /\ SignalCounts(d, notices).new \in Nat /\ SignalCounts(d, notices).unchanged \in Nat
<1>1. Len(notices) \in Nat /\ IsFiniteSet(DOMAIN notices)
  <2> DEFINE T == [id : Signal, record : NoticeRecord]
  <2>1. notices \in Seq(T)
    BY DEF NoticeBatch
  <2> HIDE DEF T
  <2>2. Len(notices) \in Nat /\ DOMAIN notices = 1..Len(notices)
    BY <2>1
  <2>3. QED
    BY <2>2, FS_Interval
<1>2. \A P \in SUBSET DOMAIN notices : Cardinality(P) \in Nat
  BY <1>1, FS_Subset, FS_CardinalityType
<1> DEFINE m == {i \in DOMAIN notices : d.signals[notices[i].id] = None}
           k == {i \in DOMAIN notices : /\ d.signals[notices[i].id] # None
                                        /\ d.signals[notices[i].id].hash = notices[i].record}
<1>3. Cardinality(m) \in Nat /\ Cardinality(k) \in Nat
  BY <1>2
<1>4. SignalCounts(d, notices) = [new |-> Cardinality(m), unchanged |-> Cardinality(k)]
  BY DEF SignalCounts
<1> HIDE DEF m, k
<1>5. QED
  BY <1>1, <1>3, <1>4

LEMMA WatchNiaFacts ==
    ASSUME Inv, WatchNia
    PROVE  /\ Good(db') /\ Traces(db') /\ ScoredNow(db') /\ AllLinked(db')
           /\ db'.runs[Len(db'.runs)].source = feed /\ feed = "nia_procurement"
<1>1. phase = "fetch" /\ feed = "nia_procurement"
  BY DEF WatchNia
<1>2. PICK notices \in Feeds[feed] :
         db' = score_everything(
                  finish_run(link_signals_to_datasets(upsert_signals(tx, notices)), "SUCCESS",
                             Len(notices), SignalCounts(tx, notices)))
  BY Zenon DEF WatchNia
<1> DEFINE a == upsert_signals(tx, notices)
           b == link_signals_to_datasets(a)
           c == finish_run(b, "SUCCESS", Len(notices), SignalCounts(tx, notices))
<1>3. notices \in NoticeBatch /\ Distinct(notices)
  BY <1>1, <1>2, CatalogAssumption
<1>4. Len(notices) \in Nat
  BY <1>3, SignalCountsType
<1>5. SignalCounts(tx, notices).new \in Nat /\ SignalCounts(tx, notices).unchanged \in Nat
  BY <1>3, SignalCountsType
<1>6. owner # None /\ tx.runs[Len(tx.runs)].source = feed
  BY <1>1 DEF Inv, OwnerInv
<1>7. Good(tx) /\ Traces(tx) /\ Len(tx.runs) > 0
  BY <1>6, RunNotEmpty
<1>8. Good(a) /\ Traces(a) /\ a.runs = tx.runs
  BY <1>3, <1>7, UpsertFacts
<1> HIDE DEF a
<1>9. Good(b) /\ Traces(b) /\ b.runs = a.runs /\ AllLinked(b)
  <2>1. /\ Good(b) /\ Traces(b) /\ SameTables(a, b)
        /\ \A p \in Linkable(a) : b.links[p] = LinkConfidence(a, p[1], p[2])
    BY <1>8, LinkFacts
  <2> HIDE DEF b
  <2>2. b.rows = a.rows /\ b.signals = a.signals /\ b.runs = a.runs
    BY <2>1 DEF SameTables
  <2>3. \A s, x : LinkConfidence(b, s, x) = LinkConfidence(a, s, x)
    BY <2>2 DEF LinkConfidence
  <2>4. Linkable(b) = Linkable(a)
    BY <2>2, <2>3 DEF Linkable, DatasetIds, SignalIds
  <2>5. QED
    BY <2>1, <2>2, <2>3, <2>4 DEF AllLinked
<1> HIDE DEF b
<1>10. /\ Good(c) /\ Traces(c) /\ c.rows = b.rows /\ c.signals = b.signals /\ c.links = b.links
       /\ c.runs[Len(c.runs)].source = feed
  <2>1. Len(b.runs) > 0 /\ b.runs[Len(b.runs)].source = feed
    BY <1>6, <1>7, <1>8, <1>9
  <2>2. LET f == finish_run(b, "SUCCESS", Len(notices), SignalCounts(tx, notices))
        IN /\ Good(f) /\ (Traces(b) => Traces(f))
           /\ f.rows = b.rows /\ f.signals = b.signals /\ f.links = b.links
           /\ f.runs[Len(f.runs)].source = b.runs[Len(b.runs)].source
    <3> DEFINE counted == SignalCounts(tx, notices)
               received == Len(notices)
    <3>1. counted.new \in Nat /\ counted.unchanged \in Nat /\ received \in Nat
      BY <1>4, <1>5
    <3>2. "SUCCESS" \in {"SUCCESS", "FAILED"} /\ Good(b) /\ Len(b.runs) > 0
      BY <1>9, <2>1
    <3> HIDE DEF counted, received
    <3>3. LET f == finish_run(b, "SUCCESS", received, counted)
          IN /\ Good(f) /\ (Traces(b) => Traces(f))
             /\ f.rows = b.rows /\ f.signals = b.signals /\ f.links = b.links
             /\ f.runs[Len(f.runs)].source = b.runs[Len(b.runs)].source
      BY <3>1, <3>2, FinishFacts
    <3>4. QED
      BY <3>3 DEF counted, received
  <2>3. QED
    BY <1>9, <2>1, <2>2
<1>11. db' = score_everything(c)
  BY <1>2 DEF a, b
<1> HIDE DEF c
<1>12. AllLinked(c)
  BY <1>9, <1>10, FinishLeaves
<1>13. QED
  BY <1>1, <1>10, <1>11, <1>12, ScoresComplete DEF SameTables

LEMMA FailKeeps == ASSUME Inv, Fail PROVE Inv'
<1>1. phase # "idle" /\ db' = finish_run(tx, "FAILED", 0, NoCounts) /\ Close
  BY Zenon DEF Fail
<1>2. Good(tx) /\ Traces(tx) /\ Len(tx.runs) > 0
  BY <1>1, RunNotEmpty DEF Inv, OwnerInv
<1>3. NoCounts.new \in Nat /\ NoCounts.unchanged \in Nat
  BY DEF NoCounts
<1>4. Good(db') /\ Traces(db')
  BY <1>1, <1>2, <1>3, FinishFacts
<1>5. QED
  BY <1>1, <1>4, CloseKeeps

LEMMA InvNext == Inv /\ [Next]_vars => Inv'
<1> SUFFICES ASSUME Inv, [Next]_vars PROVE Inv'
  OBVIOUS
<1> USE DEF Inv
<1>0. Good(db) /\ Traces(db)
  OBVIOUS
<1>1. CASE UNCHANGED vars
  BY <1>1 DEF vars, run, OwnerInv, BatchInv
<1>2. ASSUME NEW p \in Process, Bootstrap(p) PROVE Inv'
  <2>1. db' = bootstrap(db) /\ UNCHANGED <<tx, owner, run>>
    BY <1>2 DEF Bootstrap
  <2>2. QED
    BY <1>0, <2>1, BootstrapFacts, WriteKeeps
<1>3. ASSUME NEW p \in Process, StartRun(p) \/ Busy(p) \/ StartScore(p) \/ StartOverride(p) PROVE Inv'
  <2>1. UNCHANGED <<db, tx, owner, run>>
    BY <1>3, Zenon DEF StartRun, Busy, StartScore, StartOverride
  <2>2. QED
    BY <2>1, WriteKeeps
<1>4. ASSUME NEW p \in Process, Acquire(p) PROVE Inv'
  BY <1>4, AcquireKeeps
<1>5. ASSUME NEW p \in Process, ScoreCommand(p) PROVE Inv'
  <2> DEFINE e == score_all(db, held[p].ids, held[p].signals)
             score == ScoreOf(db, held[p].id, held[p].row)
             f == [e EXCEPT !.queue[held[p].id] = score]
  <2>1. db' = f /\ UNCHANGED <<tx, owner, run>>
    BY <1>5 DEF ScoreCommand
  <2>2. Good(e) /\ Traces(e) /\ SameTables(db, e)
    BY <1>0, ScoresKeep
  <2> HIDE DEF e, score
  <2>3. f = [k \in Fields |-> f[k]] /\ SameTables(e, f)
    <3>1. PICK q : f = [e EXCEPT !.queue = q]
      OBVIOUS
    <3>2. e = [k \in Fields |-> e[k]]
      BY <2>2 DEF Good
    <3>3. QED
      BY <3>1, <3>2 DEF Fields, SameTables
  <2> HIDE DEF f
  <2>4. Good(f) /\ Traces(f) /\ f.runs = db.runs
    BY <2>2, <2>3, SameTablesGood DEF SameTables
  <2>5. QED
    BY <2>1, <2>4, WriteKeeps
<1>6. ASSUME NEW p \in Process, SetOverride(p) PROVE Inv'
  <2>1. db' = replace_overrides(db, {held[p]}) /\ UNCHANGED <<tx, owner, run>>
    BY <1>6 DEF SetOverride
  <2>2. QED
    BY <1>0, <2>1, OverridesFacts, WriteKeeps DEF SameTables
<1>7. CASE Fetch
  BY <1>7, FetchKeeps
<1>8. CASE MirrorRecord
  BY <1>8, MirrorRecordKeeps
<1>9. CASE Succeed
  BY <1>9, SucceedFacts, CloseKeeps DEF Succeed
<1>10. CASE WatchNia
  BY <1>10, WatchNiaFacts, CloseKeeps DEF WatchNia
<1>11. CASE Fail
  BY <1>11, FailKeeps
<1>12. CASE RollBack
  <2>1. Close /\ db' = db
    BY <1>12 DEF RollBack
  <2>2. QED
    BY <1>0, <2>1, CloseKeeps
<1>13. QED
  BY <1>1, <1>2, <1>3, <1>4, <1>5, <1>6, <1>7, <1>8, <1>9, <1>10, <1>11, <1>12 DEF Next

\* Whatever commands ran, in whatever order and however they ended, a row can
\* be traced to the payload it was made from, and a link is in the row exactly
\* while the row is OPEN_LINKED.
THEOREM Provenance == Spec => []RowsHaveProvenance
<1>1. Inv => RowsHaveProvenance
  BY DEF Inv, Traces, RowTraced, TracedIn, RowsHaveProvenance, Traced, DatasetIds, SignalIds
<1>2. QED
  BY <1>1, InvInit, InvNext, PTL DEF Spec

\* Only the ends of a run add a run.
LEMMA OnlyEndsAddRuns ==
    ASSUME Inv, [Next]_vars, Len(db'.runs) > Len(db.runs) PROVE Succeed \/ WatchNia \/ Fail
<1>1. Good(db) /\ Len(db.runs) \in Nat
  BY DEF Inv, Good
<1>2. db'.runs # db.runs
  BY <1>1
<1>3. ASSUME NEW p \in Process PROVE ~Bootstrap(p) /\ ~SetOverride(p) /\ ~ScoreCommand(p)
  <2>1. CASE Bootstrap(p)
    BY <1>1, <1>2, <2>1, BootstrapFacts DEF Bootstrap
  <2>2. CASE SetOverride(p)
    BY <1>1, <1>2, <2>2, OverridesFacts DEF SetOverride, SameTables
  <2>3. CASE ScoreCommand(p)
    <3> DEFINE e == score_all(db, held[p].ids, held[p].signals)
    <3>1. PICK q : db' = [e EXCEPT !.queue = q]
      BY <2>3 DEF ScoreCommand
    <3>2. e.runs = db.runs /\ e = [f \in Fields |-> e[f]]
      BY <1>1, ScoresKeep DEF SameTables, Good
    <3> HIDE DEF e
    <3>3. db'.runs = e.runs
      BY <3>1, <3>2 DEF Fields
    <3>4. QED
      BY <1>2, <3>2, <3>3
  <2>4. QED
    BY <2>1, <2>2, <2>3
<1>4. db' # db
  BY <1>2
<1>5. QED
  BY <1>3, <1>4, Zenon DEF Next, vars, StartRun, Acquire, Busy, StartScore, StartOverride, Fetch,
     MirrorRecord, RollBack

\* A run that succeeds leaves nothing to do: scores, ranks, links and
\* decisions are those of the committed rows.
THEOREM NothingLeft == Spec => SuccessIsComplete
<1> DEFINE last == db'.runs[Len(db'.runs)]
<1>1. ASSUME Inv, [Next]_vars, Len(db'.runs) > Len(db.runs), last.status = "SUCCESS"
      PROVE  /\ ScoredNow(db')
             /\ last.source \in Registry => Released(db') = {}
             /\ last.source \notin Registry => AllLinked(db')
  <2>1. CASE Succeed
    BY <1>1, <2>1, SucceedFacts
  <2>2. CASE WatchNia
    BY <1>1, <2>2, WatchNiaFacts DEF Registry
  <2>3. CASE Fail
    <3>1. phase # "idle" /\ db' = finish_run(tx, "FAILED", 0, NoCounts)
      BY <2>3, Zenon DEF Fail
    <3>2. Good(tx) /\ Len(tx.runs) > 0
      BY <1>1, <3>1, RunNotEmpty DEF Inv, OwnerInv
    <3>3. NoCounts.new \in Nat /\ NoCounts.unchanged \in Nat
      BY DEF NoCounts
    <3>4. last.status = "FAILED"
      BY <3>1, <3>2, <3>3, FinishFacts
    <3>5. QED
      BY <1>1, <3>4
  <2>4. QED
    BY <1>1, <2>1, <2>2, <2>3, OnlyEndsAddRuns
<1>2. Inv /\ [Next]_vars =>
        [Len(db'.runs) > Len(db.runs) /\ last.status = "SUCCESS" =>
          /\ last.source \in Registry => Released(db') = {}
          /\ last.source \notin Registry =>
                \A p \in Linkable(db') : db'.links[p] = LinkConfidence(db', p[1], p[2])
          /\ \A x \in DatasetIds(db') :
                /\ db'.queue[x] = ScoreOf(db', x, db'.rows[x])
                /\ db'.queue[x].decision =
                      DocumentedGate(db'.queue[x].seed, db'.rows[x].hash.rights, db'.rows[x].hash.cost)
          /\ \A s \in SignalIds(db') : db'.ranks[s] = score_signal(db'.signals[s])]_db
  BY <1>1, Zenon DEF ScoredNow, AllLinked
<1>3. QED
  BY <1>2, InvInit, InvNext, PTL DEF Spec, SuccessIsComplete

(***************************************************************************)
(* The other tables, the history the events of a dataset tell, and the     *)
(* overrides in force.                                                     *)
(***************************************************************************)
Tables(d) ==
    /\ d.events \in [Dataset -> Seq(Event)] /\ d.links \in [Signal \X Dataset -> 0..100]
    /\ d.overrides \in [Dataset \X SeedDimension -> Seq(OverrideRow)]
    /\ d.queue \in [Dataset -> Score \cup {None}]
    /\ d.ranks \in [Signal -> Recommendations \cup {None}]

\* The newest override of a dimension is the active one.
NewestActive(rows) == \A i \in DOMAIN rows : rows[i].active <=> \A j \in DOMAIN rows : j <= i

Newest(d) == \A key \in Dataset \X SeedDimension : NewestActive(d.overrides[key])

Explained(d) == \A x \in Dataset : Told(d.rows[x], d.events[x])

Full(d) == Good(d) /\ Tables(d) /\ Newest(d) /\ Explained(d)

StatusTypes   == {"PUBLIC_STATUS_CHANGED", "EXPECTED_TO_OPEN"}
ModifiedTypes == {"MODIFIED_AT_CHANGED"}

(***************************************************************************)
(* One more event.                                                         *)
(***************************************************************************)
LEMMA AppendFacts ==
    ASSUME NEW S, NEW s \in Seq(S), NEW e \in S
    PROVE  /\ Append(s, e) \in Seq(S) /\ Len(s) \in Nat /\ DOMAIN s = 1..Len(s)
           /\ DOMAIN Append(s, e) = 1..(Len(s) + 1)
           /\ \A k \in 1..Len(s) : Append(s, e)[k] = s[k]
           /\ Append(s, e)[Len(s) + 1] = e
  OBVIOUS

\* An event that starts where the history has led takes it one step further.
LEMMA FollowAppend ==
    ASSUME NEW S, NEW s \in Seq(S), NEW e \in S, NEW types, NEW c, Follow(s, types, c),
           e.type \in types => e.old = c,
           NEW c2, c2 = IF e.type \in types THEN e.new ELSE c
    PROVE  Follow(Append(s, e), types, c2)
<1> DEFINE n == Len(s)
           t == Append(s, e)
<1>1. /\ n \in Nat /\ DOMAIN s = 1..n /\ DOMAIN t = 1..(n + 1)
      /\ \A k \in 1..n : t[k] = s[k]
      /\ t[n + 1] = e
  BY AppendFacts
<1> HIDE DEF n, t
<1>2. n + 1 \in DOMAIN t /\ \A k \in DOMAIN t : k = n + 1 \/ k \in DOMAIN s
  BY <1>1
<1>3. \A k \in DOMAIN s : k \in DOMAIN t /\ t[k] = s[k] /\ n + 1 > k /\ ~(k > n + 1)
  BY <1>1
<1>4. \A k, j : k > j /\ k \in DOMAIN s => k \in DOMAIN t
  BY <1>3
<1>5. ASSUME NEW i \in DOMAIN t, t[i].type \in types
      PROVE  /\ (\A k \in DOMAIN t : k > i => t[k].type \notin types) => t[i].new = c2
             /\ \A j \in DOMAIN t :
                   /\ j > i /\ t[j].type \in types
                   /\ \A k \in DOMAIN t : k > i /\ k < j => t[k].type \notin types
                   => t[i].new = t[j].old
  <2>1. CASE i = n + 1
    <3>1. \A j \in DOMAIN t : ~(j > i)
      BY <1>1, <2>1
    <3>2. t[i].new = c2
      BY <1>1, <1>5, <2>1
    <3>3. QED
      BY <3>1, <3>2
  <2>2. CASE i \in DOMAIN s
    <3>1. /\ s[i].type \in types
          /\ (\A k \in DOMAIN s : k > i => s[k].type \notin types) => s[i].new = c
          /\ \A j \in DOMAIN s :
                /\ j > i /\ s[j].type \in types
                /\ \A k \in DOMAIN s : k > i /\ k < j => s[k].type \notin types
                => s[i].new = s[j].old
      BY <1>3, <1>5, <2>2 DEF Follow
    <3>2. ASSUME \A k \in DOMAIN t : k > i => t[k].type \notin types PROVE t[i].new = c2
      <4>1. e.type \notin types
        BY <1>1, <1>2, <1>3, <2>2, <3>2
      <4>2. \A k \in DOMAIN s : k > i => s[k].type \notin types
        BY <1>3, <3>2
      <4>3. QED
        BY <1>3, <2>2, <3>1, <4>1, <4>2
    <3>3. ASSUME NEW j \in DOMAIN t, j > i, t[j].type \in types,
                 \A k \in DOMAIN t : k > i /\ k < j => t[k].type \notin types
          PROVE  t[i].new = t[j].old
      <4>1. CASE j = n + 1
        <5>1. e.type \in types /\ t[j].old = c
          BY <1>1, <3>3, <4>1
        <5>2. \A k \in DOMAIN s : k > i => s[k].type \notin types
          BY <1>3, <3>3, <4>1
        <5>3. QED
          BY <1>3, <2>2, <3>1, <5>1, <5>2
      <4>2. CASE j \in DOMAIN s
        <5>1. \A k \in DOMAIN s : k > i /\ k < j => s[k].type \notin types
          BY <1>3, <3>3
        <5>2. QED
          BY <1>3, <2>2, <3>1, <3>3, <4>2, <5>1
      <4>3. QED
        BY <1>2, <4>1, <4>2
    <3>4. QED
      BY <3>2, <3>3
  <2>3. QED
    BY <1>2, <2>1, <2>2
<1>6. QED
  BY <1>5 DEF Follow, t

\* What a row and its events say of each other, in parts.
Shown(events, status, modified) ==
    /\ events # <<>> /\ \A i \in DOMAIN events : events[i].type = "NEW_DATASET" <=> i = 1
    /\ Follow(events, StatusTypes, status) /\ Follow(events, ModifiedTypes, modified)

LEMMA ToldIsShown ==
    ASSUME NEW row, row # None, NEW events
    PROVE  Told(row, events) <=>
              /\ Shown(events, row.status, row.hash.modified)
              /\ row.status = "OPEN_LINKED" =>
                    \E i \in DOMAIN events : events[i].type = "EXPECTED_TO_OPEN"
  BY Zenon DEF Told, Shown, StatusTypes, ModifiedTypes

LEMMA ShownAppend ==
    ASSUME NEW s \in Seq(Event), NEW e \in Event, NEW status, NEW modified,
           Shown(s, status, modified), e.type # "NEW_DATASET",
           e.type \in StatusTypes => e.old = status, e.type \in ModifiedTypes => e.old = modified,
           NEW status2, status2 = IF e.type \in StatusTypes THEN e.new ELSE status,
           NEW modified2, modified2 = IF e.type \in ModifiedTypes THEN e.new ELSE modified
    PROVE  Append(s, e) \in Seq(Event) /\ Shown(Append(s, e), status2, modified2)
<1> DEFINE E == Event
<1>1. s \in Seq(E) /\ e \in E
  OBVIOUS
<1> HIDE DEF E
<1>2. /\ Append(s, e) \in Seq(E) /\ Len(s) \in Nat /\ DOMAIN s = 1..Len(s)
      /\ DOMAIN Append(s, e) = 1..(Len(s) + 1)
      /\ \A k \in 1..Len(s) : Append(s, e)[k] = s[k]
      /\ Append(s, e)[Len(s) + 1] = e
  BY <1>1, AppendFacts
<1>3. Follow(Append(s, e), StatusTypes, status2) /\ Follow(Append(s, e), ModifiedTypes, modified2)
  BY <1>1, FollowAppend DEF Shown
<1>4. Len(s) # 0
  <2>1. s # <<>>
    BY DEF Shown
  <2>2. QED
    BY <1>1, <2>1
<1> DEFINE n == Len(s)
           t == Append(s, e)
<1>5. \A i \in DOMAIN t : t[i].type = "NEW_DATASET" <=> i = 1
  <2>1. \A i \in 1..n : s[i].type = "NEW_DATASET" <=> i = 1
    BY <1>2 DEF Shown
  <2>2. n \in Nat /\ n # 0 /\ DOMAIN t = 1..(n + 1) /\ (\A k \in 1..n : t[k] = s[k]) /\ t[n + 1] = e
    BY <1>2, <1>4
  <2> HIDE DEF n, t
  <2>3. \A i \in DOMAIN t : i = n + 1 \/ i \in 1..n
    BY <2>2
  <2>4. n + 1 # 1
    BY <2>2
  <2>5. QED
    BY <2>1, <2>2, <2>3, <2>4
<1>6. t # <<>>
  BY <1>2, <1>4
<1>7. QED
  BY <1>2, <1>3, <1>5, <1>6 DEF Shown, E

\* The diff of a field, written only when it changed.
LEMMA ShownChanged ==
    ASSUME NEW s \in Seq(Event), NEW status, NEW modified, Shown(s, status, modified),
           NEW type \in {"PUBLIC_STATUS_CHANGED", "MODIFIED_AT_CHANGED"},
           NEW old \in Status \cup STRING, NEW new \in Status \cup STRING, NEW r \in Nat \cup {None},
           type \in StatusTypes => old = status, type \in ModifiedTypes => old = modified,
           NEW status2, status2 = IF type \in StatusTypes THEN new ELSE status,
           NEW modified2, modified2 = IF type \in ModifiedTypes THEN new ELSE modified
    PROVE  /\ s \o Changed(type, old, new, r) \in Seq(Event)
           /\ Shown(s \o Changed(type, old, new, r), status2, modified2)
           /\ \A i \in DOMAIN s : /\ i \in DOMAIN (s \o Changed(type, old, new, r))
                                  /\ (s \o Changed(type, old, new, r))[i] = s[i]
<1> DEFINE E == Event
<1>1. s \in Seq(E)
  OBVIOUS
<1>2. CASE old = new
  <2>1. Changed(type, old, new, r) = <<>>
    BY <1>2 DEF Changed
  <2>2. status2 = status /\ modified2 = modified
    BY <1>2
  <2> HIDE DEF E
  <2>3. s \o <<>> = s
    BY <1>1
  <2>4. QED
    BY <2>1, <2>2, <2>3
<1>3. CASE old # new
  <2> DEFINE e == [type |-> type, old |-> old, new |-> new, run |-> r]
  <2>1. Changed(type, old, new, r) = <<e>>
    BY <1>3 DEF Changed
  <2>2. e \in Event /\ e.type = type /\ e.old = old /\ e.new = new
    BY DEF Event
  <2> HIDE DEF e, E
  <2>3. s \o <<e>> = Append(s, e) /\ e \in E
    BY <1>1, <2>2 DEF E
  <2>4. Append(s, e) \in Seq(Event) /\ Shown(Append(s, e), status2, modified2)
    BY <2>2, ShownAppend
  <2>5. \A i \in DOMAIN s : i \in DOMAIN Append(s, e) /\ Append(s, e)[i] = s[i]
    BY <1>1, <2>3, AppendFacts
  <2>6. QED
    BY <2>1, <2>3, <2>4, <2>5
<1>4. QED
  BY <1>2, <1>3

\* A mirrored record: what is written to the history is what became of the row.
LEMMA MirrorTold ==
    ASSUME NEW existing \in Row \cup {None}, NEW s \in Seq(Event), Told(existing, s),
           NEW record \in Record, NEW raw \in Nat, NEW r \in Nat \cup {None}
    PROVE  /\ s \o MirrorEvents(existing, record, r) \in Seq(Event)
           /\ Told(MirroredRow(existing, record, raw), s \o MirrorEvents(existing, record, r))
<1> DEFINE E == Event
           row == MirroredRow(existing, record, raw)
           s2 == s \o MirrorEvents(existing, record, r)
<1>1. row \in Row /\ row.hash = record /\ row # None
  BY MirroredRowFacts, NoneFacts
<1>2. record.status \in {"PLANNED", "OPEN"} /\ record.status \in Status /\ record.modified \in STRING
  BY DEF Record, Status
<1>3. CASE existing = None
  <2> DEFINE e == [type |-> "NEW_DATASET", old |-> None, new |-> None, run |-> r]
  <2>1. MirrorEvents(existing, record, r) = <<e>> /\ s = <<>>
    BY <1>3 DEF MirrorEvents, Told
  <2>2. e \in Event /\ e.type = "NEW_DATASET"
    BY DEF Event
  <2> HIDE DEF e, E
  <2>3. s2 = <<e>> /\ <<e>> \in Seq(E) /\ DOMAIN <<e>> = {1} /\ <<e>>[1] = e
    <3>1. <<>> \o <<e>> = <<e>> /\ e \in E
      BY <2>2 DEF E
    <3>2. QED
      BY <2>1, <3>1
  <2>4. Shown(<<e>>, row.status, row.hash.modified)
    <3>1. \A i \in DOMAIN <<e>> : <<e>>[i].type = "NEW_DATASET"
      BY <2>2, <2>3
    <3>2. <<e>> # <<>>
      BY <2>3
    <3> DEFINE t == <<e>>
    <3>3. t # <<>> /\ DOMAIN t = {1} /\ \A i \in DOMAIN t : t[i].type = "NEW_DATASET"
      BY <2>3, <3>1, <3>2
    <3> HIDE DEF t, row
    <3>4. QED
      BY <3>3 DEF Shown, Follow, StatusTypes, ModifiedTypes, t
  <2>5. row.status # "OPEN_LINKED"
    BY <1>2, <1>3 DEF MirroredRow
  <2> HIDE DEF row, s2
  <2>6. Told(row, <<e>>)
    BY <1>1, <2>4, <2>5, ToldIsShown
  <2>7. QED
    BY <2>3, <2>6 DEF row, s2, E
<1>4. CASE existing # None /\ existing.hash = record
  <2>1. MirrorEvents(existing, record, r) = <<>> /\ row = [existing EXCEPT !.raw = raw]
    BY <1>4 DEF MirrorEvents, MirroredRow
  <2>2. existing \in Row
    BY <1>4
  <2>3. row.status = existing.status /\ row.hash = existing.hash
    BY <2>1, <2>2 DEF Row
  <2>4. s2 = s
    <3> HIDE DEF E
    <3>1. s \in Seq(E) => s \o <<>> = s
      OBVIOUS
    <3>2. QED
      BY <2>1, <3>1 DEF E
  <2> HIDE DEF row, s2
  <2>5. Told(row, s)
    BY <1>1, <1>4, <2>3, ToldIsShown
  <2>6. QED
    BY <2>4, <2>5 DEF row, s2
<1>5. CASE existing # None /\ existing.hash # record
  <2> DEFINE c1 == Changed("PUBLIC_STATUS_CHANGED", existing.status, record.status, r)
             c2 == Changed("MODIFIED_AT_CHANGED", existing.hash.modified, record.modified, r)
  <2>1. MirrorEvents(existing, record, r) = c1 \o c2
    BY <1>5 DEF MirrorEvents, Diff
  <2>2. /\ existing.status \in Status /\ existing.hash \in Record /\ existing.hash.modified \in STRING
    BY <1>5 DEF Row, Record
  <2>3. row.status = record.status /\ row.status # "OPEN_LINKED"
    BY <1>2, <1>5 DEF MirroredRow
  <2>4. Shown(s, existing.status, existing.hash.modified)
    BY <1>5, ToldIsShown
  <2>5. s \o c1 \in Seq(Event) /\ Shown(s \o c1, record.status, existing.hash.modified)
    <3>1. "PUBLIC_STATUS_CHANGED" \in StatusTypes /\ "PUBLIC_STATUS_CHANGED" \notin ModifiedTypes
      BY DEF StatusTypes, ModifiedTypes
    <3>2. QED
      BY <1>2, <2>2, <2>4, <3>1, ShownChanged
  <2> HIDE DEF c1
  <2>6. (s \o c1) \o c2 \in Seq(Event) /\ Shown((s \o c1) \o c2, record.status, record.modified)
    <3>1. "MODIFIED_AT_CHANGED" \in ModifiedTypes /\ "MODIFIED_AT_CHANGED" \notin StatusTypes
      BY DEF StatusTypes, ModifiedTypes
    <3> DEFINE t == s \o c1
    <3>2. t \in Seq(Event) /\ Shown(t, record.status, existing.hash.modified)
      BY <2>5
    <3> HIDE DEF t
    <3>3. t \o c2 \in Seq(Event) /\ Shown(t \o c2, record.status, record.modified)
      BY <1>2, <2>2, <3>1, <3>2, ShownChanged
    <3>4. QED
      BY <3>3 DEF t
  <2>7. s2 = (s \o c1) \o c2
    <3>1. c1 \in Seq(E) /\ c2 \in Seq(E)
      <4>1. \A type \in {"PUBLIC_STATUS_CHANGED", "MODIFIED_AT_CHANGED"},
               old \in Status \cup STRING, new \in Status \cup STRING :
               [type |-> type, old |-> old, new |-> new, run |-> r] \in E
        BY DEF Event
      <4> HIDE DEF E
      <4>2. \A e \in E : <<e>> \in Seq(E)
        OBVIOUS
      <4>3. <<>> \in Seq(E)
        OBVIOUS
      <4>4. QED
        BY <1>2, <2>2, <4>1, <4>2, <4>3 DEF c1, Changed
    <3> HIDE DEF E, c2
    <3>2. s \in Seq(E)
      BY DEF E
    <3>3. s \o (c1 \o c2) = (s \o c1) \o c2
      BY <3>1, <3>2
    <3>4. QED
      BY <2>1, <3>3 DEF c2
  <2> HIDE DEF row, s2, c2
  <2>8. Told(row, (s \o c1) \o c2)
    BY <1>1, <2>3, <2>6, ToldIsShown
  <2>9. QED
    BY <2>6, <2>7, <2>8 DEF row, s2
<1>6. QED
  BY <1>3, <1>4, <1>5

\* A link: EXPECTED_TO_OPEN leads from the planned row to the linked one.
LEMMA LinkTold ==
    ASSUME NEW row \in Row, row.status = "PLANNED", NEW s \in Seq(Event), Told(row, s),
           NEW row2 \in Row, row2.status = "OPEN_LINKED", row2.hash = row.hash,
           NEW e, e = [type |-> "EXPECTED_TO_OPEN", old |-> "PLANNED", new |-> "OPEN_LINKED",
                       run |-> None]
    PROVE  Append(s, e) \in Seq(Event) /\ Told(row2, Append(s, e))
<1>1. row # None /\ row2 # None
  BY NoneFacts
<1>2. /\ e \in Event /\ e.type = "EXPECTED_TO_OPEN" /\ e.old = "PLANNED" /\ e.new = "OPEN_LINKED"
      /\ e.type \in StatusTypes /\ e.type \notin ModifiedTypes
  BY DEF Event, Status, StatusTypes, ModifiedTypes
<1>3. Shown(s, row.status, row.hash.modified)
  BY <1>1, ToldIsShown
<1>4. Append(s, e) \in Seq(Event) /\ Shown(Append(s, e), "OPEN_LINKED", row.hash.modified)
  BY <1>2, <1>3, ShownAppend
<1>5. \E i \in DOMAIN Append(s, e) : Append(s, e)[i].type = "EXPECTED_TO_OPEN"
  <2> DEFINE E == Event
  <2>1. s \in Seq(E) /\ e \in E
    BY <1>2
  <2> HIDE DEF E
  <2>2. Len(s) + 1 \in DOMAIN Append(s, e) /\ Append(s, e)[Len(s) + 1] = e
    BY <2>1
  <2>3. QED
    BY <1>2, <2>2
<1>6. QED
  BY <1>1, <1>4, <1>5, ToldIsShown

(***************************************************************************)
(* The steps of a command, once more, on all tables.                       *)
(***************************************************************************)
SameRest(d, e) == /\ e.links = d.links /\ e.overrides = d.overrides /\ e.queue = d.queue
                  /\ e.ranks = d.ranks

\* What is known of datasets and notices is not forgotten.
Grows(d, e) == DatasetIds(d) \subseteq DatasetIds(e) /\ SignalIds(d) \subseteq SignalIds(e)

LEMMA GrowsFurther ==
    ASSUME NEW d, NEW e, NEW f, Grows(d, e), Grows(e, f) PROVE Grows(d, f)
  BY DEF Grows

LEMMA HistoryFull ==
    ASSUME NEW d, Full(d), NEW e, Good(e), SameRest(d, e), e.events \in [Dataset -> Seq(Event)],
           \A x \in Dataset : Told(e.rows[x], e.events[x])
    PROVE  Full(e)
  BY Zenon DEF Full, Tables, Newest, Explained, SameRest

LEMMA MirroredFull ==
    ASSUME NEW d, Full(d), NEW entry \in [id : Dataset, record : Record], NEW raw \in Nat,
           NEW r \in Nat \cup {None}
    PROVE  Full(mirrored(d, entry, raw, r)) /\ Grows(d, mirrored(d, entry, raw, r))
<1> DEFINE e == mirrored(d, entry, raw, r)
           rows == [d.rows EXCEPT ![entry.id] = MirroredRow(@, entry.record, raw)]
           events == [d.events EXCEPT ![entry.id] =
                        @ \o MirrorEvents(d.rows[entry.id], entry.record, r)]
<1>1. entry.id \in Dataset /\ entry.record \in Record
  OBVIOUS
<1>2. /\ Good(e) /\ e.signals = d.signals
      /\ \A x \in Dataset : e.rows[x] =
            IF x = entry.id THEN MirroredRow(d.rows[x], entry.record, raw) ELSE d.rows[x]
  BY MirroredFacts DEF Full
<1>3. d = [f \in Fields |-> d[f]] /\ d.events \in [Dataset -> Seq(Event)]
      /\ d.rows \in [Dataset -> Row \cup {None}]
  BY DEF Full, Good, Tables
<1>4. e.events = events /\ SameRest(d, e)
  <2>1. e = [d EXCEPT !.rows = rows, !.events = events]
    BY DEF mirrored
  <2> HIDE DEF rows, events, e
  <2>2. QED
    BY <1>3, <2>1 DEF Fields, SameRest
<1>5. ASSUME NEW x \in Dataset
      PROVE  events[x] \in Seq(Event) /\ Told(e.rows[x], events[x]) /\ (d.rows[x] # None => e.rows[x] # None)
  <2>1. d.rows[x] \in Row \cup {None} /\ d.events[x] \in Seq(Event) /\ Told(d.rows[x], d.events[x])
    BY <1>3 DEF Full, Explained
  <2>2. CASE x = entry.id
    <3>1. /\ e.rows[x] = MirroredRow(d.rows[x], entry.record, raw)
          /\ events[x] = d.events[x] \o MirrorEvents(d.rows[x], entry.record, r)
      BY <1>2, <1>3, <2>2
    <3>2. MirroredRow(d.rows[x], entry.record, raw) \in Row
      BY <1>1, <2>1, MirroredRowFacts
    <3> HIDE DEF e, events
    <3>3. QED
      BY <1>1, <2>1, <3>1, <3>2, MirrorTold, NoneFacts
  <2>3. CASE x # entry.id
    BY <1>2, <1>3, <2>1, <2>3
  <2>4. QED
    BY <2>2, <2>3
<1>6. events \in [Dataset -> Seq(Event)]
  <2>1. events = [x \in Dataset |-> events[x]]
    BY <1>3
  <2> HIDE DEF events
  <2>2. QED
    BY <1>5, <2>1
<1> HIDE DEF e, events
<1>7. Full(e)
  BY <1>2, <1>4, <1>5, <1>6, HistoryFull
<1>8. Grows(d, e)
  BY <1>2, <1>5 DEF Grows, DatasetIds, SignalIds
<1>9. QED
  BY <1>7, <1>8 DEF e

LEMMA ReconcileFull ==
    ASSUME NEW d, Full(d)
    PROVE  Full(reconcile_planned_to_open(d)) /\ Grows(d, reconcile_planned_to_open(d))
<1> DEFINE e == reconcile_planned_to_open(d)
           event == [type |-> "EXPECTED_TO_OPEN", old |-> "PLANNED", new |-> "OPEN_LINKED", run |-> None]
           events == [x \in Dataset |-> IF x \in Released(d) THEN Append(d.events[x], event)
                                        ELSE d.events[x]]
           rows == [x \in Dataset |->
                      IF x \in Released(d)
                      THEN [d.rows[x] EXCEPT !.status = "OPEN_LINKED", !.link = Release(d, x)]
                      ELSE d.rows[x]]
<1>1. Good(e) /\ e.signals = d.signals /\ e.rows = rows
  BY ReconcileFacts DEF Full
<1>2. /\ d = [f \in Fields |-> d[f]] /\ d.events \in [Dataset -> Seq(Event)]
      /\ d.rows \in [Dataset -> Row \cup {None}]
  BY DEF Full, Good, Tables
<1>3. e.events = events /\ SameRest(d, e)
  <2>1. e = [d EXCEPT !.rows = rows, !.events = events]
    BY DEF reconcile_planned_to_open
  <2> HIDE DEF rows, events, e
  <2>2. QED
    BY <1>2, <2>1 DEF Fields, SameRest
<1>4. e.rows \in [Dataset -> Row \cup {None}]
  BY <1>1 DEF Good
<1>5. ASSUME NEW x \in Dataset
      PROVE  events[x] \in Seq(Event) /\ Told(e.rows[x], events[x]) /\ (d.rows[x] # None => e.rows[x] # None)
  <2>1. /\ d.rows[x] \in Row \cup {None} /\ d.events[x] \in Seq(Event) /\ Told(d.rows[x], d.events[x])
        /\ e.rows[x] \in Row \cup {None}
    BY <1>2, <1>4 DEF Full, Explained
  <2>2. CASE x \in Released(d)
    <3>1. d.rows[x] \in Row /\ d.rows[x].status = "PLANNED"
      BY <2>1, <2>2 DEF Released
    <3>2. e.rows[x] = [d.rows[x] EXCEPT !.status = "OPEN_LINKED", !.link = Release(d, x)]
      BY <1>1, <2>2
    <3>3. events[x] = Append(d.events[x], event)
      BY <2>2
    <3>4. e.rows[x].status = "OPEN_LINKED" /\ e.rows[x].hash = d.rows[x].hash
      BY <3>1, <3>2 DEF Row
    <3>5. e.rows[x] \in Row /\ e.rows[x] # None
      <4>1. Release(d, x) \in Dataset
        BY <2>2, ReleaseType DEF Full
      <4>2. e.rows[x] \in Row
        BY <3>1, <3>2, <4>1 DEF Row, Status
      <4>3. QED
        BY <4>2, NoneFacts
    <3> HIDE DEF e, events
    <3>6. QED
      BY <2>1, <3>1, <3>3, <3>4, <3>5, LinkTold DEF event
  <2>3. CASE x \notin Released(d)
    BY <1>1, <2>1, <2>3
  <2>4. QED
    BY <2>2, <2>3
<1>6. events \in [Dataset -> Seq(Event)]
  <2>1. events = [x \in Dataset |-> events[x]]
    OBVIOUS
  <2> HIDE DEF events
  <2>2. QED
    BY <1>5, <2>1
<1> HIDE DEF e, events
<1>7. Full(e)
  BY <1>1, <1>3, <1>5, <1>6, HistoryFull
<1>8. Grows(d, e)
  BY <1>1, <1>5 DEF Grows, DatasetIds, SignalIds
<1>9. QED
  BY <1>7, <1>8 DEF e

LEMMA FinishFull ==
    ASSUME NEW d, Full(d), Len(d.runs) > 0, NEW status \in {"SUCCESS", "FAILED"},
           NEW received \in Nat, NEW counted, counted.new \in Nat, counted.unchanged \in Nat
    PROVE  /\ Full(finish_run(d, status, received, counted))
           /\ Grows(d, finish_run(d, status, received, counted))
<1> DEFINE e == finish_run(d, status, received, counted)
<1>1. Good(e) /\ e.rows = d.rows /\ e.signals = d.signals
  BY FinishFacts DEF Full
<1>2. PICK v : e = [d EXCEPT !.runs = v]
  BY DEF finish_run
<1>3. d = [f \in Fields |-> d[f]]
  BY DEF Full, Good
<1> HIDE DEF e
<1>4. e.events = d.events /\ SameRest(d, e)
  BY <1>2, <1>3 DEF Fields, SameRest
<1>5. Full(e)
  BY <1>1, <1>4, HistoryFull DEF Full, Tables, Explained
<1>6. Grows(d, e)
  BY <1>1 DEF Grows, DatasetIds, SignalIds
<1>7. QED
  BY <1>5, <1>6 DEF e

LEMMA RecordFound ==
    ASSUME NEW b, Distinct(b), NEW x, NEW i \in DOMAIN b, b[i].id = x
    PROVE  (CHOOSE e \in {b[j] : j \in DOMAIN b} : e.id = x).record = b[i].record
<1>1. (CHOOSE e \in {b[j] : j \in DOMAIN b} : e.id = b[i].id) = b[i]
  BY FoundById
<1>2. QED
  BY <1>1

Noticed(notices, s)  == \E i \in DOMAIN notices : notices[i].id = s
NoticeOf(notices, s) == (CHOOSE n \in {notices[i] : i \in DOMAIN notices} : n.id = s).record

LEMMA UpsertFull ==
    ASSUME NEW d, Full(d), NEW notices \in NoticeBatch, Distinct(notices)
    PROVE  LET e == upsert_signals(d, notices)
           IN /\ Full(e) /\ Grows(d, e) /\ e.rows = d.rows /\ e.events = d.events /\ e.runs = d.runs
              /\ SameRest(d, e)
              /\ \A s \in Signal :
                    IF Noticed(notices, s)
                    THEN e.signals[s] # None /\ e.signals[s].hash = NoticeOf(notices, s)
                    ELSE e.signals[s] = d.signals[s]
<1> DEFINE signals == [s \in Signal |->
                         IF Noticed(notices, s)
                         THEN [hash |-> NoticeOf(notices, s), raw |-> Len(d.raws) + 1]
                         ELSE d.signals[s]]
           raws == Append(d.raws, notices)
           e == upsert_signals(d, notices)
<1>1. e = [d EXCEPT !.raws = raws, !.signals = signals]
  BY DEF upsert_signals, Noticed, NoticeOf
<1>2. Good(e) /\ e.rows = d.rows /\ e.runs = d.runs
  BY UpsertFacts DEF Full
<1>3. d = [f \in Fields |-> d[f]]
  BY DEF Full, Good
<1>4. \A s \in Signal : signals[s] =
         IF Noticed(notices, s) THEN [hash |-> NoticeOf(notices, s), raw |-> Len(d.raws) + 1]
         ELSE d.signals[s]
  OBVIOUS
<1> HIDE DEF e, raws, signals
<1>5. e.events = d.events /\ SameRest(d, e) /\ e.signals = signals
  BY <1>1, <1>3 DEF Fields, SameRest
<1>6. Full(e)
  BY <1>2, <1>5, HistoryFull DEF Full, Tables, Explained
<1>7. ASSUME NEW s \in Signal, Noticed(notices, s)
      PROVE  e.signals[s] # None /\ e.signals[s].hash = NoticeOf(notices, s)
  <2>1. e.signals[s] = [hash |-> NoticeOf(notices, s), raw |-> Len(d.raws) + 1]
    BY <1>4, <1>5, <1>7
  <2>2. e.signals[s] \in SignalRow
    <3>1. PICK i \in DOMAIN notices : notices[i].id = s
      BY <1>7 DEF Noticed
    <3>2. NoticeOf(notices, s) = notices[i].record
      BY <3>1, RecordFound DEF NoticeOf
    <3>3. notices[i].record \in NoticeRecord
      BY <3>1, EntryFacts
    <3>4. Len(d.raws) + 1 \in Nat
      <4> DEFINE S == Batch \cup NoticeBatch
      <4>1. d.raws \in Seq(S)
        BY DEF Full, Good
      <4> HIDE DEF S
      <4>2. QED
        BY <4>1
    <3>5. QED
      BY <2>1, <3>2, <3>3, <3>4 DEF SignalRow
  <2>3. QED
    BY <2>1, <2>2, NoneFacts
<1>8. \A s \in Signal : ~Noticed(notices, s) => e.signals[s] = d.signals[s]
  BY <1>4, <1>5
<1>9. Grows(d, e)
  <2>1. \A s \in Signal : d.signals[s] # None => e.signals[s] # None
    BY <1>7, <1>8
  <2>2. QED
    BY <1>2, <2>1 DEF Grows, DatasetIds, SignalIds
<1>10. QED
  BY <1>2, <1>5, <1>6, <1>7, <1>8, <1>9 DEF e

Seeded(x)     == \E i \in DOMAIN SeedRows : SeedRows[i].id = x
SeedRecord(x) == (CHOOSE e \in {SeedRows[i] : i \in DOMAIN SeedRows} : e.id = x).record

LEMMA SeedRecordType == ASSUME NEW x, Seeded(x) PROVE SeedRecord(x) \in Record
<1>1. SeedRows \in Batch /\ Distinct(SeedRows)
  BY CatalogAssumption
<1>2. PICK i \in DOMAIN SeedRows : SeedRows[i].id = x
  BY DEF Seeded
<1>3. SeedRows[i].record \in Record
  BY <1>1, <1>2, EntryFacts
<1>4. SeedRecord(x) = SeedRows[i].record
  BY <1>1, <1>2, RecordFound DEF SeedRecord
<1>5. QED
  BY <1>3, <1>4

LEMMA SeedFull ==
    ASSUME NEW d, Full(d)
    PROVE  LET e == SeedMirrored(d)
           IN /\ Full(e) /\ Grows(d, e) /\ e.signals = d.signals /\ e.runs = d.runs /\ SameRest(d, e)
              /\ Len(d.raws) + 1 \in Nat
              /\ \A x \in Dataset :
                    /\ e.rows[x] = IF Seeded(x) THEN MirroredRow(d.rows[x], SeedRecord(x), Len(d.raws) + 1)
                                   ELSE d.rows[x]
                    /\ e.events[x] =
                          IF Seeded(x) THEN d.events[x] \o MirrorEvents(d.rows[x], SeedRecord(x), None)
                          ELSE d.events[x]
<1> DEFINE e == SeedMirrored(d)
           raw == Len(d.raws) + 1
           raws == Append(d.raws, SeedRows)
           rows == [x \in Dataset |-> IF Seeded(x) THEN MirroredRow(d.rows[x], SeedRecord(x), raw)
                                      ELSE d.rows[x]]
           events == [x \in Dataset |->
                        IF Seeded(x) THEN d.events[x] \o MirrorEvents(d.rows[x], SeedRecord(x), None)
                        ELSE d.events[x]]
<1>1. e = [d EXCEPT !.raws = raws, !.rows = rows, !.events = events]
  BY DEF SeedMirrored, Seeded, SeedRecord
<1>2. Good(e) /\ e.runs = d.runs
  BY SeedFacts DEF Full
<1>3. d = [f \in Fields |-> d[f]]
  BY DEF Full, Good
<1>4. raw \in Nat
  <2> DEFINE S == Batch \cup NoticeBatch
  <2>1. d.raws \in Seq(S)
    BY DEF Full, Good
  <2> HIDE DEF S
  <2>2. QED
    BY <2>1
<1>5. \A x \in Dataset :
         /\ rows[x] = IF Seeded(x) THEN MirroredRow(d.rows[x], SeedRecord(x), raw) ELSE d.rows[x]
         /\ events[x] = IF Seeded(x) THEN d.events[x] \o MirrorEvents(d.rows[x], SeedRecord(x), None)
                        ELSE d.events[x]
  OBVIOUS
<1>6. events = [x \in Dataset |-> events[x]]
  OBVIOUS
<1> HIDE DEF e, raw, raws, rows, events
<1>7. e.rows = rows /\ e.events = events /\ e.signals = d.signals /\ SameRest(d, e)
  BY <1>1, <1>3 DEF Fields, SameRest
<1>8. ASSUME NEW x \in Dataset
      PROVE  /\ events[x] \in Seq(Event) /\ Told(rows[x], events[x])
             /\ d.rows[x] # None => rows[x] # None
  <2>1. d.rows[x] \in Row \cup {None} /\ d.events[x] \in Seq(Event) /\ Told(d.rows[x], d.events[x])
    BY DEF Full, Good, Tables, Explained
  <2>2. CASE Seeded(x)
    <3>1. SeedRecord(x) \in Record
      BY <2>2, SeedRecordType
    <3>2. MirroredRow(d.rows[x], SeedRecord(x), raw) \in Row
      BY <1>4, <2>1, <3>1, MirroredRowFacts
    <3>3. None \in Nat \cup {None}
      OBVIOUS
    <3>4. QED
      BY <1>4, <1>5, <2>1, <2>2, <3>1, <3>2, <3>3, MirrorTold, NoneFacts
  <2>3. CASE ~Seeded(x)
    BY <1>5, <2>1, <2>3
  <2>4. QED
    BY <2>2, <2>3
<1>9. events \in [Dataset -> Seq(Event)]
  BY <1>6, <1>8
<1>10. Full(e)
  BY <1>2, <1>7, <1>8, <1>9, HistoryFull
<1>11. Grows(d, e)
  BY <1>7, <1>8 DEF Grows, DatasetIds, SignalIds
<1>12. QED
  BY <1>2, <1>4, <1>5, <1>7, <1>10, <1>11 DEF e, raw

(***************************************************************************)
(* Overrides.                                                              *)
(***************************************************************************)
LEMMA ReplacedFacts ==
    ASSUME NEW rows \in Seq(OverrideRow), NEW o \in Override
    PROVE  /\ Replaced(rows, o) \in Seq(OverrideRow) /\ NewestActive(Replaced(rows, o))
           /\ Replaced(rows, o) # <<>> /\ Replaced(rows, o)[Len(Replaced(rows, o))].of = o
<1> DEFINE R == OverrideRow
           n == Len(rows)
           past == [i \in DOMAIN rows |-> [rows[i] EXCEPT !.active = FALSE]]
           new == [of |-> o, active |-> TRUE]
           all == Append(past, new)
<1>1. new \in OverrideRow /\ new.of = o /\ new.active = TRUE
  BY DEF OverrideRow
<1>2. n \in Nat /\ DOMAIN rows = 1..n /\ \A i \in 1..n : rows[i] \in OverrideRow
  <2>1. rows \in Seq(R)
    OBVIOUS
  <2>2. R = OverrideRow
    OBVIOUS
  <2> HIDE DEF R
  <2>3. n \in Nat /\ DOMAIN rows = 1..n /\ \A i \in 1..n : rows[i] \in R
    BY <2>1
  <2>4. QED
    BY <2>2, <2>3
<1>3. \A i \in 1..n : past[i] \in OverrideRow /\ past[i].active = FALSE
  BY <1>2 DEF OverrideRow
<1>4. past = [i \in 1..n |-> past[i]]
  BY <1>2
<1>5. past \in Seq(OverrideRow) /\ Len(past) = n
  <2>1. \A i \in 1..n : past[i] \in R
    BY <1>3
  <2>2. R = OverrideRow
    OBVIOUS
  <2> HIDE DEF past, R, n
  <2>3. past \in Seq(R) /\ Len(past) = n
    BY <1>2, <1>4, <2>1
  <2>4. QED
    BY <2>2, <2>3
<1>6. R = OverrideRow /\ Replaced(rows, o) = all
  BY DEF Replaced
<1> HIDE DEF past, new, R, n
<1>7. /\ all \in Seq(R) /\ DOMAIN all = 1..(n + 1) /\ Len(all) = n + 1
      /\ \A i \in 1..n : all[i] = past[i]
      /\ all[n + 1] = new
  BY <1>1, <1>2, <1>5, <1>6
<1> HIDE DEF all
<1>8. NewestActive(all)
  <2> SUFFICES ASSUME NEW i \in 1..(n + 1)
               PROVE  all[i].active <=> \A j \in 1..(n + 1) : j <= i
    BY <1>7 DEF NewestActive
  <2>1. CASE i = n + 1
    <3>1. \A j \in 1..(n + 1) : j <= i
      BY <1>2, <2>1
    <3>2. QED
      BY <1>1, <1>7, <2>1, <3>1
  <2>2. CASE i # n + 1
    <3>1. i \in 1..n /\ n + 1 \in 1..(n + 1) /\ ~(n + 1 <= i)
      BY <1>2, <2>2
    <3>2. all[i].active = FALSE
      BY <1>3, <1>7, <3>1
    <3>3. QED
      BY <3>1, <3>2
  <2>3. QED
    BY <2>1, <2>2
<1>9. all # <<>> /\ all[Len(all)].of = o
  <2>1. n + 1 \in DOMAIN all
    BY <1>2, <1>7
  <2>2. all # <<>>
    BY <2>1
  <2>3. QED
    BY <1>1, <1>7, <2>2
<1>10. QED
  BY <1>6, <1>7, <1>8, <1>9

\* What is in force is the newest override of the dimension.
LEMMA InForceLast ==
    ASSUME NEW d, Full(d), NEW key \in Dataset \X SeedDimension
    PROVE  /\ InForce(d, key) \in Override \cup {None}
           /\ d.overrides[key] # <<>> => InForce(d, key) = d.overrides[key][Len(d.overrides[key])].of
<1> DEFINE R == OverrideRow
           rows == d.overrides[key]
           n == Len(rows)
<1>1. rows \in Seq(OverrideRow) /\ NewestActive(rows)
  BY DEF Full, Tables, Newest
<1>2. n \in Nat /\ DOMAIN rows = 1..n /\ \A i \in 1..n : rows[i] \in OverrideRow
  <2>1. rows \in Seq(R) /\ R = OverrideRow
    BY <1>1
  <2> HIDE DEF R
  <2>2. n \in Nat /\ DOMAIN rows = 1..n /\ \A i \in 1..n : rows[i] \in R
    BY <2>1
  <2>3. QED
    BY <2>1, <2>2
<1>3. rows # <<>> => n # 0
  <2> HIDE DEF R
  <2>1. rows \in Seq(R)
    BY <1>1 DEF R
  <2>2. QED
    BY <2>1
<1>4. rows = <<>> => ActiveOf(d, key) = {}
  BY DEF ActiveOf
<1>5. ASSUME rows # <<>> PROVE ActiveOf(d, key) = {n}
  <2>1. n \in 1..n /\ \A j \in 1..n : j <= n
    BY <1>2, <1>3, <1>5
  <2>2. rows[n].active
    BY <1>1, <1>2, <2>1 DEF NewestActive
  <2>3. ASSUME NEW i \in 1..n, rows[i].active PROVE i = n
    <3>1. n <= i
      BY <1>1, <1>2, <2>1, <2>3 DEF NewestActive
    <3>2. QED
      BY <1>2, <3>1
  <2>4. ActiveOf(d, key) = {i \in 1..n : rows[i].active}
    BY <1>2 DEF ActiveOf
  <2> HIDE DEF rows, n
  <2>5. QED
    BY <2>1, <2>2, <2>3, <2>4
<1>6. Max({n}) = n
  BY <1>2 DEF Max
<1>7. rows # <<>> => InForce(d, key) = rows[n].of
  <2> SUFFICES ASSUME rows # <<>> PROVE InForce(d, key) = rows[n].of
    OBVIOUS
  <2>1. InForce(d, key) = d.overrides[key][Max(ActiveOf(d, key))].of
    BY <1>5 DEF InForce
  <2>2. QED
    BY <1>5, <1>6, <2>1
<1>8. rows = <<>> => InForce(d, key) = None
  BY <1>4 DEF InForce
<1>9. rows # <<>> => rows[n].of \in Override
  BY <1>2, <1>3 DEF OverrideRow
<1>10. QED
  BY <1>7, <1>8, <1>9

\* The key of an override.
LEMMA KeyType == ASSUME NEW o \in Override PROVE Key(o) \in Dataset \X SeedDimension
  BY DEF Override, Key

\* Overrides with different keys: each is in force afterwards.
LEMMA OverridesFull ==
    ASSUME NEW d, Full(d), NEW given \in SUBSET Override
    PROVE  LET e == replace_overrides(d, given)
           IN /\ Full(e) /\ SameTables(d, e) /\ e.events = d.events /\ e.links = d.links
              /\ e.queue = d.queue /\ e.ranks = d.ranks
              /\ \A key \in Dataset \X SeedDimension : e.overrides[key] =
                    IF \E o \in given : Key(o) = key
                    THEN Replaced(d.overrides[key], CHOOSE o \in given : Key(o) = key)
                    ELSE d.overrides[key]
<1> DEFINE e == replace_overrides(d, given)
           overrides == [key \in Dataset \X SeedDimension |->
                           IF \E o \in given : Key(o) = key
                           THEN Replaced(d.overrides[key], CHOOSE o \in given : Key(o) = key)
                           ELSE d.overrides[key]]
<1>1. e = [d EXCEPT !.overrides = overrides]
  BY DEF replace_overrides
<1>2. Good(e) /\ SameTables(d, e)
  BY OverridesFacts DEF Full
<1>3. d = [f \in Fields |-> d[f]]
  BY DEF Full, Good
<1>4. \A key \in Dataset \X SeedDimension : overrides[key] =
         IF \E o \in given : Key(o) = key
         THEN Replaced(d.overrides[key], CHOOSE o \in given : Key(o) = key) ELSE d.overrides[key]
  BY Zenon
<1>5. overrides = [key \in Dataset \X SeedDimension |-> overrides[key]]
  BY Zenon
<1> HIDE DEF e, overrides
<1>6. /\ e.overrides = overrides /\ e.events = d.events /\ e.links = d.links /\ e.queue = d.queue
      /\ e.ranks = d.ranks
  BY <1>1, <1>3 DEF Fields
<1>7. ASSUME NEW key \in Dataset \X SeedDimension
      PROVE  overrides[key] \in Seq(OverrideRow) /\ NewestActive(overrides[key])
  <2>1. d.overrides[key] \in Seq(OverrideRow) /\ NewestActive(d.overrides[key])
    BY DEF Full, Tables, Newest
  <2>2. CASE \E o \in given : Key(o) = key
    <3>1. PICK o \in given : o = CHOOSE p \in given : Key(p) = key
      BY <2>2
    <3>2. overrides[key] = Replaced(d.overrides[key], o)
      BY <1>4, <2>2, <3>1
    <3>3. QED
      BY <2>1, <3>2, ReplacedFacts
  <2>3. CASE ~ \E o \in given : Key(o) = key
    BY <1>4, <2>1, <2>3
  <2>4. QED
    BY <2>2, <2>3
<1>8. Full(e)
  <2>1. overrides \in [Dataset \X SeedDimension -> Seq(OverrideRow)]
    BY <1>5, <1>7
  <2>2. Tables(e)
    BY <1>6, <2>1 DEF Full, Tables
  <2>3. Newest(e)
    BY <1>6, <1>7 DEF Newest
  <2>4. Explained(e)
    BY <1>2, <1>6 DEF Full, Explained, SameTables
  <2>5. QED
    BY <1>2, <2>2, <2>3, <2>4 DEF Full
<1>9. QED
  BY <1>2, <1>4, <1>6, <1>8 DEF e

(***************************************************************************)
(* Links and scores.                                                       *)
(***************************************************************************)
LEMMA LinkConfidenceType ==
    ASSUME NEW d, NEW s, NEW x \in Dataset PROVE LinkConfidence(d, s, x) \in 0..100
<1> DEFINE m == Cardinality(d.signals[s].hash.terms \cap DatasetTerms[x])
           c == 20 + 15 * m + (IF x \in SameOrg THEN 15 ELSE 0)
<1>1. m \in Nat
  <2>1. IsFiniteSet(DatasetTerms[x])
    BY CatalogAssumption
  <2>2. IsFiniteSet(d.signals[s].hash.terms \cap DatasetTerms[x])
    BY <2>1, FS_Subset
  <2>3. QED
    BY <2>2, FS_CardinalityType
<1>2. LinkConfidence(d, s, x) = IF m = 0 \/ c < 28 THEN 0 ELSE IF c > 100 THEN 100 ELSE c
  BY DEF LinkConfidence
<1> HIDE DEF m
<1>3. c \in Nat
  BY <1>1
<1> HIDE DEF c
<1>4. QED
  BY <1>2, <1>3

LEMMA LinkFull ==
    ASSUME NEW d, Full(d)
    PROVE  LET e == link_signals_to_datasets(d)
           IN /\ Full(e) /\ SameTables(d, e) /\ e.events = d.events /\ e.overrides = d.overrides
              /\ e.queue = d.queue /\ e.ranks = d.ranks
              /\ \A p \in Signal \X Dataset : e.links[p] =
                    IF p \in Linkable(d) THEN LinkConfidence(d, p[1], p[2]) ELSE d.links[p]
<1> DEFINE e == link_signals_to_datasets(d)
           links == [p \in Signal \X Dataset |->
                       IF p \in Linkable(d) THEN LinkConfidence(d, p[1], p[2]) ELSE d.links[p]]
<1>1. e = [d EXCEPT !.links = links]
  BY DEF link_signals_to_datasets
<1>2. Good(e) /\ SameTables(d, e)
  BY LinkFacts DEF Full
<1>3. d = [f \in Fields |-> d[f]] /\ d.links \in [Signal \X Dataset -> 0..100]
  BY DEF Full, Good, Tables
<1>4. links \in [Signal \X Dataset -> 0..100]
  BY <1>3, LinkConfidenceType
<1>5. \A p \in Signal \X Dataset : links[p] =
         IF p \in Linkable(d) THEN LinkConfidence(d, p[1], p[2]) ELSE d.links[p]
  BY Zenon
<1> HIDE DEF e, links
<1>6. /\ e.links = links /\ e.events = d.events /\ e.overrides = d.overrides /\ e.queue = d.queue
      /\ e.ranks = d.ranks
  BY <1>1, <1>3 DEF Fields
<1>7. Full(e)
  <2>1. Tables(e)
    BY <1>4, <1>6 DEF Full, Tables
  <2>2. Newest(e) /\ Explained(e)
    BY <1>2, <1>6 DEF Full, Newest, Explained, SameTables
  <2>3. QED
    BY <1>2, <2>1, <2>2 DEF Full
<1>8. QED
  BY <1>2, <1>5, <1>6, <1>7 DEF e

\* A score of any row, under the overrides of a database.
LEMMA ScoreType ==
    ASSUME NEW d, Full(d), NEW x \in Dataset, NEW row \in Row PROVE ScoreOf(d, x, row) \in Score
<1> DEFINE features == row.hash.features
           given == [k \in SeedDimension |-> InForce(d, <<x, k>>)]
           rating == [k \in SeedDimension |->
                        IF given[k] = None THEN seed_dimensions(features)[k] ELSE given[k].rating]
           pra == Total(PRA_WEIGHTS, pra_dimensions_dataset(row.status, features))
           seed == Total(SEED_WEIGHTS, rating)
           ephemeral == Total(EPHEMERAL_WEIGHTS, ephemeral_dimensions(features))
           decision == Decision(seed, row.hash.rights, row.hash.cost)
           review == ReviewStatus({given[k].type : k \in {j \in SeedDimension : given[j] # None}})
<1>1. ScoreOf(d, x, row) = [pra |-> pra, seed |-> seed, ephemeral |-> ephemeral,
                            decision |-> decision, review |-> review]
  BY Zenon DEF ScoreOf
<1>2. features \in Features
  <2>1. row.hash \in Record
    BY DEF Row
  <2>2. QED
    BY <2>1 DEF Record
<1>3. \A k \in SeedDimension : rating[k] \in Rating
  <2> SUFFICES ASSUME NEW k \in SeedDimension PROVE rating[k] \in Rating
    OBVIOUS
  <2>1. InForce(d, <<x, k>>) \in Override \cup {None}
    BY InForceLast
  <2>2. seed_dimensions(features)[k] \in Rating
    BY <1>2, SeedRates DEF SeedDimension
  <2>3. rating[k] = IF InForce(d, <<x, k>>) = None THEN seed_dimensions(features)[k]
                    ELSE InForce(d, <<x, k>>).rating
    BY Zenon
  <2> HIDE DEF rating, features
  <2>4. QED
    BY <2>1, <2>2, <2>3 DEF Override
<1> HIDE DEF rating, features, given
<1>4. seed \in ScoreValue /\ ephemeral \in ScoreValue /\ pra \in ScoreValue
  BY <1>2, <1>3, ScoresBounded
<1>5. decision \in Decisions
  <2>1. \A total, rights, cost : Decision(total, rights, cost) \in Decisions
    BY DEF Decision, Decisions
  <2>2. QED
    BY <2>1
<1>6. review \in {"AUTO", "HUMAN_OVERRIDE", "AI_OVERRIDE", "MIXED_OVERRIDE"}
  <2>1. \A types : ReviewStatus(types) \in {"AUTO", "HUMAN_OVERRIDE", "AI_OVERRIDE", "MIXED_OVERRIDE"}
    BY DEF ReviewStatus
  <2>2. QED
    BY <2>1
<1> HIDE DEF pra, seed, ephemeral, decision, review
<1>7. QED
  BY <1>1, <1>4, <1>5, <1>6 DEF Score

LEMMA ScoreFull ==
    ASSUME NEW d, Full(d), NEW ids \in SUBSET DatasetIds(d), NEW signals \in SUBSET SignalIds(d)
    PROVE  LET e == score_all(d, ids, signals)
           IN /\ Full(e) /\ SameTables(d, e) /\ e.events = d.events /\ e.overrides = d.overrides
              /\ e.links = d.links
              /\ \A x \in Dataset : e.queue[x] = IF x \in ids THEN ScoreOf(d, x, d.rows[x]) ELSE d.queue[x]
              /\ \A s \in Signal : e.ranks[s] = IF s \in signals THEN score_signal(d.signals[s]) ELSE d.ranks[s]
<1> DEFINE e == score_all(d, ids, signals)
           queue == [x \in Dataset |-> IF x \in ids THEN ScoreOf(d, x, d.rows[x]) ELSE d.queue[x]]
           ranks == [s \in Signal |-> IF s \in signals THEN score_signal(d.signals[s]) ELSE d.ranks[s]]
<1>1. e = [d EXCEPT !.queue = queue, !.ranks = ranks]
  BY DEF score_all
<1>2. Good(e) /\ SameTables(d, e)
  BY ScoresKeep DEF Full
<1>3. /\ d = [f \in Fields |-> d[f]] /\ d.queue \in [Dataset -> Score \cup {None}]
      /\ d.ranks \in [Signal -> Recommendations \cup {None}]
  BY DEF Full, Good, Tables
<1>4. /\ \A x \in Dataset : queue[x] = IF x \in ids THEN ScoreOf(d, x, d.rows[x]) ELSE d.queue[x]
      /\ \A s \in Signal : ranks[s] = IF s \in signals THEN score_signal(d.signals[s]) ELSE d.ranks[s]
  BY Zenon
<1>5. queue = [x \in Dataset |-> queue[x]] /\ ranks = [s \in Signal |-> ranks[s]]
  BY Zenon
<1> HIDE DEF e, queue, ranks
<1>6. ASSUME NEW x \in Dataset PROVE queue[x] \in Score \cup {None}
  <2>1. CASE x \in ids
    <3>1. d.rows[x] \in Row
      BY <2>1 DEF DatasetIds, Full, Good
    <3>2. QED
      BY <1>4, <2>1, <3>1, ScoreType
  <2>2. CASE x \notin ids
    BY <1>3, <1>4, <2>2
  <2>3. QED
    BY <2>1, <2>2
<1>7. ASSUME NEW s \in Signal PROVE ranks[s] \in Recommendations \cup {None}
  <2>1. \A total : Recommendation(total) \in Recommendations
    BY DEF Recommendation, Recommendations
  <2>2. score_signal(d.signals[s]) \in Recommendations
    BY <2>1 DEF score_signal
  <2>3. QED
    BY <1>3, <1>4, <2>2
<1>8. /\ e.queue = queue /\ e.ranks = ranks /\ e.events = d.events /\ e.overrides = d.overrides
      /\ e.links = d.links
  BY <1>1, <1>3 DEF Fields
<1>9. Full(e)
  <2>1. queue \in [Dataset -> Score \cup {None}]
    BY <1>5, <1>6
  <2>2. ranks \in [Signal -> Recommendations \cup {None}]
    BY <1>5, <1>7
  <2>3. Tables(e)
    BY <1>8, <2>1, <2>2 DEF Full, Tables
  <2>4. Newest(e) /\ Explained(e)
    BY <1>2, <1>8 DEF Full, Newest, Explained, SameTables
  <2>5. QED
    BY <1>2, <2>3, <2>4 DEF Full
<1>10. QED
  BY <1>2, <1>4, <1>8, <1>9 DEF e

(***************************************************************************)
(* bootstrap, table by table.                                              *)
(***************************************************************************)
\* The overrides of the seed file a bootstrap of d has to set.
ToSet(d, known) == {o \in SeedOverrides : o.id \in known /\ InForce(d, Key(o)) # o}

LEMMA ScoresLike ==
    ASSUME NEW d, NEW e, NEW x, \A k \in SeedDimension : InForce(e, <<x, k>>) = InForce(d, <<x, k>>),
           NEW row, NEW like, like.hash = row.hash, like.status = row.status
    PROVE  ScoreOf(e, x, like) = ScoreOf(d, x, row)
<1> DEFINE given(f) == [k \in SeedDimension |-> InForce(f, <<x, k>>)]
           scored(g, hash, status) ==
             LET auto == seed_dimensions(hash.features)
                 seed == Total(SEED_WEIGHTS, [k \in SeedDimension |->
                            IF g[k] = None THEN auto[k] ELSE g[k].rating])
             IN [pra       |-> Total(PRA_WEIGHTS, pra_dimensions_dataset(status, hash.features)),
                 seed      |-> seed,
                 ephemeral |-> Total(EPHEMERAL_WEIGHTS, ephemeral_dimensions(hash.features)),
                 decision  |-> Decision(seed, hash.rights, hash.cost),
                 review    |-> ReviewStatus({g[k].type : k \in {j \in SeedDimension : g[j] # None}})]
<1>1. given(e) = given(d)
  OBVIOUS
<1>2. /\ ScoreOf(e, x, like) = scored(given(e), like.hash, like.status)
      /\ ScoreOf(d, x, row) = scored(given(d), row.hash, row.status)
  BY Zenon DEF ScoreOf
<1> HIDE DEF given, scored
<1>3. QED
  BY <1>1, <1>2

LEMMA BootstrapFull ==
    ASSUME NEW d, Full(d)
    PROVE  LET e == bootstrap(d)
           IN /\ Full(e) /\ Grows(d, e) /\ e.runs = d.runs
              /\ \A x \in Dataset :
                    /\ e.rows[x] = IF Seeded(x) THEN MirroredRow(d.rows[x], SeedRecord(x), Len(d.raws) + 1)
                                   ELSE d.rows[x]
                    /\ e.events[x] =
                          IF Seeded(x) THEN d.events[x] \o MirrorEvents(d.rows[x], SeedRecord(x), None)
                          ELSE d.events[x]
                    /\ e.queue[x] = IF x \in DatasetIds(e) THEN ScoreOf(e, x, e.rows[x]) ELSE d.queue[x]
              /\ \A s \in Signal :
                    /\ IF Noticed(SeedSignals, s)
                       THEN e.signals[s] # None /\ e.signals[s].hash = NoticeOf(SeedSignals, s)
                       ELSE e.signals[s] = d.signals[s]
                    /\ e.ranks[s] = IF s \in SignalIds(e) THEN score_signal(e.signals[s]) ELSE d.ranks[s]
              /\ \A p \in Signal \X Dataset : e.links[p] =
                    IF p \in Linkable(e) THEN LinkConfidence(e, p[1], p[2]) ELSE d.links[p]
              /\ \A key \in Dataset \X SeedDimension : e.overrides[key] =
                    IF \E o \in ToSet(d, DatasetIds(e)) : Key(o) = key
                    THEN Replaced(d.overrides[key], CHOOSE o \in ToSet(d, DatasetIds(e)) : Key(o) = key)
                    ELSE d.overrides[key]
<1> DEFINE a == SeedMirrored(d)
           b == upsert_signals(a, SeedSignals)
           applicable == {o \in SeedOverrides : o.id \in DatasetIds(b)}
           given == {o \in applicable : InForce(b, Key(o)) # o}
           c == replace_overrides(b, given)
           l == link_signals_to_datasets(c)
           e == score_all(l, DatasetIds(l), SignalIds(l))
<1>1. bootstrap(d) = e
  BY Zenon DEF bootstrap, set_overrides, score_everything
<1>2. SeedSignals \in NoticeBatch /\ Distinct(SeedSignals) /\ SeedOverrides \in SUBSET Override
  BY CatalogAssumption
<1>3. /\ Full(a) /\ Grows(d, a) /\ a.signals = d.signals /\ a.runs = d.runs /\ SameRest(d, a)
      /\ \A x \in Dataset :
            /\ a.rows[x] = IF Seeded(x) THEN MirroredRow(d.rows[x], SeedRecord(x), Len(d.raws) + 1)
                           ELSE d.rows[x]
            /\ a.events[x] =
                  IF Seeded(x) THEN d.events[x] \o MirrorEvents(d.rows[x], SeedRecord(x), None)
                  ELSE d.events[x]
  BY SeedFull
<1> HIDE DEF a
<1>4. /\ Full(b) /\ Grows(a, b) /\ b.rows = a.rows /\ b.events = a.events /\ b.runs = a.runs
      /\ SameRest(a, b)
      /\ \A s \in Signal :
            IF Noticed(SeedSignals, s)
            THEN b.signals[s] # None /\ b.signals[s].hash = NoticeOf(SeedSignals, s)
            ELSE b.signals[s] = a.signals[s]
  BY <1>2, <1>3, UpsertFull
<1>5. given \in SUBSET Override
  BY <1>2
<1> HIDE DEF b, given
<1>6. /\ Full(c) /\ SameTables(b, c) /\ c.events = b.events /\ c.links = b.links
      /\ c.queue = b.queue /\ c.ranks = b.ranks
      /\ \A key \in Dataset \X SeedDimension : c.overrides[key] =
            IF \E o \in given : Key(o) = key
            THEN Replaced(b.overrides[key], CHOOSE o \in given : Key(o) = key) ELSE b.overrides[key]
  BY <1>4, <1>5, OverridesFull
<1> HIDE DEF c
<1>7. /\ Full(l) /\ SameTables(c, l) /\ l.events = c.events /\ l.overrides = c.overrides
      /\ l.queue = c.queue /\ l.ranks = c.ranks
      /\ \A p \in Signal \X Dataset : l.links[p] =
            IF p \in Linkable(c) THEN LinkConfidence(c, p[1], p[2]) ELSE c.links[p]
  BY <1>6, LinkFull
<1> HIDE DEF l
<1>8. /\ Full(e) /\ SameTables(l, e) /\ e.events = l.events /\ e.overrides = l.overrides
      /\ e.links = l.links
      /\ \A x \in Dataset : e.queue[x] = IF x \in DatasetIds(l) THEN ScoreOf(l, x, l.rows[x]) ELSE l.queue[x]
      /\ \A s \in Signal : e.ranks[s] = IF s \in SignalIds(l) THEN score_signal(l.signals[s]) ELSE l.ranks[s]
  <2>1. DatasetIds(l) \in SUBSET DatasetIds(l) /\ SignalIds(l) \in SUBSET SignalIds(l)
    OBVIOUS
  <2>2. QED
    BY <1>7, <2>1, ScoreFull, ZenonT(30)
<1> HIDE DEF e
<1>9. /\ e.rows = a.rows /\ c.rows = a.rows /\ l.rows = a.rows /\ b.rows = a.rows
      /\ e.signals = b.signals /\ c.signals = b.signals /\ l.signals = b.signals
      /\ e.runs = d.runs /\ e.events = a.events
  BY <1>3, <1>4, <1>6, <1>7, <1>8 DEF SameTables
<1>10. /\ DatasetIds(e) = DatasetIds(l) /\ DatasetIds(e) = DatasetIds(b) /\ SignalIds(e) = SignalIds(l)
       /\ Linkable(e) = Linkable(c) /\ \A s, x : LinkConfidence(e, s, x) = LinkConfidence(c, s, x)
  <2>1. DatasetIds(e) = DatasetIds(l) /\ DatasetIds(e) = DatasetIds(b) /\ DatasetIds(e) = DatasetIds(c)
    BY <1>9 DEF DatasetIds
  <2>2. SignalIds(e) = SignalIds(l) /\ SignalIds(e) = SignalIds(c)
    BY <1>9 DEF SignalIds
  <2>3. \A s, x : LinkConfidence(e, s, x) = LinkConfidence(c, s, x)
    BY <1>9 DEF LinkConfidence
  <2>4. Linkable(e) = Linkable(c)
    BY <2>1, <2>2, <2>3 DEF Linkable
  <2>5. QED
    BY <2>1, <2>2, <2>3, <2>4
<1>11. Grows(d, e)
  <2>1. Grows(d, b)
    BY <1>3, <1>4, GrowsFurther
  <2>2. QED
    BY <1>9, <2>1 DEF Grows, DatasetIds, SignalIds
<1>12. \A x \in Dataset :
          e.queue[x] = IF x \in DatasetIds(e) THEN ScoreOf(e, x, e.rows[x]) ELSE d.queue[x]
  <2> SUFFICES ASSUME NEW x \in Dataset
               PROVE  e.queue[x] = IF x \in DatasetIds(e) THEN ScoreOf(e, x, e.rows[x]) ELSE d.queue[x]
    OBVIOUS
  <2>1. \A k \in SeedDimension : InForce(e, <<x, k>>) = InForce(l, <<x, k>>)
    BY <1>8 DEF InForce, ActiveOf
  <2>2. ScoreOf(e, x, e.rows[x]) = ScoreOf(l, x, l.rows[x])
    BY <1>9, <2>1, ScoresLike
  <2>3. l.queue = d.queue
    BY <1>3, <1>4, <1>6, <1>7 DEF SameRest
  <2>4. QED
    BY <1>8, <1>10, <2>2, <2>3
<1>13. ASSUME NEW s \in Signal
       PROVE  /\ IF Noticed(SeedSignals, s)
                 THEN e.signals[s] # None /\ e.signals[s].hash = NoticeOf(SeedSignals, s)
                 ELSE e.signals[s] = d.signals[s]
              /\ e.ranks[s] = IF s \in SignalIds(e) THEN score_signal(e.signals[s]) ELSE d.ranks[s]
  <2>1. l.ranks = d.ranks
    BY <1>3, <1>4, <1>6, <1>7 DEF SameRest
  <2>2. IF Noticed(SeedSignals, s)
        THEN e.signals[s] # None /\ e.signals[s].hash = NoticeOf(SeedSignals, s)
        ELSE e.signals[s] = d.signals[s]
    BY <1>3, <1>4, <1>9
  <2>3. e.ranks[s] = IF s \in SignalIds(e) THEN score_signal(e.signals[s]) ELSE d.ranks[s]
    BY <1>8, <1>9, <1>10, <2>1
  <2>4. QED
    BY <2>2, <2>3
<1>14. \A p \in Signal \X Dataset : e.links[p] =
          IF p \in Linkable(e) THEN LinkConfidence(e, p[1], p[2]) ELSE d.links[p]
  <2>1. c.links = d.links
    BY <1>3, <1>4, <1>6 DEF SameRest
  <2>2. QED
    BY <1>7, <1>8, <1>10, <2>1
<1>15. given = ToSet(d, DatasetIds(e)) /\ e.overrides = c.overrides /\ b.overrides = d.overrides
  <2>1. b.overrides = d.overrides /\ e.overrides = c.overrides
    BY <1>3, <1>4, <1>7, <1>8 DEF SameRest
  <2>2. \A key : InForce(b, key) = InForce(d, key)
    BY <2>1 DEF InForce, ActiveOf
  <2>3. QED
    BY <1>10, <2>1, <2>2 DEF given, ToSet
<1>16. \A key \in Dataset \X SeedDimension : e.overrides[key] =
          IF \E o \in ToSet(d, DatasetIds(e)) : Key(o) = key
          THEN Replaced(d.overrides[key], CHOOSE o \in ToSet(d, DatasetIds(e)) : Key(o) = key)
          ELSE d.overrides[key]
  BY <1>6, <1>15
<1>17. QED
  BY <1>1, <1>3, <1>8, <1>9, <1>11, <1>12, <1>13, <1>14, <1>16

(***************************************************************************)
(* A second bootstrap.                                                     *)
(***************************************************************************)
\* The same row, seen in a later payload.
Renewed(row, again) == again = row \/ (row \in Row /\ again \in Row /\ again = [row EXCEPT !.raw = again.raw])

LEMMA RenewedFacts ==
    ASSUME NEW row, NEW again, Renewed(row, again)
    PROVE  /\ (again = None) <=> (row = None)
           /\ again.hash = row.hash /\ again.status = row.status
           /\ row # None => [again EXCEPT !.raw = 0] = [row EXCEPT !.raw = 0]
<1>1. CASE again = row
  BY <1>1
<1>2. CASE row \in Row /\ again \in Row /\ again = [row EXCEPT !.raw = again.raw]
  <2>1. PICK n : again = [row EXCEPT !.raw = n]
    BY <1>2
  <2>2. again.hash = row.hash /\ again.status = row.status
    BY <1>2, <2>1 DEF Row
  <2>3. [[row EXCEPT !.raw = n] EXCEPT !.raw = 0] = [row EXCEPT !.raw = 0]
    BY <1>2 DEF Row
  <2>4. QED
    BY <1>2, <2>1, <2>2, <2>3, NoneFacts
<1>3. QED
  BY <1>1, <1>2 DEF Renewed

LEMMA SetIsInForce ==
    ASSUME NEW d, Full(d) PROVE ToSet(bootstrap(d), DatasetIds(bootstrap(d))) = {}
<1> DEFINE e == bootstrap(d)
           missing == ToSet(d, DatasetIds(e))
<1>1. /\ Full(e)
      /\ \A key \in Dataset \X SeedDimension : e.overrides[key] =
            IF \E o \in missing : Key(o) = key
            THEN Replaced(d.overrides[key], CHOOSE o \in missing : Key(o) = key)
            ELSE d.overrides[key]
  BY BootstrapFull
<1> HIDE DEF e
<1>2. SeedOverrides \in SUBSET Override /\ \A o, p \in SeedOverrides : Key(o) = Key(p) => o = p
  BY CatalogAssumption
<1>3. ASSUME NEW o \in SeedOverrides, o.id \in DatasetIds(e) PROVE InForce(e, Key(o)) = o
  <2> DEFINE key == Key(o)
  <2>1. o \in Override /\ key \in Dataset \X SeedDimension
    BY <1>2, <1>3, KeyType
  <2>2. CASE o \in missing
    <3>1. (CHOOSE p \in missing : Key(p) = key) = o
      BY <1>2, <2>2 DEF ToSet
    <3> HIDE DEF missing, key
    <3>2. e.overrides[key] = Replaced(d.overrides[key], o)
      BY <1>1, <2>1, <2>2, <3>1 DEF key
    <3>3. d.overrides[key] \in Seq(OverrideRow)
      BY <2>1 DEF Full, Tables
    <3>4. e.overrides[key] # <<>> /\ e.overrides[key][Len(e.overrides[key])].of = o
      BY <2>1, <3>2, <3>3, ReplacedFacts
    <3>5. InForce(e, key) = o
      BY <1>1, <2>1, <3>4, InForceLast
    <3>6. QED
      BY <3>5 DEF key
  <2>3. CASE o \notin missing
    <3>1. InForce(d, key) = o
      BY <1>3, <2>3 DEF ToSet
    <3>2. ~ \E p \in missing : Key(p) = key
      BY <1>2, <1>3, <2>3 DEF ToSet
    <3> HIDE DEF missing
    <3>3. e.overrides[key] = d.overrides[key]
      BY <1>1, <2>1, <3>2
    <3>4. InForce(e, key) = InForce(d, key)
      BY <3>3 DEF InForce, ActiveOf
    <3>5. QED
      BY <3>1, <3>4
  <2>4. QED
    BY <2>2, <2>3
<1>4. ToSet(e, DatasetIds(e)) = {}
  BY <1>3 DEF ToSet
<1>5. QED
  BY <1>4 DEF e

LEMMA BootstrapTwice ==
    ASSUME NEW d, Full(d)
    PROVE  WithoutPayloads(bootstrap(bootstrap(d))) = WithoutPayloads(bootstrap(d))
<1> DEFINE e == bootstrap(d)
           f == bootstrap(e)
<1>1. /\ Full(e)
      /\ \A x \in Dataset :
            /\ Seeded(x) => e.rows[x] = MirroredRow(d.rows[x], SeedRecord(x), Len(d.raws) + 1)
            /\ e.queue[x] = IF x \in DatasetIds(e) THEN ScoreOf(e, x, e.rows[x]) ELSE d.queue[x]
      /\ \A s \in Signal :
            /\ Noticed(SeedSignals, s) => e.signals[s] # None /\ e.signals[s].hash = NoticeOf(SeedSignals, s)
            /\ e.ranks[s] = IF s \in SignalIds(e) THEN score_signal(e.signals[s]) ELSE d.ranks[s]
      /\ \A p \in Signal \X Dataset : e.links[p] =
            IF p \in Linkable(e) THEN LinkConfidence(e, p[1], p[2]) ELSE d.links[p]
  BY BootstrapFull
<1>2. ToSet(e, DatasetIds(e)) = {}
  BY SetIsInForce
<1> HIDE DEF e
<1>3. /\ Full(f) /\ f.runs = e.runs
      /\ \A x \in Dataset :
            /\ f.rows[x] = IF Seeded(x) THEN MirroredRow(e.rows[x], SeedRecord(x), Len(e.raws) + 1)
                           ELSE e.rows[x]
            /\ f.events[x] =
                  IF Seeded(x) THEN e.events[x] \o MirrorEvents(e.rows[x], SeedRecord(x), None)
                  ELSE e.events[x]
            /\ f.queue[x] = IF x \in DatasetIds(f) THEN ScoreOf(f, x, f.rows[x]) ELSE e.queue[x]
      /\ \A s \in Signal :
            /\ IF Noticed(SeedSignals, s)
               THEN f.signals[s] # None /\ f.signals[s].hash = NoticeOf(SeedSignals, s)
               ELSE f.signals[s] = e.signals[s]
            /\ f.ranks[s] = IF s \in SignalIds(f) THEN score_signal(f.signals[s]) ELSE e.ranks[s]
      /\ \A p \in Signal \X Dataset : f.links[p] =
            IF p \in Linkable(f) THEN LinkConfidence(f, p[1], p[2]) ELSE e.links[p]
      /\ \A key \in Dataset \X SeedDimension : f.overrides[key] =
            IF \E o \in ToSet(e, DatasetIds(f)) : Key(o) = key
            THEN Replaced(e.overrides[key], CHOOSE o \in ToSet(e, DatasetIds(f)) : Key(o) = key)
            ELSE e.overrides[key]
  <2>1. Full(e)
    BY <1>1
  <2>2. QED
    BY <2>1, BootstrapFull
<1> HIDE DEF f
<1>4. Len(d.raws) + 1 \in Nat /\ Len(e.raws) + 1 \in Nat
  <2> DEFINE S == Batch \cup NoticeBatch
  <2>1. d.raws \in Seq(S) /\ e.raws \in Seq(S)
    BY <1>1 DEF Full, Good
  <2> HIDE DEF S
  <2>2. QED
    BY <2>1
<1>5. ASSUME NEW x \in Dataset PROVE Renewed(e.rows[x], f.rows[x]) /\ f.events[x] = e.events[x]
  <2>1. CASE Seeded(x)
    <3> DEFINE record == SeedRecord(x)
               first == e.rows[x]
               raw == Len(e.raws) + 1
    <3>1. record \in Record
      BY <2>1, SeedRecordType
    <3>2. d.rows[x] \in Row \cup {None} /\ first = MirroredRow(d.rows[x], record, Len(d.raws) + 1)
      BY <1>1, <2>1 DEF Full, Good
    <3> HIDE DEF record, first
    <3>3. first \in Row /\ first.hash = record
      BY <1>4, <3>1, <3>2, MirroredRowFacts
    <3>4. first # None
      BY <3>3, NoneFacts
    <3>5. MirroredRow(first, record, raw) = [first EXCEPT !.raw = raw]
      BY <3>3, <3>4 DEF MirroredRow
    <3>6. MirrorEvents(first, record, None) = <<>>
      BY <3>3, <3>4 DEF MirrorEvents
    <3>7. f.rows[x] = [first EXCEPT !.raw = raw]
      BY <1>3, <2>1, <3>5 DEF first, record
    <3>8. f.rows[x] \in Row /\ f.rows[x].raw = raw
      BY <1>4, <3>3, <3>7 DEF Row
    <3>9. e.events[x] \o <<>> = e.events[x]
      <4> DEFINE E == Event
      <4>1. e.events[x] \in Seq(E)
        BY <1>1 DEF Full, Tables
      <4> HIDE DEF E
      <4>2. QED
        BY <4>1
    <3>10. f.events[x] = e.events[x]
      BY <1>3, <2>1, <3>6, <3>9 DEF first, record
    <3>11. QED
      BY <3>3, <3>7, <3>8, <3>10 DEF Renewed, first
  <2>2. CASE ~Seeded(x)
    BY <1>3, <2>2 DEF Renewed
  <2>3. QED
    BY <2>1, <2>2
<1>6. ASSUME NEW s \in Signal
      PROVE  /\ f.signals[s] = None <=> e.signals[s] = None
             /\ f.signals[s].hash = e.signals[s].hash
  <2>1. CASE Noticed(SeedSignals, s)
    BY <1>1, <1>3, <2>1
  <2>2. CASE ~Noticed(SeedSignals, s)
    BY <1>3, <2>2
  <2>3. QED
    BY <2>1, <2>2
<1>7. DatasetIds(f) = DatasetIds(e) /\ SignalIds(f) = SignalIds(e)
  <2>1. \A x \in Dataset : f.rows[x] = None <=> e.rows[x] = None
    BY <1>5, RenewedFacts
  <2>2. QED
    BY <1>6, <2>1 DEF DatasetIds, SignalIds
<1>8. f.overrides = e.overrides
  <2>1. \A key \in Dataset \X SeedDimension : f.overrides[key] = e.overrides[key]
    BY <1>2, <1>3, <1>7
  <2>2. /\ f.overrides \in [Dataset \X SeedDimension -> Seq(OverrideRow)]
        /\ e.overrides \in [Dataset \X SeedDimension -> Seq(OverrideRow)]
    BY <1>1, <1>3 DEF Full, Tables
  <2>3. QED
    BY <2>1, <2>2
<1>9. f.events = e.events
  BY <1>1, <1>3, <1>5 DEF Full, Tables
<1>10. f.links = e.links
  <2>1. ASSUME NEW s \in Signal, NEW x PROVE LinkConfidence(f, s, x) = LinkConfidence(e, s, x)
    <3>1. f.signals[s].hash = e.signals[s].hash
      BY <1>6
    <3>2. QED
      BY <3>1, Zenon DEF LinkConfidence
  <2>2. Linkable(f) = Linkable(e)
    BY <1>7, <2>1 DEF Linkable, SignalIds
  <2>3. \A p \in Signal \X Dataset : f.links[p] = e.links[p]
    BY <1>1, <1>3, <2>1, <2>2
  <2>4. f.links \in [Signal \X Dataset -> 0..100] /\ e.links \in [Signal \X Dataset -> 0..100]
    BY <1>1, <1>3 DEF Full, Tables
  <2>5. QED
    BY <2>3, <2>4
<1>11. f.queue = e.queue
  <2>1. ASSUME NEW x \in Dataset PROVE f.queue[x] = e.queue[x]
    <3>1. \A k \in SeedDimension : InForce(f, <<x, k>>) = InForce(e, <<x, k>>)
      BY <1>8 DEF InForce, ActiveOf
    <3>2. f.rows[x].hash = e.rows[x].hash /\ f.rows[x].status = e.rows[x].status
      BY <1>5, RenewedFacts
    <3> DEFINE row == e.rows[x]
               like == f.rows[x]
    <3>3. like.hash = row.hash /\ like.status = row.status
      BY <3>2
    <3> HIDE DEF row, like
    <3>4. ScoreOf(f, x, like) = ScoreOf(e, x, row)
      BY <3>1, <3>3, ScoresLike
    <3>5. QED
      BY <1>1, <1>3, <1>7, <3>4 DEF row, like
  <2>2. QED
    BY <1>1, <1>3, <2>1 DEF Full, Tables
<1>12. f.ranks = e.ranks
  <2>1. ASSUME NEW s \in Signal PROVE f.ranks[s] = e.ranks[s]
    <3>1. s \in SignalIds(e) => score_signal(f.signals[s]) = score_signal(e.signals[s])
      BY <1>6 DEF SignalIds, score_signal
    <3>2. QED
      BY <1>1, <1>3, <1>7, <3>1
  <2>2. QED
    BY <1>1, <1>3, <2>1 DEF Full, Tables
<1> DEFINE rows(g) == [x \in Dataset |-> IF g.rows[x] = None THEN None ELSE [g.rows[x] EXCEPT !.raw = 0]]
           signals(g) == [s \in Signal |-> IF g.signals[s] = None THEN None ELSE [g.signals[s] EXCEPT !.raw = 0]]
<1>13. rows(f) = rows(e)
  BY <1>5, RenewedFacts
<1>14. signals(f) = signals(e)
  <2>1. ASSUME NEW s \in Signal, e.signals[s] # None
        PROVE  [f.signals[s] EXCEPT !.raw = 0] = [e.signals[s] EXCEPT !.raw = 0]
    <3>1. e.signals[s] \in SignalRow \cup {None} /\ f.signals[s] \in SignalRow \cup {None}
      BY <1>1, <1>3 DEF Full, Good
    <3>2. f.signals[s] \in SignalRow /\ e.signals[s] \in SignalRow /\ f.signals[s].hash = e.signals[s].hash
      BY <1>6, <2>1, <3>1
    <3>3. QED
      BY <3>2 DEF SignalRow
  <2>2. QED
    BY <1>6, <2>1
<1>15. \A g : WithoutPayloads(g) = [g EXCEPT !.raws = <<>>, !.rows = rows(g), !.signals = signals(g)]
  BY DEF WithoutPayloads
<1> HIDE DEF rows, signals
<1>16. e = [k \in Fields |-> e[k]] /\ f = [k \in Fields |-> f[k]]
  BY <1>1, <1>3 DEF Full, Good
<1>17. [f EXCEPT !.raws = <<>>, !.rows = rows(f), !.signals = signals(f)]
          = [e EXCEPT !.raws = <<>>, !.rows = rows(e), !.signals = signals(e)]
  BY <1>3, <1>8, <1>9, <1>10, <1>11, <1>12, <1>13, <1>14, <1>16 DEF Fields
<1>18. QED
  BY <1>15, <1>17 DEF e, f

(***************************************************************************)
(* The invariant of all tables, and of what a command carries from what it *)
(* read to what it writes.                                                 *)
(***************************************************************************)
Reading == [ids : SUBSET Dataset, signals : SUBSET Signal, id : Dataset, row : Row]

HeldInv ==
    /\ job \in [Process -> Source \cup {"none", "score", "override"}]
    /\ held \in [Process -> Reading \cup Override \cup {None}]
    /\ \A p \in Process :
          /\ job[p] = "score" => /\ held[p] \in Reading /\ held[p].ids \subseteq DatasetIds(db)
                                 /\ held[p].signals \subseteq SignalIds(db)
          /\ job[p] = "override" => held[p] \in HumanOverrides

RunInv ==
    /\ owner \in Process \cup {None} /\ phase \in {"idle", "fetch", "records"}
    /\ feed \in Source \cup {None} /\ batch \in Batch /\ pos \in Nat /\ counts \in Counts
    /\ started \in 0..MaxJobs

TablesInv ==
    /\ Full(db) /\ Full(tx) /\ HeldInv /\ RunInv
    /\ owner # None => Grows(db, tx)

FullInv == Inv /\ TablesInv

LEMMA EmptyFull == Full(EmptyDb)
<1>1. /\ EmptyDb = [f \in Fields |-> EmptyDb[f]]
      /\ EmptyDb.rows = [x \in Dataset |-> None] /\ EmptyDb.events = [x \in Dataset |-> <<>>]
      /\ EmptyDb.raws = <<>> /\ EmptyDb.runs = <<>> /\ EmptyDb.signals = [s \in Signal |-> None]
      /\ EmptyDb.links = [p \in Signal \X Dataset |-> 0]
      /\ EmptyDb.overrides = [key \in Dataset \X SeedDimension |-> <<>>]
      /\ EmptyDb.queue = [x \in Dataset |-> None] /\ EmptyDb.ranks = [s \in Signal |-> None]
  BY DEF EmptyDb, Fields
<1>2. /\ <<>> \in Seq(Batch \cup NoticeBatch) /\ <<>> \in Seq(RunRow) /\ <<>> \in Seq(Event)
      /\ <<>> \in Seq(OverrideRow) /\ 0 \in 0..100
  OBVIOUS
<1>3. Good(EmptyDb)
  BY <1>1, <1>2 DEF Good
<1>4. Tables(EmptyDb)
  BY <1>1, <1>2 DEF Tables
<1>5. Newest(EmptyDb)
  BY <1>1 DEF Newest, NewestActive
<1>6. Explained(EmptyDb)
  BY <1>1 DEF Explained, Told
<1>7. QED
  BY <1>3, <1>4, <1>5, <1>6 DEF Full

LEMMA FullInit == Init => FullInv
<1> SUFFICES ASSUME Init PROVE FullInv
  OBVIOUS
<1>1. /\ db = bootstrap(EmptyDb) /\ tx = EmptyDb /\ owner = None
      /\ job = [p \in Process |-> "none"] /\ held = [p \in Process |-> None]
      /\ phase = "idle" /\ feed = None /\ batch = <<>> /\ pos = 1 /\ counts = NoCounts /\ started = 0
  BY Zenon DEF Init
<1>2. Full(db) /\ Full(tx)
  BY <1>1, EmptyFull, BootstrapFull
<1>3. HeldInv
  BY <1>1 DEF HeldInv
<1>4. RunInv
  BY <1>1, CatalogAssumption DEF RunInv, Batch, NoCounts, Counts
<1>5. QED
  BY <1>1, <1>2, <1>3, <1>4, InvInit DEF FullInv, TablesInv

LEMMA HeldGrows == ASSUME HeldInv, Grows(db, db'), UNCHANGED <<job, held>> PROVE HeldInv'
<1>1. DatasetIds(db) \subseteq DatasetIds(db') /\ SignalIds(db) \subseteq SignalIds(db')
  BY DEF Grows
<1>2. \A p \in Process :
         /\ job[p] = "score" => /\ held[p] \in Reading /\ held[p].ids \subseteq DatasetIds(db')
                                /\ held[p].signals \subseteq SignalIds(db')
         /\ job[p] = "override" => held[p] \in HumanOverrides
  BY <1>1 DEF HeldInv
<1>3. QED
  BY <1>2 DEF HeldInv

LEMMA HeldCleared ==
    ASSUME HeldInv, Grows(db, db'), NEW p \in Process, job' = [job EXCEPT ![p] = "none"],
           held' = held \/ held' = [held EXCEPT ![p] = None]
    PROVE  HeldInv'
<1>1. DatasetIds(db) \subseteq DatasetIds(db') /\ SignalIds(db) \subseteq SignalIds(db')
  BY DEF Grows
<1>2. job' \in [Process -> Source \cup {"none", "score", "override"}]
  BY DEF HeldInv
<1>3. held' \in [Process -> Reading \cup Override \cup {None}]
  <2> DEFINE S == Reading \cup Override \cup {None}
  <2>1. held \in [Process -> S] /\ None \in S
    BY DEF HeldInv
  <2> HIDE DEF S
  <2>2. held' \in [Process -> S]
    BY <2>1
  <2>3. QED
    BY <2>2 DEF S
<1>4. \A q \in Process : (job'[q] = job[q] /\ held'[q] = held[q]) \/ job'[q] = "none"
  BY DEF HeldInv
<1>5. \A q \in Process :
         /\ job'[q] = "score" => /\ held'[q] \in Reading /\ held'[q].ids \subseteq DatasetIds(db')
                                 /\ held'[q].signals \subseteq SignalIds(db')
         /\ job'[q] = "override" => held'[q] \in HumanOverrides
  <2> SUFFICES ASSUME NEW q \in Process
               PROVE  /\ job'[q] = "score" => /\ held'[q] \in Reading /\ held'[q].ids \subseteq DatasetIds(db')
                                              /\ held'[q].signals \subseteq SignalIds(db')
                      /\ job'[q] = "override" => held'[q] \in HumanOverrides
    OBVIOUS
  <2>1. CASE job'[q] = job[q] /\ held'[q] = held[q]
    BY <1>1, <2>1 DEF HeldInv
  <2>2. CASE job'[q] = "none"
    BY <2>2
  <2>3. QED
    BY <1>4, <2>1, <2>2
<1>6. QED
  BY <1>2, <1>3, <1>5 DEF HeldInv

LEMMA CloseRun == ASSUME FullInv, Close, UNCHANGED started PROVE RunInv' /\ Full(tx') /\ owner' = None
<1>1. /\ owner' = None /\ tx' = EmptyDb /\ phase' = "idle" /\ feed' = None /\ batch' = <<>> /\ pos' = 1
      /\ counts' = NoCounts
  BY DEF Close
<1>2. QED
  BY <1>1, EmptyFull DEF FullInv, TablesInv, RunInv, Batch, NoCounts, Counts

LEMMA GrowsItself == \A d : Grows(d, d)
  BY DEF Grows

\* Runs and payloads come and go without the tables of scores and history.
LEMMA SameHistoryFull ==
    ASSUME NEW d, Full(d), NEW e, Good(e), SameRest(d, e), e.events = d.events, e.rows = d.rows,
           e.signals = d.signals
    PROVE  Full(e) /\ Grows(d, e)
  BY HistoryFull DEF Full, Tables, Explained, Grows, DatasetIds, SignalIds

LEMMA ScoredFull ==
    ASSUME NEW d, Full(d) PROVE Full(score_everything(d)) /\ Grows(d, score_everything(d))
<1> DEFINE e == score_everything(d)
<1>1. DatasetIds(d) \in SUBSET DatasetIds(d) /\ SignalIds(d) \in SUBSET SignalIds(d)
  OBVIOUS
<1>2. e = score_all(d, DatasetIds(d), SignalIds(d))
  BY DEF score_everything
<1>3. Full(e) /\ SameTables(d, e)
  BY <1>1, <1>2, ScoreFull
<1>4. QED
  BY <1>3 DEF Grows, DatasetIds, SignalIds, SameTables

\* A run that ends leaves the other commands what they read.
LEMMA EndKeeps ==
    ASSUME FullInv, Close, UNCHANGED <<job, held, started>>, Full(db'), Grows(db, db')
    PROVE  TablesInv'
<1>1. HeldInv'
  BY HeldGrows DEF FullInv, TablesInv
<1>2. RunInv' /\ Full(tx') /\ owner' = None
  BY CloseRun
<1>3. QED
  BY <1>1, <1>2 DEF TablesInv

\* A command without a run writes when no run holds the lock.
LEMMA WriteKeepsTables ==
    ASSUME FullInv, owner = None, Full(db'), Grows(db, db'), HeldInv', started' \in 0..MaxJobs,
           UNCHANGED <<tx, owner, run>>
    PROVE  TablesInv'
<1>1. RunInv /\ Full(tx)
  BY DEF FullInv, TablesInv
<1>2. RunInv'
  BY <1>1 DEF RunInv, run
<1>3. QED
  BY <1>1, <1>2 DEF TablesInv

LEMMA StartedStays == ASSUME FullInv, UNCHANGED started PROVE started' \in 0..MaxJobs
  BY DEF FullInv, TablesInv, RunInv

LEMMA StartedNext ==
    ASSUME FullInv, started < MaxJobs, started' = started + 1 PROVE started' \in 0..MaxJobs
<1>1. started \in 0..MaxJobs /\ MaxJobs \in Nat
  BY CatalogAssumption DEF FullInv, TablesInv, RunInv
<1>2. QED
  BY <1>1

LEMMA BootstrapKeepsTables ==
    ASSUME FullInv, NEW p \in Process, Bootstrap(p) PROVE TablesInv'
<1>1. /\ started < MaxJobs /\ owner = None /\ db' = bootstrap(db) /\ started' = started + 1
      /\ UNCHANGED <<tx, owner, job, held, run>>
  BY DEF Bootstrap, Idle
<1>2. Full(db)
  BY DEF FullInv, TablesInv
<1>3. Full(db') /\ Grows(db, db')
  BY <1>1, <1>2, BootstrapFull
<1>4. HeldInv'
  BY <1>1, <1>3, HeldGrows DEF FullInv, TablesInv
<1>5. QED
  BY <1>1, <1>3, <1>4, StartedNext, WriteKeepsTables

\* A command that has only read, or been turned away.
LEMMA ReadKeepsTables ==
    ASSUME FullInv, HeldInv', started' \in 0..MaxJobs, UNCHANGED <<db, tx, owner, run>>
    PROVE  TablesInv'
<1>1. RunInv /\ Full(db) /\ Full(tx) /\ (owner # None => Grows(db, tx))
  BY DEF FullInv, TablesInv
<1>2. RunInv'
  BY <1>1 DEF RunInv, run
<1>3. QED
  BY <1>1, <1>2 DEF TablesInv

LEMMA BusyKeepsTables == ASSUME FullInv, NEW p \in Process, Busy(p) PROVE TablesInv'
<1>1. /\ job' = [job EXCEPT ![p] = "none"] /\ held' = [held EXCEPT ![p] = None]
      /\ UNCHANGED <<db, tx, owner, run, started>>
  BY DEF Busy
<1>2. Grows(db, db')
  BY <1>1, GrowsItself
<1>3. HeldInv'
  BY <1>1, <1>2, HeldCleared DEF FullInv, TablesInv
<1>4. QED
  BY <1>1, <1>3, StartedStays, ReadKeepsTables

\* What a command has read is there when it starts.
LEMMA HeldRead ==
    ASSUME HeldInv, UNCHANGED db, NEW p \in Process,
           NEW kind \in Source \cup {"score", "override"}, job' = [job EXCEPT ![p] = kind],
           NEW read, read \in Reading \cup Override \cup {None},
           held' = [held EXCEPT ![p] = read],
           kind = "score" => /\ read \in Reading /\ read.ids \subseteq DatasetIds(db)
                             /\ read.signals \subseteq SignalIds(db),
           kind = "override" => read \in HumanOverrides
    PROVE  HeldInv'
<1>1. job' \in [Process -> Source \cup {"none", "score", "override"}]
  BY DEF HeldInv
<1>2. held' \in [Process -> Reading \cup Override \cup {None}]
  <2> DEFINE S == Reading \cup Override \cup {None}
  <2>1. held \in [Process -> S] /\ read \in S
    BY DEF HeldInv
  <2> HIDE DEF S
  <2>2. held' \in [Process -> S]
    BY <2>1
  <2>3. QED
    BY <2>2 DEF S
<1>3. ASSUME NEW q \in Process
      PROVE  /\ job'[q] = "score" => /\ held'[q] \in Reading /\ held'[q].ids \subseteq DatasetIds(db)
                                     /\ held'[q].signals \subseteq SignalIds(db)
             /\ job'[q] = "override" => held'[q] \in HumanOverrides
  <2>1. CASE q = p
    <3>1. job'[q] = kind /\ held'[q] = read
      BY <2>1 DEF HeldInv
    <3>2. QED
      BY <3>1
  <2>2. CASE q # p
    <3>1. job'[q] = job[q] /\ held'[q] = held[q]
      BY <2>2 DEF HeldInv
    <3>2. QED
      BY <3>1 DEF HeldInv
  <2>3. QED
    BY <2>1, <2>2
<1>4. QED
  BY <1>1, <1>2, <1>3 DEF HeldInv

LEMMA StartRunKeepsTables == ASSUME FullInv, NEW p \in Process, StartRun(p) PROVE TablesInv'
<1>1. PICK s \in Source : job' = [job EXCEPT ![p] = s]
  BY DEF StartRun
<1>2. /\ started < MaxJobs /\ started' = started + 1 /\ UNCHANGED <<db, tx, owner, held, run>>
  BY DEF StartRun, Idle
<1>3. HeldInv
  BY DEF FullInv, TablesInv
<1>4. held[p] \in Reading \cup Override \cup {None} /\ held' = [held EXCEPT ![p] = held[p]]
  <2> DEFINE S == Reading \cup Override \cup {None}
  <2>1. held \in [Process -> S]
    BY <1>3 DEF HeldInv
  <2> HIDE DEF S
  <2>2. held[p] \in S /\ held = [held EXCEPT ![p] = held[p]]
    BY <2>1
  <2>3. QED
    BY <1>2, <2>2 DEF S
<1>5. s # "score" /\ s # "override"
  BY DEF Source, Registry
<1>6. HeldInv'
  <2>1. UNCHANGED db
    BY <1>2
  <2>2. QED
    BY <1>1, <1>3, <1>4, <1>5, <2>1, HeldRead
<1>7. QED
  BY <1>2, <1>6, StartedNext, ReadKeepsTables

LEMMA StartScoreKeepsTables == ASSUME FullInv, NEW p \in Process, StartScore(p) PROVE TablesInv'
<1>1. PICK d \in DatasetIds(db) :
         held' = [held EXCEPT ![p] = [ids |-> DatasetIds(db), signals |-> SignalIds(db),
                                      id |-> d, row |-> db.rows[d]]]
  BY DEF StartScore
<1>2. /\ started < MaxJobs /\ job' = [job EXCEPT ![p] = "score"] /\ started' = started + 1
      /\ UNCHANGED <<db, tx, owner, run>>
  BY DEF StartScore, Idle
<1> DEFINE read == [ids |-> DatasetIds(db), signals |-> SignalIds(db), id |-> d, row |-> db.rows[d]]
<1>3. /\ read \in Reading /\ read.ids \subseteq DatasetIds(db)
      /\ read.signals \subseteq SignalIds(db)
  <2>1. d \in Dataset /\ db.rows[d] \in Row
    BY DEF DatasetIds, FullInv, Inv, Good
  <2>2. DatasetIds(db) \in SUBSET Dataset /\ SignalIds(db) \in SUBSET Signal
    BY DEF DatasetIds, SignalIds
  <2>3. QED
    BY <2>1, <2>2 DEF Reading
<1>4. held' = [held EXCEPT ![p] = read] /\ HeldInv /\ UNCHANGED db
  BY <1>1, <1>2 DEF FullInv, TablesInv
<1>k. "score" \in Source \cup {"score", "override"} /\ read \in Reading \cup Override \cup {None}
  BY <1>3
<1> HIDE DEF read
<1>5. HeldInv'
  BY <1>2, <1>3, <1>4, <1>k, HeldRead
<1>6. QED
  BY <1>2, <1>5, StartedNext, ReadKeepsTables

LEMMA StartOverrideKeepsTables ==
    ASSUME FullInv, NEW p \in Process, StartOverride(p) PROVE TablesInv'
<1>1. PICK o \in HumanOverrides : held' = [held EXCEPT ![p] = o]
  BY DEF StartOverride
<1>2. /\ started < MaxJobs /\ job' = [job EXCEPT ![p] = "override"] /\ started' = started + 1
      /\ UNCHANGED <<db, tx, owner, run>>
  BY DEF StartOverride, Idle
<1>3. o \in Override
  BY CatalogAssumption
<1>4. HeldInv /\ UNCHANGED db
  BY <1>2 DEF FullInv, TablesInv
<1>k. "override" \in Source \cup {"score", "override"} /\ o \in Reading \cup Override \cup {None}
  BY <1>3
<1>5. HeldInv'
  BY <1>1, <1>2, <1>4, <1>k, HeldRead
<1>6. QED
  BY <1>2, <1>5, StartedNext, ReadKeepsTables

LEMMA AcquireKeepsTables == ASSUME FullInv, NEW p \in Process, Acquire(p) PROVE TablesInv'
<1> DEFINE r == [source |-> job[p], status |-> "RUNNING", received |-> 0, inserted |-> 0,
                 duplicates |-> 0]
           runs == Append(db.runs, r)
           e == [db EXCEPT !.runs = runs]
<1>1. /\ job[p] \in Source /\ owner' = p /\ feed' = job[p] /\ tx' = e /\ phase' = "fetch"
      /\ job' = [job EXCEPT ![p] = "none"]
      /\ UNCHANGED <<db, held, batch, pos, counts, started>>
  BY DEF Acquire
<1>2. runs \in Seq(RunRow)
  <2>1. r \in RunRow
    BY <1>1 DEF RunRow
  <2> DEFINE R == RunRow
  <2>2. db.runs \in Seq(R) /\ r \in R
    BY <2>1 DEF FullInv, Inv, Good
  <2> HIDE DEF R, r
  <2>3. runs \in Seq(R)
    BY <2>2
  <2>4. QED
    BY <2>3 DEF R
<1>3. Full(db) /\ Good(db)
  BY DEF FullInv, TablesInv, Full
<1> HIDE DEF runs
<1>4. /\ e = [f \in Fields |-> e[f]] /\ e.rows = db.rows /\ e.raws = db.raws /\ e.runs = runs
      /\ e.signals = db.signals /\ e.events = db.events /\ SameRest(db, e)
  BY <1>3 DEF Good, Fields, SameRest
<1> HIDE DEF e
<1>5. Good(e)
  BY <1>2, <1>3, <1>4 DEF Good
<1>6. Full(e) /\ Grows(db, e)
  BY <1>3, <1>4, <1>5, SameHistoryFull
<1>7. HeldInv'
  <2>1. HeldInv /\ Grows(db, db')
    BY <1>1, GrowsItself DEF FullInv, TablesInv
  <2>2. QED
    BY <1>1, <2>1, HeldCleared
<1>8. RunInv'
  BY <1>1 DEF FullInv, TablesInv, RunInv
<1>9. QED
  BY <1>1, <1>3, <1>6, <1>7, <1>8 DEF TablesInv

LEMMA FetchKeepsTables == ASSUME FullInv, Fetch PROVE TablesInv'
<1> DEFINE raws == Append(tx.raws, batch')
           e == [tx EXCEPT !.raws = raws]
<1>1. /\ phase = "fetch" /\ feed \in Registry /\ phase' = "records" /\ batch' \in Feeds[feed]
      /\ tx' = e /\ UNCHANGED <<db, owner, job, held, feed, pos, counts, started>>
  BY DEF Fetch
<1>2. batch' \in Batch
  BY <1>1, CatalogAssumption
<1>3. Full(tx) /\ Good(tx) /\ Full(db) /\ owner # None /\ Grows(db, tx)
  BY <1>1 DEF FullInv, TablesInv, Full, Inv, OwnerInv
<1>4. raws \in Seq(Batch \cup NoticeBatch)
  BY <1>2, <1>3, RawsAppend DEF Good
<1> HIDE DEF raws
<1>5. /\ e = [f \in Fields |-> e[f]] /\ e.rows = tx.rows /\ e.raws = raws /\ e.runs = tx.runs
      /\ e.signals = tx.signals /\ e.events = tx.events /\ SameRest(tx, e)
  BY <1>3 DEF Good, Fields, SameRest
<1> HIDE DEF e
<1>6. Good(e)
  BY <1>3, <1>4, <1>5 DEF Good
<1>7. Full(e) /\ Grows(tx, e)
  BY <1>3, <1>5, <1>6, SameHistoryFull
<1>8. HeldInv'
  BY <1>1, GrowsItself, HeldGrows DEF FullInv, TablesInv
<1>9. RunInv'
  BY <1>1, <1>2 DEF FullInv, TablesInv, RunInv
<1>10. QED
  BY <1>1, <1>3, <1>7, <1>8, <1>9, GrowsFurther DEF TablesInv

LEMMA MirrorRecordKeepsTables == ASSUME FullInv, MirrorRecord PROVE TablesInv'
<1> DEFINE n == Len(tx.raws)
           r == Len(tx.runs)
           entry == batch[pos]
           e == mirrored(tx, entry, n, r)
<1>1. /\ phase = "records" /\ pos <= Len(batch) /\ tx' = e /\ pos' = pos + 1
      /\ UNCHANGED <<db, owner, job, held, phase, feed, batch, started>>
  BY DEF MirrorRecord
<1>2. Full(tx) /\ Good(tx) /\ Full(db) /\ owner # None /\ Grows(db, tx)
  BY <1>1 DEF FullInv, TablesInv, Full, Inv, OwnerInv
<1>3. batch \in Batch /\ pos \in Nat \ {0} /\ counts \in Counts
  BY <1>1 DEF FullInv, Inv, BatchInv
<1>4. pos \in DOMAIN batch /\ pos + 1 \in Nat
  <2> DEFINE T == [id : Dataset, record : Record]
  <2>1. batch \in Seq(T)
    BY <1>3 DEF Batch
  <2> HIDE DEF T
  <2>2. QED
    BY <1>1, <1>3, <2>1
<1>5. entry \in [id : Dataset, record : Record]
  <2>1. /\ entry.id \in Dataset /\ entry.record \in Record
        /\ entry = [id |-> entry.id, record |-> entry.record]
    BY <1>3, <1>4, EntryFacts
  <2> HIDE DEF entry
  <2>2. QED
    BY <2>1
<1>6. n \in Nat /\ r \in Nat
  <2> DEFINE S == Batch \cup NoticeBatch
             R == RunRow
  <2>1. tx.raws \in Seq(S) /\ tx.runs \in Seq(R)
    BY <1>2 DEF Good
  <2> HIDE DEF S, R
  <2>2. QED
    BY <2>1
<1>7. Full(e) /\ Grows(tx, e)
  <2> HIDE DEF entry, n, r
  <2>1. r \in Nat \cup {None}
    BY <1>6
  <2>2. QED
    BY <1>2, <1>5, <1>6, <2>1, MirroredFull
<1> HIDE DEF e
<1>8. HeldInv'
  BY <1>1, GrowsItself, HeldGrows DEF FullInv, TablesInv
<1>9. counts' \in Counts
  <2>1. \/ counts' = [counts EXCEPT !.new = @ + 1] \/ counts' = [counts EXCEPT !.unchanged = @ + 1]
        \/ counts' = [counts EXCEPT !.updated = @ + 1]
    BY Zenon DEF MirrorRecord
  <2>2. QED
    BY <1>3, <2>1 DEF Counts
<1>10. RunInv'
  BY <1>1, <1>4, <1>9 DEF FullInv, TablesInv, RunInv
<1>11. QED
  BY <1>1, <1>2, <1>7, <1>8, <1>10, GrowsFurther DEF TablesInv

\* The last write of a run that succeeded: its scores.
LEMMA FinishedFull ==
    ASSUME NEW d, Full(d), Len(d.runs) > 0, NEW received \in Nat, NEW counted,
           counted.new \in Nat, counted.unchanged \in Nat
    PROVE  LET e == score_everything(finish_run(d, "SUCCESS", received, counted))
           IN Full(e) /\ Grows(d, e)
<1> DEFINE e == finish_run(d, "SUCCESS", received, counted)
<1>1. "SUCCESS" \in {"SUCCESS", "FAILED"}
  OBVIOUS
<1>2. Full(e) /\ Grows(d, e)
  BY <1>1, FinishFull
<1> HIDE DEF e
<1>3. Full(score_everything(e)) /\ Grows(e, score_everything(e))
  BY <1>2, ScoredFull
<1>4. QED
  BY <1>2, <1>3, GrowsFurther DEF e

LEMMA SucceedKeepsTables == ASSUME FullInv, Succeed PROVE TablesInv'
<1> DEFINE a == reconcile_planned_to_open(tx)
           received == Len(batch)
           b == score_everything(finish_run(a, "SUCCESS", received, counts))
<1>1. phase = "records" /\ db' = b /\ Close /\ UNCHANGED <<job, held, started>>
  BY Zenon DEF Succeed
<1>2. Full(tx) /\ owner # None /\ Grows(db, tx) /\ Inv
  BY <1>1 DEF FullInv, TablesInv, Inv, OwnerInv
<1>3. Len(tx.runs) > 0 /\ Good(tx)
  BY <1>2, RunNotEmpty
<1>4. Full(a) /\ Grows(tx, a) /\ a.runs = tx.runs
  BY <1>2, <1>3, ReconcileFull, ReconcileFacts
<1>5. counts.new \in Nat /\ counts.unchanged \in Nat
  BY DEF FullInv, TablesInv, RunInv, Counts
<1>6. received \in Nat
  <2> DEFINE T == [id : Dataset, record : Record]
  <2>1. batch \in Seq(T)
    BY DEF FullInv, TablesInv, RunInv, Batch
  <2> HIDE DEF T
  <2>2. QED
    BY <2>1
<1> HIDE DEF a, received
<1>7. Full(b) /\ Grows(a, b)
  BY <1>3, <1>4, <1>5, <1>6, FinishedFull
<1> HIDE DEF b
<1>8. QED
  BY <1>1, <1>2, <1>4, <1>7, GrowsFurther, EndKeeps

LEMMA WatchNiaKeepsTables == ASSUME FullInv, WatchNia PROVE TablesInv'
<1>1. phase = "fetch" /\ feed = "nia_procurement" /\ Close /\ UNCHANGED <<job, held, started>>
  BY DEF WatchNia
<1>2. PICK notices \in Feeds[feed] :
         db' = score_everything(
                  finish_run(link_signals_to_datasets(upsert_signals(tx, notices)), "SUCCESS",
                             Len(notices), SignalCounts(tx, notices)))
  BY Zenon DEF WatchNia
<1>3. notices \in NoticeBatch /\ Distinct(notices)
  BY <1>1, <1>2, CatalogAssumption
<1> DEFINE a == upsert_signals(tx, notices)
           l == link_signals_to_datasets(a)
           received == Len(notices)
           counted == SignalCounts(tx, notices)
           b == score_everything(finish_run(l, "SUCCESS", received, counted))
<1>4. Full(tx) /\ owner # None /\ Grows(db, tx) /\ Inv
  BY <1>1 DEF FullInv, TablesInv, Inv, OwnerInv
<1>5. Len(tx.runs) > 0
  BY <1>4, RunNotEmpty
<1>6. Full(a) /\ Grows(tx, a) /\ a.runs = tx.runs
  BY <1>3, <1>4, UpsertFull
<1>7. received \in Nat /\ counted.new \in Nat /\ counted.unchanged \in Nat
  BY <1>3, SignalCountsType
<1> HIDE DEF a, received, counted
<1>8. Full(l) /\ SameTables(a, l)
  BY <1>6, LinkFull
<1>9. Grows(a, l) /\ l.runs = a.runs
  BY <1>8 DEF Grows, SameTables, DatasetIds, SignalIds
<1> HIDE DEF l
<1>10. Full(b) /\ Grows(l, b)
  BY <1>5, <1>6, <1>7, <1>8, <1>9, FinishedFull
<1>11. db' = b
  BY <1>2 DEF a, l, received, counted
<1> HIDE DEF b
<1>12. QED
  BY <1>1, <1>4, <1>6, <1>9, <1>10, <1>11, GrowsFurther, EndKeeps

LEMMA FailKeepsTables == ASSUME FullInv, Fail PROVE TablesInv'
<1>1. /\ phase # "idle" /\ db' = finish_run(tx, "FAILED", 0, NoCounts) /\ Close
      /\ UNCHANGED <<job, held, started>>
  BY Zenon DEF Fail
<1>2. Full(tx) /\ owner # None /\ Grows(db, tx) /\ Inv
  BY <1>1 DEF FullInv, TablesInv, Inv, OwnerInv
<1>3. Len(tx.runs) > 0
  BY <1>2, RunNotEmpty
<1>4. NoCounts.new \in Nat /\ NoCounts.unchanged \in Nat /\ "FAILED" \in {"SUCCESS", "FAILED"} /\ 0 \in Nat
  BY DEF NoCounts
<1>5. Full(db') /\ Grows(tx, db')
  BY <1>1, <1>2, <1>3, <1>4, FinishFull
<1>6. QED
  BY <1>1, <1>2, <1>5, GrowsFurther, EndKeeps

LEMMA RollBackKeepsTables == ASSUME FullInv, RollBack PROVE TablesInv'
<1>1. Close /\ UNCHANGED <<db, job, held, started>>
  BY DEF RollBack
<1>2. Full(db') /\ Grows(db, db')
  BY <1>1, GrowsItself DEF FullInv, TablesInv
<1>3. QED
  BY <1>1, <1>2, EndKeeps

\* The score of the dataset whose row was read before the transaction.
LEMMA QueuedFull ==
    ASSUME NEW d, Full(d), NEW x \in Dataset, NEW score \in Score
    PROVE  Full([d EXCEPT !.queue[x] = score]) /\ SameTables(d, [d EXCEPT !.queue[x] = score])
<1> DEFINE q == [d.queue EXCEPT ![x] = score]
           e == [d EXCEPT !.queue = q]
<1>1. Good(d) /\ Tables(d)
  BY DEF Full
<1>2. q \in [Dataset -> Score \cup {None}]
  <2> DEFINE S == Score \cup {None}
  <2>1. d.queue \in [Dataset -> S] /\ score \in S
    BY <1>1 DEF Tables
  <2> HIDE DEF S
  <2>2. QED
    BY <2>1 DEF S
<1> HIDE DEF q
<1>3. /\ e = [f \in Fields |-> e[f]] /\ SameTables(d, e) /\ e.events = d.events /\ e.links = d.links
      /\ e.overrides = d.overrides /\ e.ranks = d.ranks /\ e.queue = q
  BY <1>1 DEF Good, Fields, SameTables
<1> HIDE DEF e
<1>4. Good(e)
  BY <1>1, <1>3, SameTablesGood
<1>5. Tables(e)
  BY <1>1, <1>2, <1>3 DEF Tables
<1>6. Newest(e) /\ Explained(e)
  BY <1>3 DEF Full, Newest, Explained, SameTables
<1>7. QED
  BY <1>3, <1>4, <1>5, <1>6 DEF Full, e, q

LEMMA ScoreCommandKeepsTables ==
    ASSUME FullInv, NEW p \in Process, ScoreCommand(p) PROVE TablesInv'
<1> DEFINE read == held[p]
           score == ScoreOf(db, read.id, read.row)
           e == score_all(db, read.ids, read.signals)
           f == [e EXCEPT !.queue[read.id] = score]
<1>1. /\ job[p] = "score" /\ owner = None /\ db' = f
      /\ job' = [job EXCEPT ![p] = "none"] /\ held' = [held EXCEPT ![p] = None]
      /\ UNCHANGED <<tx, owner, run, started>>
  BY DEF ScoreCommand
<1>2. /\ read \in Reading /\ read.ids \subseteq DatasetIds(db) /\ read.signals \subseteq SignalIds(db)
      /\ Full(db)
  BY <1>1 DEF FullInv, TablesInv, HeldInv
<1>3. read.id \in Dataset /\ read.row \in Row
  BY <1>2 DEF Reading
<1> HIDE DEF read
<1>4. score \in Score
  BY <1>2, <1>3, ScoreType
<1>5. Full(e) /\ SameTables(db, e)
  <2> DEFINE ids == read.ids
             signals == read.signals
  <2>1. ids \in SUBSET DatasetIds(db) /\ signals \in SUBSET SignalIds(db) /\ Full(db)
    BY <1>2
  <2> HIDE DEF ids, signals
  <2>2. Full(score_all(db, ids, signals)) /\ SameTables(db, score_all(db, ids, signals))
    BY <2>1, ScoreFull
  <2>3. QED
    BY <2>2 DEF ids, signals
<1> HIDE DEF e, score
<1>6. Full(f) /\ SameTables(e, f)
  BY <1>3, <1>4, <1>5, QueuedFull
<1> HIDE DEF f
<1>7. Grows(db, db')
  BY <1>1, <1>5, <1>6 DEF Grows, SameTables, DatasetIds, SignalIds
<1>8. HeldInv'
  BY <1>1, <1>7, HeldCleared DEF FullInv, TablesInv
<1>9. QED
  BY <1>1, <1>6, <1>7, <1>8, StartedStays, WriteKeepsTables

LEMMA SetOverrideKeepsTables ==
    ASSUME FullInv, NEW p \in Process, SetOverride(p) PROVE TablesInv'
<1>1. /\ job[p] = "override" /\ owner = None /\ db' = replace_overrides(db, {held[p]})
      /\ job' = [job EXCEPT ![p] = "none"] /\ held' = [held EXCEPT ![p] = None]
      /\ UNCHANGED <<tx, owner, run, started>>
  BY DEF SetOverride
<1>2. held[p] \in HumanOverrides /\ Full(db)
  BY <1>1 DEF FullInv, TablesInv, HeldInv
<1>3. {held[p]} \in SUBSET Override
  BY <1>2, CatalogAssumption
<1>4. Full(db') /\ SameTables(db, db')
  BY <1>1, <1>2, <1>3, OverridesFull
<1>5. Grows(db, db')
  BY <1>4 DEF Grows, SameTables, DatasetIds, SignalIds
<1>6. HeldInv'
  BY <1>1, <1>5, HeldCleared DEF FullInv, TablesInv
<1>7. QED
  BY <1>1, <1>4, <1>5, <1>6, StartedStays, WriteKeepsTables

LEMMA FullNext == FullInv /\ [Next]_vars => FullInv'
<1> SUFFICES ASSUME FullInv, [Next]_vars PROVE FullInv'
  OBVIOUS
<1>0. Inv'
  BY InvNext DEF FullInv
<1>1. CASE UNCHANGED vars
  <2>1. HeldInv'
    BY <1>1, GrowsItself, HeldGrows DEF FullInv, TablesInv, vars
  <2>2. started' \in 0..MaxJobs
    BY <1>1, StartedStays DEF vars
  <2>3. QED
    BY <1>0, <1>1, <2>1, <2>2, ReadKeepsTables DEF vars, FullInv
<1>2. ASSUME NEW p \in Process,
             \/ Bootstrap(p) \/ StartRun(p) \/ Acquire(p) \/ Busy(p)
             \/ StartScore(p) \/ ScoreCommand(p) \/ StartOverride(p) \/ SetOverride(p)
      PROVE  TablesInv'
  BY <1>2, BootstrapKeepsTables, StartRunKeepsTables, AcquireKeepsTables, BusyKeepsTables,
     StartScoreKeepsTables, ScoreCommandKeepsTables, StartOverrideKeepsTables, SetOverrideKeepsTables
<1>3. ASSUME Fetch \/ MirrorRecord \/ Succeed \/ WatchNia \/ Fail \/ RollBack PROVE TablesInv'
  BY <1>3, FetchKeepsTables, MirrorRecordKeepsTables, SucceedKeepsTables, WatchNiaKeepsTables,
     FailKeepsTables, RollBackKeepsTables
<1>4. QED
  BY <1>0, <1>1, <1>2, <1>3 DEF Next, FullInv

LEMMA FullAlways == Spec => []FullInv
  BY FullInit, FullNext, PTL DEF Spec

LEMMA FullIsTyped == ASSUME NEW d, Full(d) PROVE d \in Database
<1> DEFINE A == [Dataset -> Row \cup {None}]
           B == [Dataset -> Seq(Event)]
           C == Seq(Batch \cup NoticeBatch)
           D == Seq(RunRow)
           E == [Signal -> SignalRow \cup {None}]
           F == [Signal \X Dataset -> 0..100]
           G == [Dataset \X SeedDimension -> Seq(OverrideRow)]
           H == [Dataset -> Score \cup {None}]
           I == [Signal -> Recommendations \cup {None}]
<1>1. /\ d = [f \in Fields |-> d[f]] /\ d.rows \in A /\ d.events \in B /\ d.raws \in C
      /\ d.runs \in D /\ d.signals \in E /\ d.links \in F /\ d.overrides \in G /\ d.queue \in H
      /\ d.ranks \in I
  BY DEF Full, Good, Tables
<1>2. Database = [rows : A, events : B, raws : C, runs : D, signals : E, links : F, overrides : G,
                  queue : H, ranks : I]
  BY DEF Database
<1> HIDE DEF A, B, C, D, E, F, G, H, I
<1>3. d = [rows |-> d.rows, events |-> d.events, raws |-> d.raws, runs |-> d.runs,
           signals |-> d.signals, links |-> d.links, overrides |-> d.overrides,
           queue |-> d.queue, ranks |-> d.ranks]
  BY <1>1 DEF Fields
<1>4. QED
  BY <1>1, <1>2, <1>3

\* Every table of the catalogue, committed or being written, has its type,
\* scores and confidences their range: for any batches a source may serve.
THEOREM CatalogTypeCorrect == Spec => []TypeOK
<1>1. ASSUME FullInv PROVE TypeOK
  <2>1. db \in Database /\ tx \in Database
    BY <1>1, FullIsTyped DEF FullInv, TablesInv
  <2>2. HeldInv /\ RunInv
    BY <1>1 DEF FullInv, TablesInv
  <2>3. QED
    BY <2>1, <2>2, Zenon DEF TypeOK, HeldInv, RunInv, Reading
<1>2. QED
  BY <1>1, FullAlways, PTL

\* The events of a dataset are the history of its row, through failed runs,
\* links, links undone and rows set back by a bootstrap, whatever the
\* sources serve and in whatever order the commands write.
THEOREM EventsAreExplained == Spec => []EventsExplainRows
<1>1. FullInv => EventsExplainRows
  BY DEF FullInv, TablesInv, Full, Explained, EventsExplainRows
<1>2. QED
  BY <1>1, FullAlways, PTL

\* A dimension has no active override but the newest that was set, however
\* many reviewers and bootstraps write after they have read the same state.
THEOREM NewestInForce == Spec => []OneOverrideInForce
<1>1. FullInv => OneOverrideInForce
  BY DEF FullInv, TablesInv, Full, Newest, NewestActive, OneOverrideInForce
<1>2. QED
  BY <1>1, FullAlways, PTL

\* "bootstrap is idempotent" (docs/runbook.md:13), in every state commands can
\* reach and for any seed files: a second bootstrap leaves rows, histories,
\* links, overrides, scores and ranks as the first one made them.
THEOREM BootstrapChangesNothing == Spec => []BootstrapIdempotent
<1>1. FullInv => BootstrapIdempotent
  BY BootstrapTwice DEF FullInv, TablesInv, BootstrapIdempotent
<1>2. QED
  BY <1>1, FullAlways, PTL
=============================================================================
