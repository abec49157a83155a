------------------------- MODULE AirportRecordProofs -------------------------
(***************************************************************************)
(* What the records of a manifest tell, for any tables of the providers    *)
(* and any hour of the day: their quality and their departures.            *)
(***************************************************************************)
EXTENDS AirportHistoryProofs, AirportRecord, WellFoundedInduction

(***************************************************************************)
(* The records: what the observations they are made of can be relied on    *)
(* for.  An answer has a page, is PARTIAL exactly when it lacks something, *)
(* and only a weather source is left out as not due.                       *)
(***************************************************************************)
Reliable(s, o) ==
    /\ o.status \in Success =>
          /\ o.content \in Content \ {<<>>}
          /\ o.status = "PARTIAL" <=> _missing_fields(s, o.content)
    /\ o.status = "SKIPPED_NOT_DUE" => o.cause = "none" /\ s \in Weather

ReliableInv ==
    /\ \A s \in Source : obs[s] # None => Reliable(s, obs[s])
    /\ \A r \in Run : manifests[r] # None => \A s \in Source : Reliable(s, manifests[r].obs[s])

ObservesReliably ==
    \/ obs' = obs
    \/ \E o \in Observation : src \in Source /\ Reliable(src, o) /\ obs' = [obs EXCEPT ![src] = o]

LEMMA PageReliable == ASSUME Inv1, FixturePage \/ LivePage PROVE ObservesReliably
<1>1. PICK body \in Body : InLoop /\ Respond(body)
  BY BodiesAssumption DEF FixturePage, LivePage, Asking
<1> DEFINE content == Append(pages, body)
           duplicate == mem.sources[src] # None /\ mem.sources[src].content = content
           status == IF _missing_fields(src, content) THEN "PARTIAL"
                     ELSE IF duplicate THEN "DUPLICATE" ELSE "OK"
           o == [status |-> status, content |-> content, stored |-> ~duplicate, cause |-> "none"]
<1>2. CASE UNCHANGED <<mem, pos, obs, payloads>>
  BY <1>2 DEF ObservesReliably
<1>3. CASE Accept(content)
  <2>1. content \in Content \ {<<>>} /\ (~duplicate) \in BOOLEAN
    BY DEF Inv1, TypeInv, TypeOK, Content
  <2>2. status \in Success /\ (status = "PARTIAL" <=> _missing_fields(src, content))
    BY Zenon DEF Success
  <2>3. obs' = [obs EXCEPT ![src] = o]
    BY <1>3 DEF Accept, Observed
  <2>4. src \in Source
    BY <1>1, SrcType DEF Inv1, TypeInv
  <2> HIDE DEF content, status, duplicate
  <2>5. o \in Observation
    BY <2>1, <2>2 DEF Observation, Statuses, Causes
  <2>6. Reliable(src, o)
    <3>1. o.status = status /\ o.content = content
      OBVIOUS
    <3>2. status # "SKIPPED_NOT_DUE"
      BY <2>2 DEF Success
    <3> HIDE DEF o
    <3>3. QED
      BY <2>1, <2>2, <3>1, <3>2 DEF Reliable
  <2>7. QED
    BY <2>3, <2>4, <2>5, <2>6 DEF ObservesReliably
<1>4. QED
  BY <1>1, <1>2, <1>3 DEF Respond

LEMMA LoopReliable == ASSUME Inv1, LoopStep PROVE ObservesReliably
<1>1. CASE CircuitOpen
  <2> DEFINE o == [status |-> "ERROR", content |-> None, stored |-> FALSE, cause |-> "circuit"]
  <2>1. o \in Observation /\ Reliable(src, o)
    BY DEF Observation, Statuses, Causes, Reliable, Success
  <2>2. src \in Source /\ obs' = [obs EXCEPT ![src] = o]
    BY <1>1, SrcType DEF CircuitOpen, Observed, Inv1, TypeInv
  <2>3. QED
    BY <2>1, <2>2 DEF ObservesReliably
<1>2. CASE SkipNotDue
  <2> DEFINE content == IF mem.sources[src] = None THEN None ELSE mem.sources[src].content
             o == [status |-> "SKIPPED_NOT_DUE", content |-> content, stored |-> FALSE,
                   cause |-> "none"]
  <2>1. content \in Content \cup {None}
    BY <1>2, SrcType DEF SkipNotDue, Inv1, TypeInv, TypeOK, StateFile, Entry
  <2>2. src \in Source /\ src \in Weather /\ obs' = [obs EXCEPT ![src] = o]
    BY <1>2, SrcType DEF SkipNotDue, Observed, _is_due, Inv1, TypeInv
  <2> HIDE DEF content
  <2>3. o \in Observation /\ Reliable(src, o)
    BY <2>1, <2>2 DEF Observation, Statuses, Causes, Reliable, Success
  <2>4. QED
    BY <2>2, <2>3 DEF ObservesReliably
<1>3. CASE FixturePage \/ LivePage
  BY <1>3, PageReliable
<1>4. CASE RequestFails \/ CredentialMissing \/ FixtureMissing
  <2>1. PICK kind \in Causes : InLoop /\ Fail(kind)
    BY <1>4, FailureKind
  <2> DEFINE o == [status |-> "ERROR", content |-> None, stored |-> FALSE, cause |-> kind]
  <2>2. o \in Observation /\ Reliable(src, o)
    BY DEF Observation, Statuses, Reliable, Success
  <2>3. src \in Source /\ obs' = [obs EXCEPT ![src] = o]
    BY <2>1, SrcType DEF Fail, Observed, Inv1, TypeInv
  <2>4. QED
    BY <2>2, <2>3 DEF ObservesReliably
<1>5. QED
  BY <1>1, <1>2, <1>3, <1>4 DEF LoopStep

LEMMA NextReliable == ASSUME Inv1, ReliableInv, [Next]_vars PROVE ReliableInv'
<1>1. CASE LoopStep
  <2>1. manifests' = manifests
    BY <1>1 DEF LoopStep, CircuitOpen, SkipNotDue, FixturePage, LivePage, RequestFails,
                CredentialMissing, FixtureMissing, Fail, disk
  <2>2. ASSUME NEW s \in Source, obs'[s] # None PROVE Reliable(s, obs'[s])
    <3>1. ObservesReliably
      BY <1>1, LoopReliable
    <3>2. CASE obs' = obs
      BY <2>2, <3>2 DEF ReliableInv
    <3>3. ASSUME NEW o \in Observation, src \in Source, Reliable(src, o),
                 obs' = [obs EXCEPT ![src] = o]
          PROVE  Reliable(s, obs'[s])
      <4>1. obs'[s] = IF s = src THEN o ELSE obs[s]
        BY <3>3 DEF Inv1, TypeInv, TypeOK
      <4>2. QED
        BY <2>2, <3>3, <4>1 DEF ReliableInv
    <3>4. QED
      BY <3>1, <3>2, <3>3 DEF ObservesReliably
  <2>3. QED
    BY <2>1, <2>2 DEF ReliableInv, Reliable
<1>2. CASE NormalizeFails \/ WriteState \/ Crash
  BY <1>2 DEF NormalizeFails, WriteState, Crash, ProcessGone, disk, ReliableInv, Reliable
<1>3. CASE Start \/ WriteMember \/ UNCHANGED vars
  BY <1>3 DEF Start, WriteMember, vars, disk, request, ReliableInv, Reliable
<1>4. CASE WriteManifest
  <2>1. obs \in [Source -> Observation] /\ obs' = obs
    BY <1>4, AllObserved DEF WriteManifest, request
  <2>2. \A r \in Run : manifests'[r] # None =>
           manifests'[r] = manifests[r] \/ manifests'[r].obs = obs
    BY <1>4 DEF WriteManifest, Inv1, TypeInv, TypeOK
  <2>3. \A s \in Source : obs[s] # None
    BY <2>1, NoneAssumption
  <2>4. \A s \in Source : Reliable(s, obs[s])
    BY <2>3 DEF ReliableInv
  <2>5. QED
    BY <2>1, <2>2, <2>4 DEF ReliableInv, Reliable
<1>5. QED
  BY <1>1, <1>2, <1>3, <1>4 DEF Next, Step, LoopStep

LEMMA SpecReliable == Spec => [](Inv1 /\ ReliableInv)
<1>1. Init => Inv1 /\ ReliableInv
  BY InitType, InitProgress DEF Inv1, Init, ReliableInv
<1>2. (Inv1 /\ ReliableInv) /\ [Next]_vars => (Inv1 /\ ReliableInv)'
  BY NextInv1, NextReliable
<1>3. QED
  BY <1>1, <1>2, PTL DEF Spec

(***************************************************************************)
(* The quality of a record.                                                *)
(***************************************************************************)
Tells(c, a, s, o) ==
    \/ o.cause = "none" /\ o.status = "SKIPPED_NOT_DUE" /\ s \in Weather
    \/ /\ o.status \in Success /\ ~_missing_fields(s, o.content)
       /\ c \in {"process_time", "congestion"} =>
             \E k \in DOMAIN o.content : a \in Tables[o.content[k]].named
       /\ c \in {"parking", "parking_congestion"} =>
             \E k \in DOMAIN o.content : \E i \in DOMAIN Tables[o.content[k]].lots :
                Tables[o.content[k]].lots[i].airport = a

LEMMA LotsThere ==
    ASSUME NEW o, NEW a
    PROVE  LotsOf(o, a) # {} <=>
              \E k \in DOMAIN Parsed(o) : \E i \in DOMAIN Tables[Parsed(o)[k]].lots :
                 Tables[Parsed(o)[k]].lots[i].airport = a
<1> DEFINE lots(k) == Tables[Parsed(o)[k]]["lots"]
<1>1. ASSUME NEW k \in DOMAIN Parsed(o), NEW i \in DOMAIN lots(k), lots(k)[i].airport = a
      PROVE  LotsOf(o, a) # {}
  <2>1. <<k, i>> \in Rows(o, "lots") /\ RowAt(o, "lots", <<k, i>>) = lots(k)[i]
    BY DEF Rows, RowAt
  <2>2. <<k, i>> \in LotsOf(o, a)
    BY <1>1, <2>1 DEF LotsOf
  <2>3. QED
    BY <2>2
<1>2. ASSUME NEW p \in LotsOf(o, a)
      PROVE  \E k \in DOMAIN Parsed(o) : \E i \in DOMAIN lots(k) : lots(k)[i].airport = a
  <2>1. PICK k \in DOMAIN Parsed(o) : p \in {k} \X DOMAIN lots(k)
    BY DEF LotsOf, Rows
  <2>2. p[1] = k /\ p[2] \in DOMAIN lots(k) /\ RowAt(o, "lots", p) = lots(k)[p[2]]
    BY <2>1 DEF RowAt
  <2>3. RowAt(o, "lots", p).airport = a
    BY DEF LotsOf
  <2>4. QED
    BY <2>2, <2>3
<1>3. QED
  BY <1>1, <1>2

LEMMA ComponentTells ==
    ASSUME NEW c \in Components, NEW a \in Airport, NEW o \in Observation,
           Reliable(SourceOf[c][a], o)
    PROVE  (~Flagged(o.status) /\ HasValue(c, o, a)) <=> Tells(c, a, SourceOf[c][a], o)
<1> DEFINE s == SourceOf[c][a]
<1>1. o.status \in Statuses
  BY DEF Observation
<1>2. CASE o.status = "ERROR"
  BY <1>2 DEF Flagged, Tells, Success
<1>3. CASE o.status = "PARTIAL"
  BY <1>3 DEF Flagged, Tells, Success, Reliable
<1>4. CASE o.status = "SKIPPED_NOT_DUE"
  <2>1. s \in Weather /\ o.cause = "none"
    BY <1>4 DEF Reliable
  <2>2. c \in {"weather", "weather_warning"}
    BY <2>1, RecordAssumption
  <2>3. HasValue(c, o, a)
    BY <1>4, <2>2 DEF HasValue
  <2>4. QED
    BY <1>4, <2>1, <2>3 DEF Flagged, Tells
<1>5. CASE o.status \in {"OK", "DUPLICATE"}
  <2>1. Parsed(o) = o.content /\ o.content # <<>> /\ ~_missing_fields(s, o.content)
    BY <1>5 DEF Parsed, Success, Reliable
  <2>2. o.status \in Success /\ ~Flagged(o.status) /\ o.status # "SKIPPED_NOT_DUE"
    BY <1>5 DEF Success, Flagged
  <2>3. CASE c \in {"process_time", "congestion"}
    <3>1. HasValue(c, o, a) <=> Names(o, a)
      BY <2>3 DEF HasValue
    <3>2. QED
      BY <2>1, <2>2, <2>3, <3>1 DEF Names, Tells
  <2>4. CASE c \in {"parking", "parking_congestion"}
    <3>1. HasValue(c, o, a) <=> LotsOf(o, a) # {}
      BY <2>2, <2>4 DEF HasValue
    <3>2. QED
      BY <2>1, <2>2, <2>4, <3>1, LotsThere DEF Tells
  <2>5. CASE c \notin {"process_time", "congestion", "parking", "parking_congestion"}
    <3>1. HasValue(c, o, a)
      BY <2>1, <2>5 DEF HasValue
    <3>2. QED
      BY <2>1, <2>2, <2>5, <3>1 DEF Tells
  <2>6. QED
    BY <2>3, <2>4, <2>5
<1>6. QED
  BY <1>1, <1>2, <1>3, <1>4, <1>5 DEF Statuses, Success

LEMMA QualityOf ==
    ASSUME NEW observations, NEW a, NEW local
    PROVE  Record(observations, a, local).quality = "OK" <=>
              \A c \in Components :
                 LET o == observations[SourceOf[c][a]]
                 IN ~Flagged(o.status) /\ HasValue(c, o, a)
<1> DEFINE o == [c \in Components |-> observations[SourceOf[c][a]]]
           missing == {c \in Components : Flagged(o[c].status)}
           valueless == {c \in Components : ~HasValue(c, o[c], a)}
<1>1. Record(observations, a, local).quality =
         IF missing \cup valueless = {} THEN "OK" ELSE "PARTIAL"
  BY DEF Record
<1>2. missing \cup valueless = {} <=>
         \A c \in Components : ~Flagged(o[c].status) /\ HasValue(c, o[c], a)
  OBVIOUS
<1>3. \A c \in Components : o[c] = observations[SourceOf[c][a]]
  OBVIOUS
<1> HIDE DEF o, missing, valueless
<1>4. QED
  BY <1>1, <1>2, <1>3

\* The newest manifest, for any run that has left one.
LEMMA NewestManifest ==
    ASSUME Inv1, ReliableInv, run > 0, manifests[run] # None
    PROVE  /\ manifests[run] \in Manifest
           /\ \A s \in Source : manifests[run].obs[s] \in Observation
           /\ \A s \in Source : Reliable(s, manifests[run].obs[s])
<1>1. run \in Run
  BY DEF Inv1, TypeInv, TypeOK, Run
<1>2. manifests[run] \in Manifest
  BY <1>1 DEF Inv1, TypeInv, TypeOK
<1>3. QED
  BY <1>1, <1>2 DEF ReliableInv, Manifest

LEMMA QualityTells == Inv1 /\ ReliableInv => RecordsTellGaps
<1> SUFFICES ASSUME Inv1, ReliableInv, run > 0, manifests[run] # None, NEW a \in Airport
             PROVE  records(manifests[run])[a].quality = "OK" <=>
                       \A c \in Components :
                          Tells(c, a, SourceOf[c][a], manifests[run].obs[SourceOf[c][a]])
  BY DEF RecordsTellGaps, Tells
<1> DEFINE m == manifests[run]
<1>1. records(m)[a] = Record(m.obs, a, Epoch + m.collected_at)
  BY DEF records, normalize_records
<1>2. ASSUME NEW c \in Components
      PROVE  (~Flagged(m.obs[SourceOf[c][a]].status) /\ HasValue(c, m.obs[SourceOf[c][a]], a))
                <=> Tells(c, a, SourceOf[c][a], m.obs[SourceOf[c][a]])
  <2>1. SourceOf[c][a] \in Source
    BY RecordAssumption
  <2>2. m.obs[SourceOf[c][a]] \in Observation /\ Reliable(SourceOf[c][a], m.obs[SourceOf[c][a]])
    BY <2>1, NewestManifest
  <2> HIDE DEF m
  <2>3. QED
    BY <2>2, ComponentTells
<1> HIDE DEF m
<1>3. QED
  BY <1>1, <1>2, QualityOf DEF m

\* A record is OK exactly when each of its components was not due or answered
\* in full, and with a value where the code reads one off the answer.
THEOREM QualityIsExact == Spec => []RecordsTellGaps
<1>1. Inv1 /\ ReliableInv => RecordsTellGaps
  BY QualityTells
<1>2. QED
  BY <1>1, SpecReliable, PTL

(***************************************************************************)
(* Two finite sets whose members are dated, as many on every date, are     *)
(* equally large: the first date up to which they differ would be the day  *)
(* after one on which they do.                                             *)
(***************************************************************************)
UpTo(set, dateOf, j) == {p \in set : dateOf[p] < j}
On(set, dateOf, t) == {p \in set : dateOf[p] = t}

LEMMA OneMoreDate ==
    ASSUME NEW set, IsFiniteSet(set), NEW dateOf \in [set -> Nat], NEW j \in Nat
    PROVE  /\ Cardinality(UpTo(set, dateOf, j)) \in Nat
           /\ Cardinality(On(set, dateOf, j)) \in Nat
           /\ Cardinality(UpTo(set, dateOf, j + 1)) =
                 Cardinality(UpTo(set, dateOf, j)) + Cardinality(On(set, dateOf, j))
<1> DEFINE old == UpTo(set, dateOf, j)
           new == On(set, dateOf, j)
<1>1. old \subseteq set /\ new \subseteq set /\ old \cap new = {}
  BY DEF UpTo, On
<1>2. UpTo(set, dateOf, j + 1) = old \cup new
  BY DEF UpTo, On
<1> HIDE DEF old, new
<1>3. IsFiniteSet(old) /\ IsFiniteSet(new)
  BY <1>1, FS_Subset
<1>4. Cardinality(old) \in Nat /\ Cardinality(new) \in Nat /\ Cardinality({}) = 0
  BY <1>3, FS_CardinalityType, FS_EmptySet
<1>5. Cardinality(old \cup new) = Cardinality(old) + Cardinality(new) - Cardinality(old \cap new)
  BY <1>3, FS_Union
<1>6. Cardinality(UpTo(set, dateOf, j + 1)) = Cardinality(old) + Cardinality(new)
  <2>1. Cardinality(old \cap new) = 0
    BY <1>1, <1>4
  <2>2. Cardinality(old \cup new) = Cardinality(old) + Cardinality(new)
    BY <1>4, <1>5, <2>1
  <2>3. QED
    BY <1>2, <2>2
<1>7. QED
  BY <1>4, <1>6, Zenon DEF old, new

LEMMA DateByDate ==
    ASSUME NEW A, IsFiniteSet(A), NEW f \in [A -> Nat],
           NEW B, IsFiniteSet(B), NEW g \in [B -> Nat], NEW last \in Nat,
           \A p \in A : f[p] <= last, \A q \in B : g[q] <= last,
           \A t \in Nat : Cardinality(On(A, f, t)) = Cardinality(On(B, g, t))
    PROVE  Cardinality(A) = Cardinality(B)
<1> DEFINE Same(j) == Cardinality(UpTo(A, f, j)) = Cardinality(UpTo(B, g, j))
           Differ == {j \in Nat : ~Same(j)}
           Before == {ss \in Nat \X Nat : ss[1] < ss[2]}
<1>1. Same(0)
  <2>1. UpTo(A, f, 0) = {} /\ UpTo(B, g, 0) = {}
    BY DEF UpTo
  <2>2. QED
    BY <2>1
<1>2. ASSUME NEW j \in Nat, Same(j) PROVE Same(j + 1)
  <2>1. Cardinality(On(A, f, j)) = Cardinality(On(B, g, j))
    OBVIOUS
  <2>2. QED
    BY <1>2, <2>1, OneMoreDate
<1> HIDE DEF Same
<1>3. Differ = {}
  <2> SUFFICES ASSUME Differ # {} PROVE FALSE
    OBVIOUS
  <2>1. IsWellFoundedOn(Before, Nat)
    <3>1. OpToRel(<, Nat) = Before
      BY DEF OpToRel
    <3> HIDE DEF Before
    <3>2. QED
      BY <3>1, NatLessThanWellFounded
  <2>2. PICK x \in Differ : \A y \in Differ : <<y, x>> \notin Before
    <3>1. Differ \subseteq Nat
      OBVIOUS
    <3> HIDE DEF Before, Differ
    <3>2. QED
      BY <2>1, <3>1, WFMin
  <2>3. x \in Nat /\ ~Same(x) /\ x # 0
    BY <1>1
  <2>4. x - 1 \in Nat /\ x - 1 < x /\ (x - 1) + 1 = x
    BY <2>3
  <2>5. x - 1 \notin Differ
    BY <2>2, <2>3, <2>4
  <2>6. Same(x - 1)
    BY <2>4, <2>5
  <2>7. Same((x - 1) + 1)
    BY <1>2, <2>4, <2>6
  <2>8. QED
    BY <2>3, <2>4, <2>7
<1>4. Same(last + 1)
  BY <1>3
<1>5. UpTo(A, f, last + 1) = A /\ UpTo(B, g, last + 1) = B
  BY DEF UpTo
<1>6. QED
  BY <1>4, <1>5 DEF Same

(***************************************************************************)
(* The clock: the day and the minute of a time, and what the window of a   *)
(* flight request holds of the next half hour.                             *)
(***************************************************************************)
LEMMA ClockParts ==
    ASSUME NEW t \in Nat
    PROVE  /\ LocalDay(t) \in Nat /\ MinuteOf(t) \in 0..(Minutes - 1)
           /\ t = LocalDay(t) * Minutes + MinuteOf(t)
  BY SMTT(60) DEF LocalDay, MinuteOf, Minutes

LEMMA OneDay ==
    ASSUME NEW day \in Nat, NEW then \in Nat, NEW minute \in 0..(Minutes - 1),
           NEW late \in 0..(Minutes - 1), day * Minutes + minute = then * Minutes + late
    PROVE  then = day
  BY SMTT(60) DEF Minutes

LEMMA SameDay ==
    ASSUME NEW day \in Nat, NEW minute \in 0..(Minutes - 1)
    PROVE  /\ day * Minutes + minute \in Nat
           /\ LocalDay(day * Minutes + minute) = day
<1> DEFINE at == day * Minutes + minute
<1>1. at \in Nat
  BY DEF Minutes
<1>2. /\ LocalDay(at) \in Nat /\ MinuteOf(at) \in 0..(Minutes - 1)
      /\ day * Minutes + minute = LocalDay(at) * Minutes + MinuteOf(at)
  BY <1>1, ClockParts
<1> HIDE DEF at
<1>3. LocalDay(at) = day
  BY <1>2, OneDay
<1>4. QED
  BY <1>1, <1>3 DEF at

LEMMA WindowReaches ==
    ASSUME NEW f \in Flight, NEW local \in Nat, InNextHalfHour(f.scheduled, local)
    PROVE  Requested(f, local) <=> LocalDay(f.scheduled) = LocalDay(local)
<1> DEFINE at == f.scheduled
<1>1. at \in Nat /\ local <= at /\ at <= local + 30
  BY DEF Flight, InNextHalfHour
<1>2. /\ LocalDay(local) \in Nat /\ MinuteOf(local) \in 0..(Minutes - 1)
      /\ local = LocalDay(local) * Minutes + MinuteOf(local)
      /\ LocalDay(at) \in Nat /\ MinuteOf(at) \in 0..(Minutes - 1)
      /\ at = LocalDay(at) * Minutes + MinuteOf(at)
  BY <1>1, ClockParts
<1> DEFINE day == LocalDay(local)
           then == LocalDay(at)
           minute == MinuteOf(local)
           late == MinuteOf(at)
<1> HIDE DEF at, day, then, minute, late
<1>3. /\ day \in Nat /\ then \in Nat /\ minute \in 0..(Minutes - 1) /\ late \in 0..(Minutes - 1)
      /\ local = day * Minutes + minute /\ at = then * Minutes + late
  BY <1>2 DEF day, then, minute, late
<1>4. ASSUME then = day
      PROVE  /\ _request_window(local).from <= late
             /\ late <= _request_window(local).to
  <2>1. minute <= late /\ late <= minute + 30
    BY <1>1, <1>3, <1>4, SMTT(60) DEF Minutes
  <2>2. /\ _request_window(local).from = IF minute - 60 < 0 THEN 0 ELSE minute - 60
        /\ _request_window(local).to =
              IF minute + 60 > Minutes - 1 THEN Minutes - 1 ELSE minute + 60
    BY DEF _request_window, minute
  <2>3. QED
    BY <1>3, <2>1, <2>2, SMTT(60) DEF Minutes
<1>5. QED
  BY <1>4, Zenon DEF Requested, at, day, then, late

(***************************************************************************)
(* The rows of an answer.                                                  *)
(***************************************************************************)
LEMMA RowsTyped ==
    ASSUME NEW o, Parsed(o) \in Content
    PROVE  /\ IsFiniteSet(Rows(o, "flights")) /\ IsFiniteSet(Rows(o, "timetable"))
           /\ \A p \in Rows(o, "flights") : RowAt(o, "flights", p) \in Flight
           /\ \A p \in Rows(o, "timetable") : RowAt(o, "timetable", p) \in Departure
<1> DEFINE Here == DOMAIN Parsed(o)
           table(k) == Tables[Parsed(o)[k]]
<1>1. \A k \in Here : Parsed(o)[k] \in Body
  BY DEF Content
<1>2. \A k \in Here : table(k) \in Table
  BY <1>1, RecordAssumption
<1>3. \A k \in Here : table(k).flights \in Seq(Flight) /\ table(k).timetable \in Seq(Departure)
  BY <1>2 DEF Table
<1>4. IsFiniteSet(Here)
  <2>1. Len(Parsed(o)) \in Nat /\ Here = 1..Len(Parsed(o))
    BY DEF Content
  <2>2. QED
    BY <2>1, FS_Interval
<1>5. ASSUME NEW field \in {"flights", "timetable"} PROVE IsFiniteSet(Rows(o, field))
  <2> DEFINE part(k) == {k} \X DOMAIN table(k)[field]
             parts == {part(k) : k \in Here}
  <2>1. ASSUME NEW k \in Here PROVE IsFiniteSet(part(k))
    <3> DEFINE n == Len(table(k)[field])
    <3>1. n \in Nat /\ DOMAIN table(k)[field] = 1..n
      BY <1>3
    <3>2. IsFiniteSet(1..n) /\ IsFiniteSet({k})
      <4>1. 1 \in Int /\ n \in Int
        BY <3>1
      <4> HIDE DEF n
      <4>2. IsFiniteSet(1..n)
        BY <4>1, FS_Interval
      <4>3. IsFiniteSet({k})
        BY FS_Singleton
      <4>4. QED
        BY <4>2, <4>3
    <3> HIDE DEF n
    <3>3. IsFiniteSet({k} \X (1..n))
      BY <3>2, FS_Product
    <3>4. QED
      BY <3>1, <3>3
  <2> HIDE DEF part
  <2>2. IsFiniteSet(parts)
    <3> DEFINE h == [k \in Here |-> part(k)]
    <3>1. h \in Surjection(Here, parts)
      BY DEF Surjection
    <3> HIDE DEF h, parts
    <3>2. QED
      BY <1>4, <3>1, FS_Surjection
  <2>3. \A set \in parts : IsFiniteSet(set)
    BY <2>1
  <2> HIDE DEF parts
  <2>4. IsFiniteSet(UNION parts)
    BY <2>2, <2>3, FS_UNION
  <2>5. UNION parts = Rows(o, field)
    BY DEF parts, part, Rows
  <2>6. QED
    BY <2>4, <2>5
<1>6. ASSUME NEW field \in {"flights", "timetable"}, NEW p \in Rows(o, field)
      PROVE  \E k \in Here : \E i \in DOMAIN table(k)[field] :
                RowAt(o, field, p) = table(k)[field][i]
  <2>1. PICK k \in Here : p \in {k} \X DOMAIN table(k)[field]
    BY DEF Rows
  <2>2. p[1] = k /\ p[2] \in DOMAIN table(k)[field]
    BY <2>1
  <2>3. QED
    BY <2>2 DEF RowAt
<1> HIDE DEF Here, table
<1>7. \A p \in Rows(o, "flights") : RowAt(o, "flights", p) \in Flight
  BY <1>3, <1>6
<1>8. \A p \in Rows(o, "timetable") : RowAt(o, "timetable", p) \in Departure
  BY <1>3, <1>6
<1>9. QED
  BY <1>5, <1>7, <1>8

LEMMA ParsedContent ==
    ASSUME NEW s, NEW o, Reliable(s, o)
    PROVE  Parsed(o) \in Content
<1>1. <<>> \in Content
  BY DEF Content
<1>2. QED
  BY <1>1 DEF Parsed, Reliable

(***************************************************************************)
(* The departures of a record.                                             *)
(***************************************************************************)
NextMinutes(local) == {at \in local..(local + 30) : LocalDay(at) = LocalDay(local)}

Scheduled(o, p) == RowAt(o, "flights", p).scheduled

DepartureAt(o, p, local) == _schedule_departure_at(RowAt(o, "timetable", p), local)

HalfHour(o, local) == {p \in Rows(o, "flights") : InNextHalfHour(Scheduled(o, p), local)}

Leaving(o, local) == {p \in HalfHour(o, local) : LocalDay(Scheduled(o, p)) = LocalDay(local)}

Irregular(o, flights) == {p \in flights : RowAt(o, "flights", p).remark # "none"}

Planned(o, at, local) == {p \in Rows(o, "timetable") : DepartureAt(o, p, local) = at}

\* The window that was asked for cuts off nothing of the half hour but midnight.
LEMMA UpcomingLeaves ==
    ASSUME NEW o, Parsed(o) \in Content, NEW local \in Nat
    PROVE  /\ Upcoming(o, local) = Leaving(o, local)
           /\ \A p \in Leaving(o, local) : Scheduled(o, p) \in NextMinutes(local)
<1>1. ASSUME NEW p \in Rows(o, "flights"), InNextHalfHour(Scheduled(o, p), local)
      PROVE  Requested(RowAt(o, "flights", p), local)
                <=> LocalDay(Scheduled(o, p)) = LocalDay(local)
  BY <1>1, RowsTyped, WindowReaches DEF Scheduled
<1>2. Upcoming(o, local) = Leaving(o, local)
  BY <1>1 DEF Upcoming, HalfHour, Leaving, Scheduled
<1>3. ASSUME NEW p \in Leaving(o, local) PROVE Scheduled(o, p) \in NextMinutes(local)
  <2>1. p \in Rows(o, "flights") /\ InNextHalfHour(Scheduled(o, p), local)
        /\ LocalDay(Scheduled(o, p)) = LocalDay(local)
    BY DEF Leaving, HalfHour
  <2>2. Scheduled(o, p) \in Nat
    BY <2>1, RowsTyped DEF Scheduled, Flight
  <2>3. QED
    BY <2>1, <2>2 DEF InNextHalfHour, NextMinutes
<1>4. QED
  BY <1>2, <1>3

\* The timetable is put on the local day, so that it leaves before midnight.
LEMMA TimetableLeaves ==
    ASSUME NEW o, Parsed(o) \in Content, NEW local \in Nat
    PROVE  TimetableUpcoming(o, local) =
              {p \in Rows(o, "timetable") : DepartureAt(o, p, local) \in NextMinutes(local)}
<1>1. ASSUME NEW p \in Rows(o, "timetable")
      PROVE  (/\ DepartureAt(o, p, local) # None
              /\ InNextHalfHour(DepartureAt(o, p, local), local))
                <=> DepartureAt(o, p, local) \in NextMinutes(local)
  <2> DEFINE row == RowAt(o, "timetable", p)
             at == DepartureAt(o, p, local)
             day == LocalDay(local)
  <2>1. row \in Departure
    BY RowsTyped
  <2>2. row.minute \in 0..(Minutes - 1) /\ day \in Nat
    BY <2>1, ClockParts DEF Departure
  <2>3. at = None \/ at = day * Minutes + row.minute
    BY DEF _schedule_departure_at, DepartureAt
  <2> HIDE DEF at, row, day
  <2>4. at # None => at \in Nat /\ LocalDay(at) = day
    BY <2>2, <2>3, SameDay
  <2>5. CASE at = None
    <3>1. at \notin NextMinutes(local)
      BY <2>5, NoneAssumption DEF NextMinutes
    <3>2. QED
      BY <2>5, <3>1 DEF at
  <2>6. CASE at # None
    <3>1. InNextHalfHour(at, local) <=> at \in local..(local + 30)
      BY <2>4, <2>6 DEF InNextHalfHour
    <3>2. QED
      BY <2>4, <2>6, <3>1 DEF NextMinutes, at, day
  <2>7. QED
    BY <2>5, <2>6
<1>2. QED
  BY <1>1 DEF TimetableUpcoming, DepartureAt

\* As many rows of the timetable as flights at every minute: no difference.
LEMMA NoDifference ==
    ASSUME NEW live, Parsed(live) \in Content, NEW plan, Parsed(plan) \in Content,
           NEW local \in Nat,
           \A at \in NextMinutes(local) :
              Cardinality(Planned(plan, at, local)) =
                 Cardinality({p \in Leaving(live, local) : Scheduled(live, p) = at})
    PROVE  /\ Cardinality(TimetableUpcoming(plan, local)) = Cardinality(Upcoming(live, local))
           /\ Cardinality(Upcoming(live, local)) \in Nat
<1> DEFINE A == TimetableUpcoming(plan, local)
           B == Upcoming(live, local)
           f == [p \in A |-> DepartureAt(plan, p, local)]
           g == [p \in B |-> Scheduled(live, p)]
<1>1. NextMinutes(local) \subseteq Nat /\ \A at \in NextMinutes(local) : at <= local + 30
  BY DEF NextMinutes
<1>2. /\ A = {p \in Rows(plan, "timetable") : DepartureAt(plan, p, local) \in NextMinutes(local)}
      /\ B = Leaving(live, local)
      /\ \A p \in B : Scheduled(live, p) \in NextMinutes(local)
  BY UpcomingLeaves, TimetableLeaves
<1>3. IsFiniteSet(A) /\ IsFiniteSet(B)
  <2>1. A \subseteq Rows(plan, "timetable") /\ B \subseteq Rows(live, "flights")
    BY <1>2 DEF Leaving, HalfHour
  <2> HIDE DEF A, B
  <2>2. QED
    BY <2>1, RowsTyped, FS_Subset
<1>4. /\ \A p \in A : DepartureAt(plan, p, local) \in NextMinutes(local)
      /\ \A p \in B : Scheduled(live, p) \in NextMinutes(local)
  BY <1>2
<1>5. ASSUME NEW t \in Nat PROVE Cardinality(On(A, f, t)) = Cardinality(On(B, g, t))
  <2>1. CASE t \in NextMinutes(local)
    <3>1. On(A, f, t) = Planned(plan, t, local)
      BY <1>2, <2>1 DEF On, Planned
    <3>2. On(B, g, t) = {p \in Leaving(live, local) : Scheduled(live, p) = t}
      BY <1>2 DEF On
    <3> HIDE DEF A, B, f, g
    <3>3. QED
      BY <2>1, <3>1, <3>2
  <2>2. CASE t \notin NextMinutes(local)
    <3>1. On(A, f, t) = {} /\ On(B, g, t) = {}
      BY <1>4, <2>2 DEF On
    <3> HIDE DEF A, B, f, g
    <3>2. QED
      BY <3>1
  <2>3. QED
    BY <2>1, <2>2
<1>6. /\ f \in [A -> Nat] /\ \A p \in A : f[p] <= local + 30
      /\ g \in [B -> Nat] /\ \A p \in B : g[p] <= local + 30
  BY <1>1, <1>4
<1>7. local + 30 \in Nat
  OBVIOUS
<1> HIDE DEF A, B, f, g
<1>8. Cardinality(A) = Cardinality(B)
  BY <1>3, <1>5, <1>6, <1>7, DateByDate
<1>9. QED
  BY <1>3, <1>8, FS_CardinalityType DEF A, B

\* A flight that leaves is late, cancelled or neither, and never two of them.
LEMMA Remarks ==
    ASSUME NEW o, Parsed(o) \in Content, NEW local \in Nat
    PROVE  LET leaving == Leaving(o, local)
               with(r) == {p \in leaving : RowAt(o, "flights", p).remark = r}
           IN Cardinality(with("delayed")) + Cardinality(with("cancelled")) =
                 Cardinality(Irregular(o, leaving))
<1> DEFINE leaving == Leaving(o, local)
           with(r) == {p \in leaving : RowAt(o, "flights", p).remark = r}
           delayed == with("delayed")
           cancelled == with("cancelled")
           remarked == Irregular(o, leaving)
<1>1. leaving \subseteq Rows(o, "flights")
  BY DEF Leaving, HalfHour
<1>2. \A p \in leaving : RowAt(o, "flights", p).remark \in {"none", "delayed", "cancelled"}
  BY <1>1, RowsTyped DEF Flight
<1>3. remarked = delayed \cup cancelled /\ delayed \cap cancelled = {}
  BY <1>2 DEF Irregular
<1>4. IsFiniteSet(leaving)
  <2> HIDE DEF leaving
  <2>1. QED
    BY <1>1, RowsTyped, FS_Subset
<1>5. delayed \subseteq leaving /\ cancelled \subseteq leaving
  OBVIOUS
<1> HIDE DEF leaving, delayed, cancelled, remarked
<1>6. IsFiniteSet(delayed) /\ IsFiniteSet(cancelled)
  BY <1>4, <1>5, FS_Subset
<1>7. Cardinality(delayed) \in Nat /\ Cardinality(cancelled) \in Nat
  BY <1>6, FS_CardinalityType
<1>8. Cardinality(delayed \cap cancelled) = 0
  BY <1>3, FS_EmptySet
<1>9. Cardinality(delayed \cup cancelled) =
         Cardinality(delayed) + Cardinality(cancelled) - Cardinality(delayed \cap cancelled)
  BY <1>6, FS_Union
<1>10. Cardinality(remarked) = Cardinality(delayed) + Cardinality(cancelled)
  BY <1>3, <1>7, <1>8, <1>9
<1>11. QED
  BY <1>10 DEF leaving, delayed, cancelled, remarked

LEMMA DeparturesOf ==
    ASSUME NEW observations, NEW a, NEW local,
           {"flight_status", "flight_schedule"} \subseteq Components,
           NEW live, live = observations[SourceOf["flight_status"][a]],
           NEW plan, plan = observations[SourceOf["flight_schedule"][a]],
           NEW rec, rec = Record(observations, a, local)
    PROVE  /\ rec.departures = Cardinality(Upcoming(live, local))
           /\ rec.delayed = Cardinality({p \in Upcoming(live, local) :
                                            RowAt(live, "flights", p).remark = "delayed"})
           /\ rec.cancelled = Cardinality({p \in Upcoming(live, local) :
                                              RowAt(live, "flights", p).remark = "cancelled"})
           /\ rec.difference = Cardinality(TimetableUpcoming(plan, local))
                                  - Cardinality(Upcoming(live, local))
           /\ rec.quality \in {"OK", "PARTIAL"}
<1> DEFINE o == [c \in Components |-> observations[SourceOf[c][a]]]
<1>1. /\ "flight_status" \in Components /\ "flight_schedule" \in Components
      /\ o["flight_status"] = live /\ o["flight_schedule"] = plan
  OBVIOUS
<1>2. QED
  BY <1>1 DEF Record

\* Without an answer nothing leaves, and the record says that it is PARTIAL.
LEMMA NoAnswerNoDeparture ==
    ASSUME NEW observations, NEW a \in Airport, NEW local, "flight_status" \in Components,
           NEW live \in Observation, live = observations[SourceOf["flight_status"][a]],
           Reliable(SourceOf["flight_status"][a], live), live.status \notin Success
    PROVE  /\ Upcoming(live, local) = {}
           /\ Record(observations, a, local).quality # "OK"
<1>1. Upcoming(live, local) = {}
  BY DEF Parsed, Rows, Upcoming
<1>2. live.status = "ERROR"
  <2>1. SourceOf["flight_status"][a] \notin Weather
    BY RecordAssumption
  <2>2. QED
    BY <2>1 DEF Reliable, Observation, Statuses
<1>3. Flagged(live.status)
  BY <1>2 DEF Flagged
<1>4. QED
  BY <1>1, <1>3, QualityOf

\* The day's departures of the half hour are among all of them, with their remarks.
LEMMA AmongHalfHour ==
    ASSUME NEW o, Parsed(o) \in Content, NEW local \in Nat
    PROVE  LET today == Leaving(o, local)
               all   == HalfHour(o, local)
           IN /\ Cardinality(today) \in Cardinality(today)..Cardinality(all)
              /\ Cardinality(Irregular(o, today)) \in
                    Cardinality(Irregular(o, today))..Cardinality(Irregular(o, all))
<1> DEFINE today == Leaving(o, local)
           all   == HalfHour(o, local)
<1>1. today \subseteq all /\ all \subseteq Rows(o, "flights")
  BY DEF Leaving, HalfHour
<1> HIDE DEF today, all
<1> DEFINE some  == Irregular(o, today)
           every == Irregular(o, all)
<1>2. some \subseteq every /\ every \subseteq all
  BY <1>1 DEF Irregular
<1> HIDE DEF some, every
<1>3. IsFiniteSet(all) /\ IsFiniteSet(every)
  BY <1>1, <1>2, RowsTyped, FS_Subset
<1>4. /\ Cardinality(all) \in Nat /\ Cardinality(today) \in Nat
      /\ Cardinality(today) <= Cardinality(all)
      /\ Cardinality(every) \in Nat /\ Cardinality(some) \in Nat
      /\ Cardinality(some) <= Cardinality(every)
  BY <1>1, <1>2, <1>3, FS_Subset, FS_CardinalityType
<1>5. QED
  BY <1>4 DEF today, all, some, every

LEMMA DeparturesAreExact == Inv1 /\ ReliableInv => DeparturesExact
<1> SUFFICES ASSUME Inv1, ReliableInv, run > 0, manifests[run] # None,
                    {"flight_status", "flight_schedule"} \subseteq Components,
                    NEW a \in Airport
             PROVE  LET m     == manifests[run]
                        rec   == records(m)[a]
                        live  == m.obs[SourceOf["flight_status"][a]]
                        plan  == m.obs[SourceOf["flight_schedule"][a]]
                        local == Epoch + m.collected_at
                    IN /\ live.status \in Success =>
                             /\ rec.departures \in
                                   Cardinality(Leaving(live, local))..Cardinality(HalfHour(live, local))
                             /\ rec.delayed + rec.cancelled \in
                                   Cardinality(Irregular(live, Leaving(live, local)))
                                      ..Cardinality(Irregular(live, HalfHour(live, local)))
                       /\ (\A at \in NextMinutes(local) :
                              Cardinality(Planned(plan, at, local)) =
                                 Cardinality({p \in Leaving(live, local) :
                                                 Scheduled(live, p) = at}))
                             => rec.difference = 0
                       /\ live.status \notin Success =>
                             rec.departures = 0 /\ rec.quality = "PARTIAL"
  BY DEF DeparturesExact, NextMinutes, Leaving, HalfHour, Irregular, Planned, Scheduled, DepartureAt
<1> DEFINE m     == manifests[run]
           rec   == records(m)[a]
           live  == m.obs[SourceOf["flight_status"][a]]
           plan  == m.obs[SourceOf["flight_schedule"][a]]
           local == Epoch + m.collected_at
<1>1. rec = Record(m.obs, a, local)
  BY DEF records, normalize_records
<1>2. local \in Nat
  <2>1. m.collected_at \in Nat
    BY NewestManifest DEF Manifest
  <2> HIDE DEF m
  <2>2. QED
    BY <2>1, RecordAssumption
<1>3. /\ SourceOf["flight_status"][a] \in Source /\ SourceOf["flight_schedule"][a] \in Source
      /\ "flight_status" \in Components
  BY RecordAssumption
<1>4. /\ live \in Observation /\ Reliable(SourceOf["flight_status"][a], live)
      /\ Reliable(SourceOf["flight_schedule"][a], plan)
  BY <1>3, NewestManifest
<1> HIDE DEF m
<1>5. /\ rec.departures = Cardinality(Upcoming(live, local))
      /\ rec.delayed = Cardinality({p \in Upcoming(live, local) :
                                       RowAt(live, "flights", p).remark = "delayed"})
      /\ rec.cancelled = Cardinality({p \in Upcoming(live, local) :
                                         RowAt(live, "flights", p).remark = "cancelled"})
      /\ rec.difference = Cardinality(TimetableUpcoming(plan, local))
                             - Cardinality(Upcoming(live, local))
      /\ rec.quality \in {"OK", "PARTIAL"}
  <2>1. live = m.obs[SourceOf["flight_status"][a]] /\ plan = m.obs[SourceOf["flight_schedule"][a]]
    OBVIOUS
  <2> HIDE DEF live, plan, rec, local
  <2>2. QED
    BY <1>1, <2>1, DeparturesOf
<1>6. ASSUME live.status \notin Success
      PROVE  Upcoming(live, local) = {} /\ rec.quality # "OK"
  BY <1>1, <1>3, <1>4, <1>6, NoAnswerNoDeparture
<1> HIDE DEF rec, live, plan, local
<1>7. Parsed(live) \in Content /\ Parsed(plan) \in Content
  BY <1>4, ParsedContent
<1>8. Upcoming(live, local) = Leaving(live, local)
  BY <1>2, <1>7, UpcomingLeaves
<1>9. /\ rec.departures = Cardinality(Leaving(live, local))
      /\ rec.delayed + rec.cancelled = Cardinality(Irregular(live, Leaving(live, local)))
  BY <1>2, <1>5, <1>7, <1>8, Remarks
<1>10. ASSUME \A at \in NextMinutes(local) :
                 Cardinality(Planned(plan, at, local)) =
                    Cardinality({p \in Leaving(live, local) : Scheduled(live, p) = at})
       PROVE  rec.difference = 0
  <2>1. /\ Cardinality(TimetableUpcoming(plan, local)) = Cardinality(Upcoming(live, local))
        /\ Cardinality(Upcoming(live, local)) \in Nat
    BY <1>2, <1>7, <1>10, NoDifference
  <2>2. QED
    BY <1>5, <2>1
<1>11. live.status \notin Success => rec.departures = 0 /\ rec.quality = "PARTIAL"
  BY <1>5, <1>6, FS_EmptySet
<1>12. /\ rec.departures \in Cardinality(Leaving(live, local))..Cardinality(HalfHour(live, local))
       /\ rec.delayed + rec.cancelled \in
             Cardinality(Irregular(live, Leaving(live, local)))
                ..Cardinality(Irregular(live, HalfHour(live, local)))
  BY <1>2, <1>7, <1>9, AmongHalfHour
<1>13. QED
  BY <1>10, <1>11, <1>12, Zenon DEF rec, live, plan, local, m

\* The departures of a record are those of the next half hour, with their
\* delays, whatever the hour of the day: all of them where it ends on the same
\* day, and at least the day's where it does not; the timetable of the same
\* departures agrees; and a zero without an answer is marked PARTIAL.
THEOREM DeparturesCounted == Spec => []DeparturesExact
<1>1. Inv1 /\ ReliableInv => DeparturesExact
  BY DeparturesAreExact
<1>2. QED
  BY <1>1, SpecReliable, PTL
==============================================================================
