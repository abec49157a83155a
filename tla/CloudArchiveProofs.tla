------------------------- MODULE CloudArchiveProofs -------------------------
(***************************************************************************)
(* The Seoul collector keeps the promise of the archive, and DUPLICATE     *)
(* means what a reader of the manifests takes it to mean, for every list   *)
(* of areas, every set of bodies and every number of runs.  What a request *)
(* does inside HttpClient is not looked at by these proofs, which hold for *)
(* any client.  The last section is about HttpClient: a call under way has *)
(* slept once for each failure, and each failure was worth repeating.      *)
(***************************************************************************)
EXTENDS CloudArchive, TLAPS

\* TypeOK without what HttpClient keeps.
TypeInv ==
    /\ state \in [areas : [Area -> Entry \cup {None}], updated_at : Nat \cup {None},
                  last_status : Overall \cup {None}]
    /\ manifests \in [Run -> Manifest \cup {None}]
    /\ bundles \in [Run -> SUBSET (Area \X Body)]
    /\ pc \in {"idle", "areas", "bundle", "state"}
    /\ run \in 0..MaxRuns /\ now \in Nat /\ mode \in {"SAMPLE", "SEED_COHORT"}
    /\ areasState \in [Area -> Entry \cup {None}]
    /\ pos \in 1..(Len(SeedPlaces) + 1) /\ kind \in {"json", "xml"}
    /\ records \in [Area -> Record \cup {None}] /\ payloads \subseteq Area \X Body
    /\ finished \subseteq Run /\ died \subseteq Run

\* A run is numbered above those before it, and its manifest is that of the
\* records in memory.
Progress ==
    /\ \A r \in Run : r > run => manifests[r] = None /\ bundles[r] = {} /\ r \notin finished
    /\ \A r \in finished : manifests[r] # None
    /\ pc # "idle" => run \in Run /\ run \notin finished
    /\ pc = "areas" => manifests[run] = None
    /\ pc \in {"bundle", "state"} => manifests[run] # None /\ manifests[run].records = records
    /\ pc = "state" => payloads \subseteq bundles[run]

Answering(r) == r # None /\ r.status # "ERROR"

\* The state in memory: what was published, except for the areas that answered
\* in this run.
MemoryInv ==
    pc # "idle" => \A a \in Area :
       /\ ~Answering(records[a]) => areasState[a] = state.areas[a]
       /\ Answering(records[a]) =>
             /\ areasState[a] # None
             /\ areasState[a].content_hash = records[a].content_hash
             /\ (records[a].status = "DUPLICATE") <=>
                   state.areas[a] # None /\ state.areas[a].content_hash = records[a].content_hash
             /\ records[a].status # "DUPLICATE" => <<a, records[a].content_hash>> \in payloads
             /\ (records[a].missing = TRUE) <=> records[a].content_hash \in Lacking
             /\ records[a].missing = TRUE => records[a].status # "OK"

\* An area is asked once.
OnceInv ==
    pc = "areas" => \A j \in 1..Len(areas) : j >= pos => records[areas[j]] = None

Safe == TypeInv /\ Progress /\ MemoryInv /\ OnceInv

(***************************************************************************)
(* Facts about the constants.                                              *)
(***************************************************************************)
LEMMA PlacesLength == Len(SeedPlaces) \in Nat /\ Len(SeedPlaces) >= 1
<1>1. Len(SeedPlaces) \in Nat
  BY AreasAssumption
<1>2. PICK i \in 1..Len(SeedPlaces) : SeedPlaces[i] = SampleArea
  BY AreasAssumption
<1>3. QED
  BY <1>1, <1>2

LEMMA AreasFacts ==
    ASSUME mode \in {"SAMPLE", "SEED_COHORT"}
    PROVE  /\ Len(areas) \in Nat /\ Len(areas) <= Len(SeedPlaces)
           /\ \A j \in 1..Len(areas) : areas[j] \in Area
           /\ \A i, j \in 1..Len(areas) : areas[i] = areas[j] => i = j
<1>1. CASE mode = "SAMPLE"
  <2>1. areas = <<SampleArea>>
    BY <1>1 DEF areas
  <2>2. Len(areas) = 1 /\ areas[1] = SampleArea
    BY <2>1
  <2>3. QED
    BY <2>2, PlacesLength, AreasAssumption
<1>2. CASE mode = "SEED_COHORT"
  <2>1. areas = SeedPlaces
    BY <1>2 DEF areas
  <2>2. QED
    BY <2>1, PlacesLength, AreasAssumption
<1>3. QED
  BY <1>1, <1>2

LEMMA InLoopFacts ==
    ASSUME TypeInv, InLoop
    PROVE  /\ pos \in 1..Len(areas) /\ Len(areas) \in Nat /\ area \in Area
           /\ pos + 1 \in 1..(Len(SeedPlaces) + 1)
<1>1. Len(areas) \in Nat /\ Len(areas) <= Len(SeedPlaces)
  BY AreasFacts DEF TypeInv
<1>2. pos \in 1..Len(areas) /\ pos + 1 \in 1..(Len(SeedPlaces) + 1)
  BY <1>1, PlacesLength DEF TypeInv, InLoop
<1>3. area \in Area
  BY <1>2, AreasFacts DEF TypeInv, area
<1>4. QED
  BY <1>1, <1>2, <1>3

(***************************************************************************)
(* The steps.                                                              *)
(***************************************************************************)
LEMMA InitSafe == Init => Safe
<1> SUFFICES ASSUME Init PROVE Safe
  OBVIOUS
<1>1. /\ NoAreas \in [Area -> Entry \cup {None}] /\ NoAreas \in [Area -> Record \cup {None}]
      /\ manifests \in [Run -> Manifest \cup {None}] /\ bundles \in [Run -> SUBSET (Area \X Body)]
  BY DEF Init, NoAreas
<1>2. run \in 0..MaxRuns /\ pos \in 1..(Len(SeedPlaces) + 1)
  BY PlacesLength, CloudInputsAssumption DEF Init
<1>3. QED
  BY <1>1, <1>2 DEF Init, Safe, TypeInv, Progress, MemoryInv, OnceInv

LEMMA GoneType == ASSUME ProcessGone
                  PROVE  /\ pc' = "idle" /\ mode' \in {"SAMPLE", "SEED_COHORT"}
                         /\ areasState' \in [Area -> Entry \cup {None}]
                         /\ pos' \in 1..(Len(SeedPlaces) + 1) /\ kind' \in {"json", "xml"}
                         /\ records' \in [Area -> Record \cup {None}]
                         /\ payloads' \subseteq Area \X Body
  BY PlacesLength DEF ProcessGone, NoAreas

LEMMA CrashSafe == ASSUME Safe, Crash PROVE Safe'
<1>1. TypeInv'
  <2>1. run \in Run /\ died' = died \cup {run}
    BY DEF Crash, Safe, Progress
  <2>2. QED
    BY <2>1, GoneType DEF Crash, disk, Safe, TypeInv
<1>2. QED
  BY <1>1 DEF Crash, ProcessGone, disk, Safe, Progress, MemoryInv, OnceInv

LEMMA StartSafe == ASSUME Safe, records = NoAreas, Start PROVE Safe'
<1>1. run' \in Run /\ run' \in 0..MaxRuns /\ run' > run /\ run' = run + 1
  BY CloudInputsAssumption DEF Start, Run, Safe, TypeInv
<1>2. now' \in Nat /\ mode' \in {"SAMPLE", "SEED_COHORT"}
  BY CloudInputsAssumption DEF Start, Safe, TypeInv
<1>3. TypeInv'
  BY <1>1, <1>2 DEF Start, disk, Safe, TypeInv
<1>4. Progress'
  <2>1. \A r \in Run : r > run' => r > run
    BY <1>1 DEF Run, Safe, TypeInv
  <2>2. QED
    BY <1>1, <2>1 DEF Start, disk, Safe, Progress
<1>5. \A a \in Area : records'[a] = None
  BY DEF Start, NoAreas
<1>6. MemoryInv'
  BY <1>5 DEF Start, disk, MemoryInv, Answering
<1>7. OnceInv'
  <2>1. \A j \in 1..Len(areas') : areas'[j] \in Area
    <3>1. (mode \in {"SAMPLE", "SEED_COHORT"})' => \A j \in 1..Len(areas') : areas'[j] \in Area
      BY AreasAssumption DEF areas
    <3>2. QED
      BY <1>2, <3>1
  <2>2. QED
    BY <1>5, <2>1 DEF OnceInv
<1>8. QED
  BY <1>3, <1>4, <1>6, <1>7 DEF Safe

\* An area is answered for: with rec, and entry in the state in memory.
Recorded(rec, entry) ==
    /\ InLoop /\ NextArea /\ UNCHANGED <<disk, pc, run, now, mode, finished, died>>
    /\ records' = [records EXCEPT ![area] = rec]
    /\ areasState' = [areasState EXCEPT ![area] = entry]

LEMMA RecordedSafe ==
    ASSUME Safe, NEW rec \in Record, NEW entry \in Entry \cup {None}, Recorded(rec, entry),
           payloads \subseteq payloads', payloads' \subseteq Area \X Body,
           ~Answering(rec) => entry = areasState[area],
           Answering(rec) =>
              /\ entry # None /\ entry.content_hash = rec.content_hash
              /\ (rec.status = "DUPLICATE") <=>
                    areasState[area] # None /\ areasState[area].content_hash = rec.content_hash
              /\ rec.status # "DUPLICATE" => <<area, rec.content_hash>> \in payloads'
              /\ (rec.missing = TRUE) <=> rec.content_hash \in Lacking
              /\ rec.missing = TRUE => rec.status # "OK"
    PROVE  Safe'
<1>1. /\ pos \in 1..Len(areas) /\ Len(areas) \in Nat /\ area \in Area /\ pc = "areas"
      /\ pos' = pos + 1 /\ pos' \in 1..(Len(SeedPlaces) + 1) /\ kind' = "json" /\ pc' = pc
      /\ area = areas[pos] /\ mode' = mode
  BY InLoopFacts DEF Safe, Recorded, NextArea, InLoop, area
<1>2. TypeInv'
  BY <1>1 DEF Safe, TypeInv, Recorded, disk
<1>3. Progress'
  BY <1>1 DEF Safe, Progress, Recorded, disk
<1>4. areas' = areas
  BY <1>1 DEF areas
<1>5. OnceInv'
  <2>1. ASSUME NEW j \in 1..Len(areas), j >= pos + 1 PROVE records'[areas[j]] = None
    <3>1. j >= pos /\ j # pos
      BY <1>1, <2>1
    <3>2. areas[j] # areas[pos] /\ areas[j] \in Area
      BY <1>1, <3>1, AreasFacts DEF Safe, TypeInv
    <3>3. QED
      BY <1>1, <3>1, <3>2 DEF Safe, OnceInv, TypeInv, Recorded
  <2>2. QED
    BY <1>1, <1>4, <2>1 DEF OnceInv
<1>6. ~Answering(records[area])
  BY <1>1 DEF Safe, OnceInv, Answering
<1>7. MemoryInv'
  <2> SUFFICES ASSUME NEW a \in Area
               PROVE  /\ ~Answering(records'[a]) => areasState'[a] = state.areas[a]
                      /\ Answering(records'[a]) =>
                            /\ areasState'[a] # None
                            /\ areasState'[a].content_hash = records'[a].content_hash
                            /\ (records'[a].status = "DUPLICATE") <=>
                                  /\ state.areas[a] # None
                                  /\ state.areas[a].content_hash = records'[a].content_hash
                            /\ records'[a].status # "DUPLICATE" =>
                                  <<a, records'[a].content_hash>> \in payloads'
                            /\ (records'[a].missing = TRUE) <=> records'[a].content_hash \in Lacking
                            /\ records'[a].missing = TRUE => records'[a].status # "OK"
    BY DEF MemoryInv, Answering, Recorded, disk
  <2>1. CASE a = area
    <3>1. records'[a] = rec /\ areasState'[a] = entry
      BY <1>1, <2>1 DEF Recorded, Safe, TypeInv
    <3>2. areasState[area] = state.areas[area]
      BY <1>1, <1>6 DEF Safe, MemoryInv
    <3>3. QED
      BY <2>1, <3>1, <3>2
  <2>2. CASE a # area
    <3>1. records'[a] = records[a] /\ areasState'[a] = areasState[a]
      BY <1>1, <2>2 DEF Recorded, Safe, TypeInv
    <3>2. QED
      BY <1>1, <3>1 DEF Safe, MemoryInv
  <2>3. QED
    BY <2>1, <2>2
<1>8. QED
  BY <1>2, <1>3, <1>5, <1>7 DEF Safe

LEMMA AcceptSafe == ASSUME Safe, Accept PROVE Safe'
<1>1. PICK body \in Answers[kind] \ Rejected :
         /\ payloads' = IF Duplicate(body) THEN payloads ELSE payloads \cup {<<area, body>>}
         /\ records' = [records EXCEPT ![area] =
               [status |-> IF Duplicate(body) THEN "DUPLICATE"
                           ELSE IF body \in Lacking THEN "PARTIAL" ELSE "OK",
                content_hash |-> body, raw_member |-> ~Duplicate(body), missing |-> body \in Lacking]]
         /\ areasState' = [areasState EXCEPT ![area] =
               [content_hash |-> body, collected_at |-> now,
                status |-> IF Duplicate(body) THEN "DUPLICATE"
                           ELSE IF body \in Lacking THEN "PARTIAL" ELSE "OK"]]
  BY DEF Accept
<1>2. area \in Area /\ body \in Body /\ now \in Nat
  BY InLoopFacts, AnswersAssumption DEF Accept, Safe, TypeInv
<1> DEFINE verdict == IF Duplicate(body) THEN "DUPLICATE"
                      ELSE IF body \in Lacking THEN "PARTIAL" ELSE "OK"
           rec == [status |-> verdict, content_hash |-> body, raw_member |-> ~Duplicate(body),
                   missing |-> body \in Lacking]
           entry == [content_hash |-> body, collected_at |-> now, status |-> verdict]
<1>3. /\ verdict \in {"OK", "PARTIAL", "DUPLICATE"}
      /\ verdict = "DUPLICATE" <=> Duplicate(body)
      /\ body \in Lacking => verdict # "OK"
  OBVIOUS
<1>4. /\ payloads \subseteq payloads' /\ payloads' \subseteq Area \X Body
      /\ ~Duplicate(body) => <<area, body>> \in payloads'
  BY <1>1, <1>2 DEF Safe, TypeInv
<1>5. Duplicate(body) \in BOOLEAN /\ (body \in Lacking) \in BOOLEAN
  BY DEF Duplicate
<1>6. Recorded(rec, entry)
  BY <1>1 DEF Accept, Recorded
<1> HIDE DEF verdict
<1>7. rec \in Record /\ entry \in Entry
  BY <1>2, <1>3, <1>5 DEF Record, Entry
<1>8. entry # None
  BY <1>7, CloudNoneAssumption
<1>9. /\ rec.content_hash = body /\ entry.content_hash = body /\ rec.status = verdict
      /\ (rec.missing = TRUE) <=> body \in Lacking
  BY <1>5
<1> HIDE DEF rec, entry
<1>10. Answering(rec)
  BY <1>3, <1>7, <1>9, CloudNoneAssumption DEF Answering
<1>11. QED
  BY <1>3, <1>4, <1>6, <1>7, <1>8, <1>9, <1>10, RecordedSafe DEF Duplicate

LEMMA GiveUpSafe == ASSUME Safe, GiveUp PROVE Safe'
<1> DEFINE rec == [status |-> "ERROR", content_hash |-> None, raw_member |-> FALSE,
                   missing |-> TRUE]
           entry == areasState[area]
<1>1. rec \in Record /\ ~Answering(rec)
  BY DEF Record, Answering
<1>2. area \in Area
  BY InLoopFacts DEF GiveUp, Safe
<1>3. entry \in Entry \cup {None} /\ payloads' = payloads /\ payloads \subseteq Area \X Body
  BY <1>2 DEF GiveUp, Safe, TypeInv
<1>4. Recorded(rec, entry)
  BY <1>2 DEF GiveUp, Recorded, Safe, TypeInv
<1> HIDE DEF rec
<1>5. QED
  BY <1>1, <1>3, <1>4, RecordedSafe

LEMMA WriteSafe == ASSUME Safe, WriteManifest \/ WriteMember PROVE Safe'
<1>1. CASE WriteManifest
  <2>1. /\ pc = "areas" /\ run \in Run /\ pc' \in {"bundle", "state"} /\ run' = run
        /\ pc' = "state" => payloads = {}
    BY <1>1 DEF WriteManifest, LoopDone, Safe, Progress
  <2> DEFINE m == [status |-> OverallStatus, collected_at |-> now, records |-> records,
                   schedule |-> schedule_health(state.updated_at, now, CadenceSeconds).status]
  <2>2. m \in Manifest
    <3>1. schedule_health(state.updated_at, now, CadenceSeconds).status
             \in {"NO_BASELINE", "OK", "WARNING"}
      BY DEF schedule_health
    <3>2. OverallStatus \in Overall
      BY DEF OverallStatus, Overall
    <3>3. QED
      BY <3>1, <3>2 DEF Manifest, Safe, TypeInv
  <2>3. manifests' = [manifests EXCEPT ![run] = m] /\ m.records = records
    BY <1>1 DEF WriteManifest
  <2> HIDE DEF m
  <2>4. TypeInv'
    BY <1>1, <2>1, <2>2, <2>3 DEF WriteManifest, Safe, TypeInv
  <2>5. /\ manifests'[run] = m /\ m # None
        /\ \A r \in Run \ {run} : manifests'[r] = manifests[r]
    BY <2>1, <2>2, <2>3, CloudNoneAssumption DEF Safe, TypeInv
  <2>6. Progress'
    BY <1>1, <2>1, <2>3, <2>5 DEF WriteManifest, Safe, Progress, TypeInv
  <2>7. QED
    BY <1>1, <2>1, <2>4, <2>6 DEF WriteManifest, Safe, MemoryInv, OnceInv
<1>2. CASE WriteMember
  <2>1. pc = "bundle" /\ run \in Run /\ run' = run /\ pc' \in {"bundle", "state"}
    BY <1>2 DEF WriteMember, Safe, Progress
  <2>2. PICK p \in payloads : bundles' = [bundles EXCEPT ![run] = @ \cup {p}]
                              /\ (pc' = "state" => payloads \subseteq bundles'[run])
    BY <1>2 DEF WriteMember
  <2>3. TypeInv'
    BY <1>2, <2>1, <2>2 DEF WriteMember, Safe, TypeInv
  <2>4. \A r \in Run \ {run} : bundles'[r] = bundles[r]
    BY <2>1, <2>2 DEF Safe, TypeInv
  <2>5. Progress'
    BY <1>2, <2>1, <2>2, <2>4 DEF WriteMember, Safe, Progress, TypeInv
  <2>6. QED
    BY <1>2, <2>1, <2>3, <2>5 DEF WriteMember, Safe, MemoryInv, OnceInv
<1>3. QED
  BY <1>1, <1>2

LEMMA WriteStateSafe == ASSUME Safe, WriteState PROVE Safe'
<1>1. pc = "state" /\ run \in Run /\ pc' = "idle" /\ run' = run
  BY DEF WriteState, ProcessGone, Safe, Progress
<1>2. OverallStatus \in Overall
  BY DEF OverallStatus, Overall
<1>3. TypeInv'
  BY <1>1, <1>2, GoneType DEF WriteState, Safe, TypeInv
<1>4. Progress'
  BY <1>1 DEF WriteState, Safe, Progress, TypeInv, Run
<1>5. QED
  BY <1>1, <1>3, <1>4 DEF Safe, MemoryInv, OnceInv

\* Between two runs no answer is in memory.
IdleInv == pc = "idle" => records = NoAreas

LEMMA NextSafe == ASSUME Safe, IdleInv, [Next]_vars PROVE Safe' /\ IdleInv'
<1>1. CASE Start
  BY <1>1, StartSafe DEF Start, IdleInv
<1>2. CASE Crash
  BY <1>2, CrashSafe DEF Crash, ProcessGone, IdleInv
<1>3. CASE WriteState
  BY <1>3, WriteStateSafe DEF WriteState, ProcessGone, IdleInv
<1>4. CASE Accept
  BY <1>4, AcceptSafe DEF Accept, InLoop, IdleInv
<1>5. CASE GiveUp
  BY <1>5, GiveUpSafe DEF GiveUp, InLoop, IdleInv
<1>6. CASE WriteManifest \/ WriteMember
  <2>1. pc' # "idle"
    BY <1>6 DEF WriteManifest, WriteMember
  <2>2. QED
    BY <1>6, <2>1, WriteSafe DEF IdleInv
<1>7. CASE Ask \/ Transfer \/ UNCHANGED vars
  <2>1. UNCHANGED cloudVars
    BY <1>7 DEF Ask, Transfer, vars
  <2>2. QED
    BY <2>1 DEF cloudVars, disk, Safe, TypeInv, Progress, MemoryInv, OnceInv, IdleInv, areas
<1>8. CASE AskAgain
  <2>1. UNCHANGED <<disk, pc, run, now, mode, areasState, pos, records, payloads, finished,
                   died>>
        /\ kind' \in {"json", "xml"}
    BY <1>8 DEF AskAgain
  <2>2. QED
    BY <2>1 DEF disk, Safe, TypeInv, Progress, MemoryInv, OnceInv, IdleInv, areas
<1>9. QED
  BY <1>1, <1>2, <1>3, <1>4, <1>5, <1>6, <1>7, <1>8 DEF Next, Step

(***************************************************************************)
(* Refinement of PayloadArchive.                                           *)
(***************************************************************************)
LEMMA ArchiveStep ==
    ASSUME Safe, Safe', [Next]_vars PROVE [Archive!Next]_(Archive!vars)
<1>1. CASE UNCHANGED <<state, bundles>>
  BY <1>1 DEF storedPayloads, latestHashes, Archive!vars
<1>2. CASE WriteMember
  <2>1. UNCHANGED latestHashes
    BY <1>2 DEF WriteMember, latestHashes
  <2>2. storedPayloads \subseteq storedPayloads'
    <3>1. \A r \in Run : bundles[r] \subseteq bundles'[r]
      BY <1>2 DEF WriteMember, Safe, TypeInv, Progress
    <3>2. QED
      BY <3>1 DEF storedPayloads
  <2>3. storedPayloads' \subseteq Area \X Body
    BY DEF Safe, TypeInv, storedPayloads
  <2>4. QED
    BY <2>1, <2>2, <2>3 DEF Archive!Next, Archive!Store
<1>3. CASE WriteState
  <2>1. UNCHANGED storedPayloads
    BY <1>3 DEF WriteState, storedPayloads
  <2>2. latestHashes' \in [Area -> Body \cup {None}]
    BY DEF Safe, TypeInv, Entry, latestHashes
  <2>3. ASSUME NEW a \in Area, latestHashes'[a] # latestHashes[a]
        PROVE  <<a, latestHashes'[a]>> \in storedPayloads
    <3>1. pc = "state" /\ run \in Run /\ payloads \subseteq bundles[run]
          /\ state'.areas = areasState
      BY <1>3 DEF WriteState, Safe, Progress
    <3>2. areasState[a] # state.areas[a]
      BY <2>3, <3>1 DEF latestHashes
    <3>3. Answering(records[a])
      BY <3>1, <3>2 DEF Safe, MemoryInv
    <3>4. latestHashes'[a] = records[a].content_hash
      BY <3>1, <3>3 DEF Safe, MemoryInv, latestHashes
    <3>5. records[a].status # "DUPLICATE"
      BY <2>3, <3>1, <3>3, <3>4 DEF Safe, MemoryInv, latestHashes
    <3>6. <<a, records[a].content_hash>> \in bundles[run]
      BY <3>1, <3>3, <3>5 DEF Safe, MemoryInv
    <3>7. QED
      BY <3>1, <3>4, <3>6 DEF storedPayloads
  <2>4. QED
    BY <2>1, <2>2, <2>3 DEF Archive!Next, Archive!Publish
<1>4. CASE Ask \/ Transfer \/ UNCHANGED vars
  <2>1. UNCHANGED cloudVars
    BY <1>4 DEF Ask, Transfer, vars
  <2>2. QED
    BY <1>1, <2>1 DEF cloudVars, disk
<1>5. QED
  BY <1>1, <1>2, <1>3, <1>4
     DEF Next, Step, Start, Accept, AskAgain, GiveUp, WriteManifest, Crash, disk

LEMMA SpecSafe == Spec => [](Safe /\ IdleInv)
<1>1. Init => Safe /\ IdleInv
  BY InitSafe DEF Init, IdleInv
<1>2. QED
  BY <1>1, NextSafe, PTL DEF Spec

LEMMA ArchiveInit == Init => Archive!Init
<1> SUFFICES ASSUME Init PROVE Archive!Init
  OBVIOUS
<1>1. storedPayloads = {}
  BY DEF Init, storedPayloads
<1>2. latestHashes = [a \in Area |-> None]
  BY DEF Init, NoAreas, latestHashes
<1>3. QED
  BY <1>1, <1>2 DEF Archive!Init

\* The Seoul collector implements the abstract payload archive, as the airport
\* collector does, whatever the API answers and wherever a run dies.
THEOREM CollectorImplementsArchive == Spec => ImplementsArchive
<1>1. Safe /\ IdleInv /\ (Safe /\ IdleInv)' /\ [Next]_vars => [Archive!Next]_(Archive!vars)
  BY ArchiveStep
<1>2. QED
  BY ArchiveInit, <1>1, SpecSafe, PTL DEF Spec, ImplementsArchive, Archive!Spec

(***************************************************************************)
(* Dedupe.                                                                 *)
(***************************************************************************)
\* Run q published an answer of area a.
Published(q, a) == q \in finished /\ Answering(manifests[q].records[a])

\* The state file tells of each area the last published answer.
LastInv ==
    \A a \in Area :
       /\ state.areas[a] = None => \A q \in finished : ~Published(q, a)
       /\ state.areas[a] # None => \E q \in finished :
             /\ Published(q, a) /\ \A p \in finished : Published(p, a) => p <= q
             /\ manifests[q].records[a].content_hash = state.areas[a].content_hash

\* A body that lacks sections is never OK.
LackingInv ==
    \A r \in Run, a \in Area : manifests[r] # None /\ Answering(manifests[r].records[a]) =>
       /\ (manifests[r].records[a].missing = TRUE) <=> manifests[r].records[a].content_hash \in Lacking
       /\ manifests[r].records[a].missing = TRUE => manifests[r].records[a].status # "OK"

\* DedupeExact of one record.
Deduped(r, a) ==
    Answering(manifests[r].records[a]) =>
       /\ manifests[r].records[a].status = "DUPLICATE" <=>
             \E q \in Answered(a, r) :
                /\ \A p \in Answered(a, r) : p <= q
                /\ manifests[q].records[a].content_hash = manifests[r].records[a].content_hash
       /\ manifests[r].records[a].status = "DUPLICATE" /\ manifests[r].records[a].missing =>
             \E q \in Answered(a, r) :
                /\ manifests[q].records[a].content_hash = manifests[r].records[a].content_hash
                /\ manifests[q].records[a].status = "PARTIAL"

DedupedInv == \A r \in Run, a \in Area : manifests[r] # None => Deduped(r, a)

LEMMA DedupedIsExact == DedupedInv => DedupeExact
  BY DEF DedupedInv, DedupeExact, Deduped, Answering

LEMMA AnsweredIs == ASSUME NEW a, NEW r, NEW q
                    PROVE  q \in Answered(a, r) <=> Published(q, a) /\ q < r
  BY DEF Answered, Published, Answering

\* The manifest of a run that has not published is written: the runs that have
\* are those before it.
LEMMA WriteManifestDeduped ==
    ASSUME Safe, LastInv, LackingInv, DedupedInv, WriteManifest
    PROVE  LastInv' /\ LackingInv' /\ DedupedInv'
<1>1. /\ pc = "areas" /\ run \in Run /\ run \notin finished /\ finished' = finished
      /\ finished \subseteq Run /\ state' = state
      /\ \A q \in finished : manifests[q] # None
  BY DEF WriteManifest, LoopDone, Safe, TypeInv, Progress
<1>2. /\ manifests'[run].records = records
      /\ \A r \in Run \ {run} : manifests'[r] = manifests[r]
  BY <1>1 DEF WriteManifest, Safe, TypeInv
<1>3. \A q \in finished : q \in Run /\ q \in Nat /\ q < run /\ manifests'[q] = manifests[q]
  BY <1>1, <1>2 DEF Safe, Progress, Run
<1>4. \A q, a : Published(q, a)' <=> Published(q, a)
  BY <1>1, <1>3 DEF Published
<1>5. LastInv'
  BY <1>1, <1>3, <1>4 DEF LastInv
<1>6. \A a \in Area : Answering(records[a]) =>
         /\ (records[a].missing = TRUE) <=> records[a].content_hash \in Lacking
         /\ records[a].missing = TRUE => records[a].status # "OK"
         /\ records[a].status = "DUPLICATE" <=>
               state.areas[a] # None /\ state.areas[a].content_hash = records[a].content_hash
  BY <1>1 DEF Safe, MemoryInv
<1>7. LackingInv'
  BY <1>2, <1>6 DEF LackingInv, Answering
<1>8. ASSUME NEW a \in Area PROVE Deduped(run, a)'
  <2> SUFFICES ASSUME Answering(records[a])
               PROVE  /\ records[a].status = "DUPLICATE" <=>
                            \E q \in Answered(a, run)' :
                               /\ \A p \in Answered(a, run)' : p <= q
                               /\ manifests'[q].records[a].content_hash = records[a].content_hash
                      /\ records[a].status = "DUPLICATE" /\ records[a].missing =>
                            \E q \in Answered(a, run)' :
                               /\ manifests'[q].records[a].content_hash = records[a].content_hash
                               /\ manifests'[q].records[a].status = "PARTIAL"
    BY <1>1, <1>2 DEF Deduped, Answering, WriteManifest
  <2>1. \A q : q \in Answered(a, run)' <=> Published(q, a)
    <3>1. \A q : q \in Answered(a, run)' <=> q \in finished /\ q < run /\ Answering(manifests'[q].records[a])
      BY <1>1 DEF Answered, Answering, WriteManifest
    <3>2. QED
      BY <1>3, <3>1 DEF Published
  <2>2. CASE state.areas[a] = None
    <3>1. \A q : ~Published(q, a)
      BY <2>2 DEF LastInv, Published
    <3>2. QED
      BY <1>6, <2>1, <2>2, <3>1
  <2>3. CASE state.areas[a] # None
    <3>1. PICK q \in finished :
             /\ Published(q, a) /\ \A p \in finished : Published(p, a) => p <= q
             /\ manifests[q].records[a].content_hash = state.areas[a].content_hash
      BY <2>3 DEF LastInv
    <3>2. \A p \in Answered(a, run)' : p <= q
      BY <2>1, <3>1 DEF Published
    <3>3. \A k \in Answered(a, run)' : (\A p \in Answered(a, run)' : p <= k) => k = q
      BY <1>3, <2>1, <3>1, <3>2 DEF Published
    <3>4. manifests'[q] = manifests[q] /\ q \in Answered(a, run)'
      BY <1>3, <2>1, <3>1
    <3>5. records[a].status = "DUPLICATE" <=>
             \E k \in Answered(a, run)' :
                /\ \A p \in Answered(a, run)' : p <= k
                /\ manifests'[k].records[a].content_hash = records[a].content_hash
      BY <1>6, <2>3, <3>1, <3>2, <3>3, <3>4
    <3>6. ASSUME records[a].status = "DUPLICATE", records[a].missing
          PROVE  \E k \in Answered(a, run)' :
                    /\ manifests'[k].records[a].content_hash = records[a].content_hash
                    /\ manifests'[k].records[a].status = "PARTIAL"
      <4>1. /\ manifests[q].records[a].content_hash = records[a].content_hash
            /\ records[a].content_hash \in Lacking
        BY <1>6, <3>1, <3>6
      <4>2. /\ manifests[q].records[a].missing = TRUE /\ manifests[q].records[a].status # "OK"
            /\ manifests[q].records[a] \in Record
        BY <1>1, <1>3, <3>1, <4>1, CloudNoneAssumption
           DEF LackingInv, Published, Safe, TypeInv, Manifest, Answering
      <4>3. CASE manifests[q].records[a].status = "PARTIAL"
        BY <3>4, <4>1, <4>3
      <4>4. CASE manifests[q].records[a].status = "DUPLICATE"
        <5>1. PICK k \in Answered(a, q) :
                 /\ manifests[k].records[a].content_hash = manifests[q].records[a].content_hash
                 /\ manifests[k].records[a].status = "PARTIAL"
          BY <1>1, <1>3, <3>1, <4>2, <4>4 DEF DedupedInv, Deduped, Published
        <5>2. Published(k, a)
          BY <5>1, AnsweredIs
        <5>3. k \in Answered(a, run)' /\ manifests'[k] = manifests[k]
          BY <1>3, <2>1, <5>2 DEF Published
        <5>4. QED
          BY <4>1, <5>1, <5>3
      <4>5. QED
        BY <3>1, <4>2, <4>3, <4>4 DEF Record, Published, Answering
    <3>7. QED
      BY <3>5, <3>6
  <2>4. QED
    BY <2>2, <2>3
<1>9. ASSUME NEW r \in Run, NEW a \in Area, r # run, manifests'[r] # None PROVE Deduped(r, a)'
  <2>1. Deduped(r, a) /\ manifests'[r] = manifests[r]
    BY <1>2, <1>9 DEF DedupedInv
  <2>2. Answered(a, r)' = Answered(a, r)
    BY <1>1, <1>3 DEF Answered
  <2>3. \A q \in Answered(a, r) : manifests'[q] = manifests[q]
    BY <1>3 DEF Answered
  <2>4. QED
    BY <2>1, <2>2, <2>3 DEF Deduped
<1>10. DedupedInv'
  BY <1>1, <1>8, <1>9 DEF DedupedInv, WriteManifest
<1>11. QED
  BY <1>5, <1>7, <1>10

\* A run publishes: it is the last that did.
LEMMA WriteStateDeduped ==
    ASSUME Safe, LastInv, LackingInv, DedupedInv, WriteState
    PROVE  LastInv' /\ LackingInv' /\ DedupedInv'
<1>1. /\ pc = "state" /\ run \in Run /\ run \notin finished /\ finished' = finished \cup {run}
      /\ manifests' = manifests /\ finished \subseteq Run /\ state'.areas = areasState
      /\ manifests[run] # None /\ manifests[run].records = records
  BY DEF WriteState, Safe, TypeInv, Progress
<1>2. \A q \in finished : q \in Nat /\ q < run
  <2>1. ASSUME NEW q \in finished PROVE q \in Run /\ q # run /\ ~(q > run)
    BY <1>1 DEF Safe, Progress
  <2>2. QED
    BY <1>1, <2>1 DEF Run
<1> DEFINE New(q, a) == Published(q, a) \/ (q = run /\ Answering(records[a]))
<1>3. \A a \in Area : \A q \in finished \cup {run} :
         New(q, a) <=> q \in finished' /\ Answering(manifests'[q].records[a])
  BY <1>1 DEF Published
<1> HIDE DEF New
<1>4. ASSUME NEW a \in Area
      PROVE  /\ areasState[a] = None => \A q \in finished \cup {run} : ~New(q, a)
             /\ areasState[a] # None => \E q \in finished \cup {run} :
                   /\ New(q, a) /\ \A p \in finished \cup {run} : New(p, a) => p <= q
                   /\ manifests[q].records[a].content_hash = areasState[a].content_hash
  <2>1. CASE Answering(records[a])
    <3>1. areasState[a] # None /\ areasState[a].content_hash = records[a].content_hash
      BY <1>1, <2>1 DEF Safe, MemoryInv
    <3>2. New(run, a)
      BY <2>1 DEF New
    <3>3. \A p \in finished \cup {run} : p <= run
      BY <1>1, <1>2 DEF Run
    <3>4. QED
      BY <1>1, <3>1, <3>2, <3>3
  <2>2. CASE ~Answering(records[a])
    <3>1. areasState[a] = state.areas[a] /\ \A q : New(q, a) <=> Published(q, a)
      BY <1>1, <2>2 DEF Safe, MemoryInv, New
    <3>2. CASE state.areas[a] = None
      BY <1>1, <3>1, <3>2 DEF LastInv, Published
    <3>3. CASE state.areas[a] # None
      <4>1. PICK q \in finished :
               /\ Published(q, a) /\ \A p \in finished : Published(p, a) => p <= q
               /\ manifests[q].records[a].content_hash = state.areas[a].content_hash
        BY <3>3 DEF LastInv
      <4>2. \A p \in finished \cup {run} : New(p, a) => p <= q
        BY <3>1, <4>1 DEF Published
      <4>3. New(q, a) /\ q \in finished \cup {run}
        BY <3>1, <4>1
      <4>4. manifests[q].records[a].content_hash = areasState[a].content_hash
        BY <3>1, <4>1
      <4>5. QED
        BY <3>1, <3>3, <4>2, <4>3, <4>4
    <3>4. QED
      BY <3>2, <3>3
  <2>3. QED
    BY <2>1, <2>2
<1>5. LastInv'
  BY <1>1, <1>3, <1>4 DEF LastInv, Published
<1>6. LackingInv'
  BY <1>1 DEF LackingInv
<1>7. ASSUME NEW r \in Run, NEW a \in Area, manifests[r] # None PROVE Deduped(r, a)'
  <2>1. ~(run < r)
    BY <1>1, <1>7 DEF Safe, Progress, TypeInv
  <2>2. Answered(a, r)' = Answered(a, r)
    BY <1>1, <2>1 DEF Answered
  <2>3. QED
    BY <1>1, <1>7, <2>2 DEF DedupedInv, Deduped
<1>8. QED
  BY <1>1, <1>5, <1>6, <1>7 DEF DedupedInv

DedupeInv == LastInv /\ LackingInv /\ DedupedInv

LEMMA NextDeduped == ASSUME Safe, DedupeInv, [Next]_vars PROVE DedupeInv'
<1>1. CASE WriteManifest
  BY <1>1, WriteManifestDeduped DEF DedupeInv
<1>2. CASE WriteState
  BY <1>2, WriteStateDeduped DEF DedupeInv
<1>3. CASE UNCHANGED <<state, manifests, finished>>
  BY <1>3 DEF DedupeInv, LastInv, LackingInv, DedupedInv, Deduped, Published, Answered
<1>4. CASE Ask \/ Transfer \/ UNCHANGED vars
  <2>1. UNCHANGED cloudVars
    BY <1>4 DEF Ask, Transfer, vars
  <2>2. QED
    BY <1>3, <2>1 DEF cloudVars, disk
<1>5. QED
  BY <1>1, <1>2, <1>3, <1>4
     DEF Next, Step, Start, Accept, AskAgain, GiveUp, WriteMember, Crash, disk

\* A manifest says DUPLICATE exactly when the last published answer of the area
\* was the same body, for any areas, modes, failures and interruptions; and what
\* lacks sections was reported PARTIAL when it was stored.
THEOREM DedupeIsExact == Spec => []DedupeExact
<1>1. Init => DedupeInv
  BY DEF Init, NoAreas, DedupeInv, LastInv, LackingInv, DedupedInv
<1>2. (Safe /\ IdleInv) /\ DedupeInv /\ [Next]_vars => DedupeInv'
  BY NextDeduped
<1>3. DedupeInv => DedupeExact
  BY DedupedIsExact DEF DedupeInv
<1>4. QED
  BY <1>1, <1>2, <1>3, SpecSafe, PTL DEF Spec

(***************************************************************************)
(* HttpClient: the calls the collector makes.                              *)
(***************************************************************************)
\* The n-th failed attempt was worth repeating.
Repeated(n) == attempts[n] = NoStatus \/ Transient(attempts[n])

\* How many of the failures have led to a retry, by where the call is.
HttpInv ==
    /\ call = "none" => attempt = 0 /\ attempts = <<>> /\ slept = <<>>
    /\ Len(slept) = attempt /\ \A n \in 1..attempt : slept[n] = 2^(n - 1)
    /\ Len(attempts) >= attempt /\ \A n \in 1..attempt : Repeated(n)
    /\ call = "sending" => Len(attempts) = attempt
    /\ call = "sleeping" =>
          /\ attempt < MaxRetries
          /\ Len(attempts) = attempt + 1 /\ Repeated(attempt + 1)
    /\ call = "returned" =>
          retries = attempt /\ status = 200 /\ Len(attempts) = attempt
    /\ call = "raised" =>
          /\ retries = attempt /\ Len(attempts) = attempt + 1
          /\ status = attempts[attempt + 1]
          /\ Repeated(attempt + 1) => attempt = MaxRetries

HttpSafe == HttpTypeOK /\ HttpInv

LEMMA ResetSafe == ASSUME Reset PROVE HttpSafe'
  BY HttpAssumption DEF Reset, HttpSafe, HttpTypeOK, HttpInv, Calls

LEMMA RequestSafe == ASSUME HttpSafe, Request PROVE HttpSafe'
  BY DEF Request, HttpSafe, HttpTypeOK, HttpInv, Repeated, Calls

LEMMA RespondSafe == ASSUME HttpSafe, Respond PROVE HttpSafe'
  BY DEF Respond, Finish, HttpSafe, HttpTypeOK, HttpInv, Repeated, Calls

\* An attempt fails: with code, and the client sleeps if it is worth it.
Fails(code) ==
    /\ call = "sending" /\ attempts' = Append(attempts, code)
    /\ \/ Sleep /\ (code = NoStatus \/ Transient(code)) /\ attempt < MaxRetries
       \/ Finish("raised", code) /\ ((code = NoStatus \/ Transient(code)) => attempt >= MaxRetries)
       \/ call' = "escaped" /\ UNCHANGED <<attempt, status, retries, slept>>

LEMMA FailsSafe == ASSUME HttpSafe, NEW code \in Codes \cup {NoStatus}, Fails(code) PROVE HttpSafe'
<1>1. /\ attempts \in Seq(Codes \cup {NoStatus}) /\ Len(attempts) = attempt
      /\ attempt \in 0..MaxRetries /\ MaxRetries \in Nat
  BY HttpAssumption DEF HttpSafe, HttpTypeOK, HttpInv, Fails
<1>2. /\ attempts' \in Seq(Codes \cup {NoStatus}) /\ Len(attempts') = attempt + 1
      /\ attempts'[attempt + 1] = code
      /\ \A n \in 1..attempt : attempts'[n] = attempts[n]
  BY <1>1 DEF Fails
<1>3. attempt' = attempt /\ slept' = slept
  BY DEF Fails, Sleep, Finish
<1>4. HttpTypeOK'
  BY <1>1, <1>2, <1>3 DEF Fails, Sleep, Finish, HttpSafe, HttpTypeOK, Calls
<1>5. HttpInv'
  <2>1. \A n \in 1..attempt : Repeated(n)'
    BY <1>2 DEF HttpSafe, HttpInv, Repeated
  <2>2. Repeated(attempt + 1)' <=> (code = NoStatus \/ Transient(code))
    BY <1>2, <1>3 DEF Repeated
  <2>3. CASE Sleep
    BY <1>1, <1>2, <1>3, <2>1, <2>2, <2>3 DEF Sleep, Fails, Finish, HttpSafe, HttpInv
  <2>4. CASE call' = "escaped"
    BY <1>1, <1>2, <1>3, <2>1, <2>4 DEF HttpSafe, HttpInv
  <2>5. CASE Finish("raised", code)
    BY <1>1, <1>2, <1>3, <2>1, <2>2, <2>5 DEF Finish, Fails, Sleep, HttpSafe, HttpInv
  <2>6. QED
    BY <2>3, <2>4, <2>5 DEF Fails
<1>6. QED
  BY <1>4, <1>5 DEF HttpSafe

LEMMA WakeSafe == ASSUME HttpSafe, Wake PROVE HttpSafe'
<1> DEFINE Seconds == {2^n : n \in 0..MaxRetries}
           second == 2^attempt
<1>1. /\ attempt \in 0..MaxRetries /\ attempt' = attempt + 1 /\ attempt' \in 0..MaxRetries
      /\ slept \in Seq(Seconds) /\ Len(slept) = attempt /\ second \in Seconds
      /\ slept' = Append(slept, second) /\ second = 2^(attempt' - 1)
      /\ call' = "sending" /\ attempts' = attempts /\ Len(attempts) = attempt + 1
      /\ status' = status /\ retries' = retries
  BY HttpAssumption DEF Wake, HttpSafe, HttpTypeOK, HttpInv
<1> HIDE DEF Seconds, second
<1>2. /\ slept' \in Seq(Seconds) /\ Len(slept') = attempt' /\ slept'[attempt'] = second
      /\ \A n \in 1..attempt : slept'[n] = slept[n]
  BY <1>1
<1>3. HttpTypeOK'
  BY <1>1, <1>2 DEF HttpSafe, HttpTypeOK, Calls, Seconds
<1>4. \A n \in 1..attempt' : slept'[n] = 2^(n - 1)
  <2>1. \A n \in 1..attempt' : n \in 1..attempt \/ n = attempt'
    BY <1>1
  <2>2. QED
    BY <1>1, <1>2, <2>1 DEF HttpSafe, HttpInv
<1>5. \A n \in 1..attempt' : Repeated(n)'
  <2>1. \A n \in 1..attempt' : n \in 1..attempt \/ n = attempt + 1
    BY <1>1
  <2>2. \A n \in 1..attempt' : Repeated(n)
    BY <2>1 DEF HttpSafe, HttpInv, Wake
  <2>3. QED
    BY <1>1, <2>2 DEF Repeated
<1>6. QED
  BY <1>1, <1>2, <1>3, <1>4, <1>5 DEF HttpSafe, HttpInv

LEMMA HttpStepSafe == ASSUME HttpSafe, HttpStep PROVE HttpSafe'
<1>1. CASE HttpError
  <2>1. PICK code \in Codes : Fails(code)
    BY <1>1, HttpAssumption DEF HttpError, Fails, HttpSafe, HttpTypeOK
  <2>2. QED
    BY <2>1, FailsSafe
<1>2. CASE NetworkError \/ Escape
  <2>1. Fails(NoStatus)
    BY <1>2, HttpAssumption DEF NetworkError, Escape, Fails, HttpSafe, HttpTypeOK
  <2>2. QED
    BY <2>1, FailsSafe
<1>3. QED
  BY <1>1, <1>2, RespondSafe, WakeSafe DEF HttpStep

LEMMA NextHttpSafe == ASSUME HttpSafe, [Next]_vars PROVE HttpSafe'
<1>1. CASE UNCHANGED httpVars
  BY <1>1 DEF httpVars, HttpSafe, HttpTypeOK, HttpInv, Repeated
<1>2. CASE Reset
  BY <1>2, ResetSafe
<1>3. CASE Ask
  BY <1>3, RequestSafe DEF Ask
<1>4. CASE Transfer
  BY <1>4, HttpStepSafe DEF Transfer
<1>5. QED
  BY <1>1, <1>2, <1>3, <1>4
     DEF Next, Step, Start, Accept, AskAgain, GiveUp, NextArea, WriteManifest, WriteMember,
         WriteState, ProcessGone, Crash, vars

LEMMA SpecHttpSafe == Spec => []HttpSafe
<1>1. Init => HttpSafe
  BY HttpAssumption DEF Init, HttpInit, HttpSafe, HttpTypeOK, HttpInv, Calls
<1>2. QED
  BY <1>1, NextHttpSafe, PTL DEF Spec

\* A call of the client that is over retried what was worth retrying and no
\* more, slept once before each retry, twice as long each time, and reports the
\* retries and the status of its last attempt, for any number of retries and
\* whatever the server answers in whatever order.
THEOREM RetriesAreExact == Spec => []RetriesExact
<1>1. HttpSafe => RetriesExact
  <2> SUFFICES ASSUME HttpSafe, call \in {"returned", "raised"} PROVE RetriesExact
    BY DEF RetriesExact
  <2>1. attempt \in 0..MaxRetries /\ MaxRetries \in Nat /\ retries = attempt
    BY HttpAssumption DEF HttpSafe, HttpTypeOK, HttpInv
  <2>2. QED
    BY <2>1 DEF HttpSafe, HttpInv, Repeated, RetriesExact
<1>2. QED
  BY <1>1, SpecHttpSafe, PTL

\* Every variable of the collector and of its client keeps its type, whatever
\* the constants.
THEOREM CloudTypeCorrect == Spec => []TypeOK
<1>1. Safe /\ HttpSafe => TypeOK
  BY DEF Safe, TypeInv, HttpSafe, TypeOK
<1>2. QED
  BY <1>1, SpecSafe, SpecHttpSafe, PTL
=============================================================================
