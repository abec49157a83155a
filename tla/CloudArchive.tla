---------------------------- MODULE CloudArchive ----------------------------
(***************************************************************************)
(* collect_cloud_archive: the Seoul collector of the data branch.  A run   *)
(* asks every area in order, in JSON and, when that fails in whatever way, *)
(* in XML, each time through HttpClient.  Then, as the airport collector   *)
(* does, it writes the manifest, the bundle and the state file in this     *)
(* order, and may die between any two steps.                               *)
(*                                                                         *)
(* It differs from the airport collector where it matters to the archive:  *)
(* a repeated answer is DUPLICATE even when sections are missing, a run    *)
(* with PARTIAL answers is a SUCCESS, and one area only is asked as long   *)
(* as the repository secret is not set (SAMPLE).                           *)
(***************************************************************************)
EXTENDS ScheduleHealth, HttpClient, FiniteSets

CONSTANTS
    Area,           \* area names
    SeedPlaces,     \* SEED_PLACES: the areas in the order they are asked
    SampleArea,     \* the area of the official sample key
    Body,           \* response bodies
    Answers,        \* the bodies the API may send, by response type
    Rejected,       \* bodies parse_payload or _validate_api raises on
    Lacking,        \* bodies without some of EXPECTED_SECTIONS
    CadenceSeconds, \* CLOUD_CADENCE_SECONDS
    RunModes,       \* the modes runs are started in
    CanCrash,       \* may the process die?
    Gaps,           \* clock advances between two runs      (bound)
    MaxRuns         \* number of runs                       (bound)

ASSUME AreasAssumption ==
    /\ SeedPlaces \in Seq(Area) /\ SampleArea \in Area
    /\ \A a \in Area : \E i \in 1..Len(SeedPlaces) : SeedPlaces[i] = a
    /\ \A i, j \in 1..Len(SeedPlaces) : SeedPlaces[i] = SeedPlaces[j] => i = j

ASSUME AnswersAssumption ==
    /\ Answers \in [{"json", "xml"} -> SUBSET Body]
    /\ Rejected \subseteq Body /\ Lacking \subseteq Body /\ None \notin Body

ASSUME CloudInputsAssumption ==
    /\ CadenceSeconds \in Nat \ {0} /\ MaxRuns \in Nat /\ Gaps \subseteq Nat
    /\ RunModes \subseteq {"SAMPLE", "SEED_COHORT"} /\ CanCrash \in BOOLEAN

VARIABLES
    state, manifests, bundles,  \* the asset directory
    pc, run, now, mode,         \* the process
    areasState,                 \* state["areas"] in memory
    pos,                        \* index of the current area
    kind,                       \* response_type of the current request
    records, payloads,
    finished,                   \* history: runs that replaced the state file
    died                        \* history: runs whose process was killed

disk      == <<state, manifests, bundles>>
cloudVars == <<disk, pc, run, now, mode, areasState, pos, kind, records, payloads, finished, died>>
vars      == <<cloudVars, httpVars>>

Run      == 1..MaxRuns
Overall  == {"SUCCESS", "PARTIAL", "FAILED"}
Entry    == [content_hash : Body, collected_at : Nat, status : {"OK", "PARTIAL", "DUPLICATE"}]
Record   == [status : {"OK", "PARTIAL", "DUPLICATE", "ERROR"}, content_hash : Body \cup {None},
             raw_member : BOOLEAN, missing : BOOLEAN]
Manifest == [status : Overall, collected_at : Nat, records : [Area -> Record \cup {None}],
             schedule : {"NO_BASELINE", "OK", "WARNING"}]

ASSUME CloudNoneAssumption ==
    None \notin Entry /\ None \notin Record /\ None \notin Manifest /\ None \notin Nat

TypeOK ==
    /\ state \in [areas : [Area -> Entry \cup {None}], updated_at : Nat \cup {None},
                  last_status : Overall \cup {None}]
    /\ manifests \in [Run -> Manifest \cup {None}]
    /\ bundles \in [Run -> SUBSET (Area \X Body)]
    /\ pc \in {"idle", "areas", "bundle", "state"}
    /\ run \in 0..MaxRuns /\ now \in Nat /\ mode \in {"SAMPLE", "SEED_COHORT"}
    /\ areasState \in [Area -> Entry \cup {None}]
    /\ pos \in 1..(Len(SeedPlaces) + 1) /\ kind \in {"json", "xml"}
    /\ records \in [Area -> Record \cup {None}] /\ payloads \subseteq Area \X Body
    /\ finished \subseteq Run /\ died \subseteq Run
    /\ HttpTypeOK

-----------------------------------------------------------------------------
NoAreas == [a \in Area |-> None]

Init ==
    /\ state = [areas |-> NoAreas, updated_at |-> None, last_status |-> None]
    /\ manifests = [r \in Run |-> None] /\ bundles = [r \in Run |-> {}]
    /\ pc = "idle" /\ run = 0 /\ now = 0 /\ mode = "SAMPLE"
    /\ areasState = NoAreas /\ pos = 1 /\ kind = "json"
    /\ records = NoAreas /\ payloads = {} /\ finished = {} /\ died = {}
    /\ HttpInit

\* What is lost when the process ends, in one canonical form.
ProcessGone ==
    /\ pc' = "idle" /\ mode' = "SAMPLE" /\ areasState' = NoAreas
    /\ pos' = 1 /\ kind' = "json" /\ records' = NoAreas /\ payloads' = {}
    /\ Reset

Start ==
    /\ pc = "idle" /\ run < MaxRuns
    /\ pc' = "areas" /\ run' = run + 1
    /\ \E d \in Gaps : now' = now + d
    /\ mode' \in RunModes
    /\ areasState' = state.areas
    /\ UNCHANGED <<disk, pos, kind, records, payloads, finished, died, httpVars>>

-----------------------------------------------------------------------------
(* The area loop.  _request_area is Ask, the steps of HttpClient, and one  *)
(* of Accept, AskAgain and GiveUp.                                         *)

areas    == IF mode = "SAMPLE" THEN <<SampleArea>> ELSE SeedPlaces
area     == areas[pos]
InLoop   == pc = "areas" /\ pos <= Len(areas)
LoopDone == pc = "areas" /\ pos > Len(areas)

Ask ==
    /\ InLoop /\ Request
    /\ UNCHANGED cloudVars

Transfer ==
    /\ InLoop /\ HttpStep
    /\ UNCHANGED cloudVars

NextArea == pos' = pos + 1 /\ kind' = "json" /\ Reset

\* Mutant: the answer is compared with the hashes of all areas.
DuplicateOfAnyArea(body) ==
    \E a \in Area : areasState[a] # None /\ areasState[a].content_hash = body

Duplicate(body) == areasState[area] # None /\ areasState[area].content_hash = body

\* The answer parses and carries no error code.
Accept ==
    /\ InLoop /\ call = "returned"
    /\ \E body \in Answers[kind] \ Rejected :
          LET missing == body \in Lacking
              verdict == IF Duplicate(body) THEN "DUPLICATE" ELSE IF missing THEN "PARTIAL" ELSE "OK"
          IN /\ payloads' = IF Duplicate(body) THEN payloads ELSE payloads \cup {<<area, body>>}
             /\ records' = [records EXCEPT ![area] =
                   [status |-> verdict, content_hash |-> body, raw_member |-> ~Duplicate(body),
                    missing |-> missing]]
             /\ areasState' = [areasState EXCEPT ![area] =
                   [content_hash |-> body, collected_at |-> now, status |-> verdict]]
    /\ NextArea
    /\ UNCHANGED <<disk, pc, run, now, mode, finished, died>>

\* The request raised, or its answer does.
Failed ==
    \/ call \in {"raised", "escaped"}
    \/ call = "returned" /\ Answers[kind] \cap Rejected # {}

\* Mutant: the second request is in JSON again.
AskAgainInJson ==
    /\ InLoop /\ Failed /\ kind = "json"
    /\ kind' = "json" /\ Reset
    /\ UNCHANGED <<disk, pc, run, now, mode, areasState, pos, records, payloads, finished, died>>

AskAgain ==
    /\ InLoop /\ Failed /\ kind = "json"
    /\ kind' = "xml" /\ Reset
    /\ UNCHANGED <<disk, pc, run, now, mode, areasState, pos, records, payloads, finished, died>>

\* Mutant: a failed area loses its entry in the state.
GiveUpForgets ==
    /\ InLoop /\ Failed /\ kind = "xml"
    /\ records' = [records EXCEPT ![area] =
          [status |-> "ERROR", content_hash |-> None, raw_member |-> FALSE,
           missing |-> TRUE]]
    /\ areasState' = [areasState EXCEPT ![area] = None]
    /\ NextArea
    /\ UNCHANGED <<disk, pc, run, now, mode, payloads, finished, died>>

\* Mutant: the failure of the second request is not caught.
GiveUpRaises ==
    /\ InLoop /\ Failed /\ kind = "xml"
    /\ ProcessGone
    /\ UNCHANGED <<disk, run, now, finished, died>>

GiveUp ==
    /\ InLoop /\ Failed /\ kind = "xml"
    /\ records' = [records EXCEPT ![area] =
          [status |-> "ERROR", content_hash |-> None, raw_member |-> FALSE,
           missing |-> TRUE]]
    /\ NextArea
    /\ UNCHANGED <<disk, pc, run, now, mode, areasState, payloads, finished, died>>

-----------------------------------------------------------------------------
(* After the loop.                                                          *)

Asked          == {a \in Area : records[a] # None}
With(statuses) == {a \in Asked : records[a].status \in statuses}

OverallStatus ==
    IF With({"ERROR"}) = {} THEN "SUCCESS"
    ELSE IF With({"OK", "PARTIAL", "DUPLICATE"}) # {} THEN "PARTIAL" ELSE "FAILED"

WriteManifest ==
    /\ LoopDone
    /\ manifests' = [manifests EXCEPT ![run] =
          [status |-> OverallStatus, collected_at |-> now, records |-> records,
           schedule |-> schedule_health(state.updated_at, now, CadenceSeconds).status]]
    /\ pc' = IF payloads = {} THEN "state" ELSE "bundle"
    /\ UNCHANGED <<state, bundles, run, now, mode, areasState, pos, kind, records,
                   payloads, finished, died, httpVars>>

\* tarfile writes straight to the final path, one member after the other.
WriteMember ==
    /\ pc = "bundle"
    /\ \E p \in payloads \ bundles[run] :
          /\ bundles' = [bundles EXCEPT ![run] = @ \cup {p}]
          /\ pc' = IF payloads \subseteq bundles'[run] THEN "state" ELSE "bundle"
    /\ UNCHANGED <<state, manifests, run, now, mode, areasState, pos, kind, records,
                   payloads, finished, died, httpVars>>

WriteState ==
    /\ pc = "state"
    /\ state' = [areas |-> areasState, updated_at |-> now, last_status |-> OverallStatus]
    /\ finished' = finished \cup {run}
    /\ ProcessGone
    /\ UNCHANGED <<manifests, bundles, run, now, died>>

Crash ==
    /\ CanCrash /\ pc # "idle"
    /\ ProcessGone
    /\ died' = died \cup {run}
    /\ UNCHANGED <<disk, run, now, finished>>

Step == \/ Ask \/ Transfer \/ Accept \/ AskAgain \/ GiveUp
        \/ WriteManifest \/ WriteMember \/ WriteState

Next == Start \/ Step \/ Crash

Spec == Init /\ [][Next]_vars

\* A request ends by its timeouts, a sleep by its length, and a run waits for
\* no other process.
FairSpec == Spec /\ WF_vars(Step)

-----------------------------------------------------------------------------
(***************************************************************************)
(* Safety.                                                                 *)
(***************************************************************************)

\* The runs before r that published their state and in which a answered.
Answered(a, r) ==
    {q \in finished : q < r /\ manifests[q].records[a] # None
                            /\ manifests[q].records[a].status # "ERROR"}

\* A manifest says DUPLICATE of an area exactly when the last published answer
\* of that area, errors, sample runs and interrupted runs in between left
\* aside, was the same body; a body masked as DUPLICATE though sections are
\* missing is still counted as missing, and was reported PARTIAL when it was
\* stored.
DedupeExact ==
    \A r \in Run : manifests[r] # None =>
       \A a \in Area :
          LET rec == manifests[r].records[a]
              before == Answered(a, r)
          IN rec # None /\ rec.status # "ERROR" =>
                /\ rec.status = "DUPLICATE" <=>
                      \E q \in before :
                         /\ \A p \in before : p <= q
                         /\ manifests[q].records[a].content_hash = rec.content_hash
                /\ rec.status = "DUPLICATE" /\ rec.missing =>
                      \E q \in before :
                         /\ manifests[q].records[a].content_hash = rec.content_hash
                         /\ manifests[q].records[a].status = "PARTIAL"

(***************************************************************************)
(* Refinement.                                                             *)
(***************************************************************************)
storedPayloads == UNION {bundles[r] : r \in Run}

latestHashes == [a \in Area |-> IF state.areas[a] = None THEN None
                                ELSE state.areas[a].content_hash]

Archive == INSTANCE PayloadArchive
              WITH Source <- Area, Content <- Body, stored <- storedPayloads, latest <- latestHashes

\* The Seoul collector keeps the same promise about raw payloads as the airport
\* collector: every step, a crash included, is a step of the abstract archive.
\* The state file never names a body that no bundle holds, whatever died where.
ImplementsArchive == Archive!Spec

(***************************************************************************)
(* Liveness: whatever the API answers, and in whatever format it fails, a  *)
(* run ends, and one that is not killed ends with its state file.          *)
(***************************************************************************)
RunEnds == []<>(pc = "idle" /\ 1..run \subseteq finished \cup died)
=============================================================================
