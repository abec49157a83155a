----------------------- MODULE AirportFrictionProofs -----------------------
(***************************************************************************)
(* The archive of the airport collector, for any sources, bodies, failures *)
(* and numbers of runs: it is well typed, sound and an implementation of   *)
(* PayloadArchive.                                                         *)
(***************************************************************************)
EXTENDS AirportFriction, FiniteSetTheorems, TLAPS

(***************************************************************************)
(* Type correctness.                                                       *)
(***************************************************************************)
TypeInv == TypeOK /\ IsFiniteSet(payloads)

\* The part of TypeInv about what a process loses when it ends.
ProcessType ==
    /\ pc \in {"idle", "collect", "bundle", "state"} /\ mem \in StateFile
    /\ mode \in {"live", "fixture"} /\ force \in BOOLEAN /\ credentialed \subseteq Source
    /\ pos \in 1..(Len(Specs) + 1) /\ pages \in Content
    /\ obs \in [Source -> Observation \cup {None}]
    /\ payloads \subseteq Source \X Content /\ IsFiniteSet(payloads)
    /\ kacFailures \in Nat /\ kacCircuit \in BOOLEAN /\ alerts \subseteq Causes

\* The loop index names a source while there is one left.
LEMMA SrcType == ASSUME TypeOK, InLoop PROVE src \in Source
  BY SourcesAssumption DEF TypeOK, InLoop, src

LEMMA EmptyStateType == EmptyState \in StateFile
  BY DEF EmptyState, StateFile

LEMMA SpecsLength == Len(Specs) \in Nat
  BY SourcesAssumption

LEMMA NextPos == ASSUME TypeOK, InLoop PROVE pos + 1 \in 1..(Len(Specs) + 1)
  BY SpecsLength DEF TypeOK, InLoop

LEMMA ProcessGoneType == ProcessGone => ProcessType'
<1> SUFFICES ASSUME ProcessGone PROVE ProcessType'
  OBVIOUS
<1>1. pos' \in 1..(Len(Specs) + 1)
  BY SpecsLength DEF ProcessGone
<1>2. pages' \in Content /\ payloads' \subseteq Source \X Content /\ IsFiniteSet(payloads')
  BY FS_EmptySet DEF ProcessGone, Content
<1>3. obs' \in [Source -> Observation \cup {None}]
  BY DEF ProcessGone
<1>4. mem' \in StateFile
  BY EmptyStateType DEF ProcessGone
<1>5. QED
  BY <1>1, <1>2, <1>3, <1>4 DEF ProcessGone, ProcessType

LEMMA InitType == Init => TypeInv
<1> SUFFICES ASSUME Init PROVE TypeInv
  OBVIOUS
<1>1. pos \in 1..(Len(Specs) + 1)
  BY SpecsLength DEF Init
<1>2. /\ pages \in Content /\ payloads \subseteq Source \X Content /\ IsFiniteSet(payloads)
      /\ bundles \in [Run -> SUBSET (Source \X Content)]
  BY FS_EmptySet DEF Init, Content
<1>3. state \in StateFile /\ mem \in StateFile
  BY EmptyStateType DEF Init
<1>4. /\ obs \in [Source -> Observation \cup {None}]
      /\ manifests \in [Run -> Manifest \cup {None}]
  BY DEF Init
<1>5. run \in 0..MaxRuns
  BY NumbersAssumption DEF Init
<1>6. QED
  BY <1>1, <1>2, <1>3, <1>4, <1>5 DEF Init, TypeInv, TypeOK

LEMMA ObservedType ==
    ASSUME TypeOK, InLoop, NEW status \in Statuses, NEW content \in Content \cup {None},
           NEW stored \in BOOLEAN, NEW cause \in Causes,
           Observed(status, content, stored, cause)
    PROVE  obs' \in [Source -> Observation \cup {None}]
  BY SrcType DEF Observed, TypeOK, Observation

LEMMA StartType == TypeInv /\ Start => TypeInv'
  BY NumbersAssumption, InputsAssumption, BodiesAssumption
  DEF TypeInv, TypeOK, Start, disk, request, Run

LEMMA CircuitOpenType == TypeInv /\ CircuitOpen => TypeInv'
<1> SUFFICES ASSUME TypeInv, CircuitOpen PROVE TypeInv'
  OBVIOUS
<1>1. obs' \in [Source -> Observation \cup {None}]
  BY ObservedType DEF CircuitOpen, TypeInv, Statuses, Causes
<1>2. pos' \in 1..(Len(Specs) + 1) /\ pages' \in Content
  BY NextPos DEF CircuitOpen, TypeInv, NextSource, Content
<1>3. QED
  BY <1>1, <1>2 DEF CircuitOpen, TypeInv, TypeOK, disk, clock, inputs

LEMMA SkipNotDueType == TypeInv /\ SkipNotDue => TypeInv'
<1> SUFFICES ASSUME TypeInv, SkipNotDue PROVE TypeInv'
  OBVIOUS
<1>1. IF mem.sources[src] = None THEN TRUE ELSE mem.sources[src].content \in Content
  BY SrcType DEF SkipNotDue, TypeInv, TypeOK, StateFile, Entry
<1>2. obs' \in [Source -> Observation \cup {None}]
  BY <1>1, ObservedType DEF SkipNotDue, TypeInv, Statuses, Causes
<1>3. pos' \in 1..(Len(Specs) + 1) /\ pages' \in Content
  BY NextPos DEF SkipNotDue, TypeInv, NextSource, Content
<1>4. QED
  BY <1>2, <1>3 DEF SkipNotDue, TypeInv, TypeOK, disk, clock, inputs

\* The variables a page of an answer may change.
LEMMA AcceptType ==
    ASSUME TypeInv, InLoop, NEW content \in Content, Accept(content)
    PROVE  /\ payloads' \subseteq Source \X Content /\ IsFiniteSet(payloads')
           /\ obs' \in [Source -> Observation \cup {None}]
           /\ kacFailures' \in Nat /\ mem' \in StateFile
           /\ pos' \in 1..(Len(Specs) + 1) /\ pages' \in Content
<1> DEFINE duplicate == mem.sources[src] # None /\ mem.sources[src].content = content
           status == IF _missing_fields(src, content) THEN "PARTIAL"
                     ELSE IF duplicate THEN "DUPLICATE" ELSE "OK"
<1>1. src \in Source
  BY SrcType DEF TypeInv
<1>2. payloads' = payloads \/ payloads' = payloads \cup {<<src, content>>}
  BY DEF Accept
<1>3. payloads' \subseteq Source \X Content /\ IsFiniteSet(payloads')
  <2>1. IsFiniteSet(payloads \cup {<<src, content>>})
    BY FS_AddElement DEF TypeInv
  <2>2. payloads \cup {<<src, content>>} \subseteq Source \X Content
    BY <1>1 DEF TypeInv, TypeOK
  <2>3. QED
    BY <1>2, <2>1, <2>2 DEF TypeInv, TypeOK
<1>4. obs' \in [Source -> Observation \cup {None}]
  <2>1. Observed(status, content, ~duplicate, "none")
    BY DEF Accept
  <2>2. status \in Statuses /\ (~duplicate) \in BOOLEAN /\ "none" \in Causes
    BY Zenon DEF Statuses, Success, Causes
  <2> HIDE DEF duplicate, status
  <2>3. QED
    BY <2>1, <2>2, ObservedType DEF TypeInv
<1>5. mem' \in StateFile
  BY <1>1 DEF Accept, TypeInv, TypeOK, StateFile, Entry
<1>6. pos' \in 1..(Len(Specs) + 1) /\ pages' \in Content /\ kacFailures' \in Nat
  BY NextPos DEF Accept, TypeInv, TypeOK, NextSource, Content
<1>7. QED
  BY <1>3, <1>4, <1>5, <1>6

LEMMA RespondType ==
    ASSUME TypeInv, InLoop, NEW body \in Body, Respond(body)
    PROVE  /\ payloads' \subseteq Source \X Content /\ IsFiniteSet(payloads')
           /\ obs' \in [Source -> Observation \cup {None}]
           /\ kacFailures' \in Nat /\ mem' \in StateFile
           /\ pos' \in 1..(Len(Specs) + 1) /\ pages' \in Content
<1>1. Append(pages, body) \in Content
  BY DEF TypeInv, TypeOK, Content
<1>2. CASE pages' = Append(pages, body) /\ UNCHANGED <<mem, pos, obs, payloads, kacFailures>>
  BY <1>1, <1>2 DEF TypeInv, TypeOK
<1>3. CASE Accept(Append(pages, body))
  BY <1>1, <1>3, AcceptType
<1>4. QED
  BY <1>2, <1>3 DEF Respond

LEMMA PageType == TypeInv /\ (FixturePage \/ LivePage) => TypeInv'
<1> SUFFICES ASSUME TypeInv, FixturePage \/ LivePage PROVE TypeInv'
  OBVIOUS
<1>1. PICK body \in Body : InLoop /\ Respond(body)
  BY BodiesAssumption DEF FixturePage, LivePage, Asking
<1>2. UNCHANGED <<disk, pc, clock, inputs, kacCircuit, alerts, finished>>
  BY DEF FixturePage, LivePage
<1>3. QED
  BY <1>1, <1>2, RespondType DEF TypeInv, TypeOK, disk, clock, inputs

LEMMA FailType ==
    ASSUME TypeInv, InLoop, NEW kind \in Causes, Fail(kind)
    PROVE  TypeInv'
<1>1. obs' \in [Source -> Observation \cup {None}]
  <2>1. Observed("ERROR", None, FALSE, kind)
    BY DEF Fail
  <2>2. QED
    BY <2>1, ObservedType DEF TypeInv, Statuses
<1>2. pos' \in 1..(Len(Specs) + 1) /\ pages' \in Content
  BY NextPos DEF Fail, TypeInv, NextSource, Content
<1>3. kacFailures' \in Nat /\ alerts' \subseteq Causes
  BY DEF Fail, TypeInv, TypeOK
<1>6. kacCircuit' \in BOOLEAN
  <2> DEFINE failures == IF kind = "transport" THEN kacFailures + 1 ELSE 0
  <2>1. (failures >= 2) \in BOOLEAN
    OBVIOUS
  <2>2. kacCircuit' = (failures >= 2) \/ kacCircuit' = kacCircuit
    BY Zenon DEF Fail
  <2> HIDE DEF failures
  <2>3. QED
    BY <2>1, <2>2, Zenon DEF TypeInv, TypeOK
<1>4. UNCHANGED <<disk, pc, clock, inputs, mem, payloads, finished>>
  BY DEF Fail
<1>5. QED
  BY <1>1, <1>2, <1>3, <1>4, <1>6 DEF TypeInv, TypeOK, disk, clock, inputs

LEMMA FailureKind ==
    ASSUME RequestFails \/ CredentialMissing \/ FixtureMissing
    PROVE  \E kind \in Causes : InLoop /\ Fail(kind)
<1>1. Failures \subseteq Causes /\ "credential" \in Causes /\ "unexpected" \in Causes
  BY InputsAssumption DEF Causes, FailureKinds
<1>2. CASE RequestFails
  BY <1>1, <1>2 DEF RequestFails, Asking
<1>3. CASE CredentialMissing
  BY <1>1, <1>3 DEF CredentialMissing, Asking
<1>4. CASE FixtureMissing
  BY <1>1, <1>4 DEF FixtureMissing, Asking
<1>5. QED
  BY <1>2, <1>3, <1>4

LEMMA FailuresType ==
    TypeInv /\ (RequestFails \/ CredentialMissing \/ FixtureMissing) => TypeInv'
<1> SUFFICES ASSUME TypeInv, RequestFails \/ CredentialMissing \/ FixtureMissing
             PROVE  TypeInv'
  OBVIOUS
<1>1. PICK kind \in Causes : InLoop /\ Fail(kind)
  BY FailureKind
<1>2. QED
  BY <1>1, FailType

LEMMA HealthType ==
    ASSUME NEW updatedAt \in Nat \cup {None}, NEW t \in Nat, NEW cadence \in Nat \ {0}
    PROVE  schedule_health(updatedAt, t, cadence) \in Health
<1>1. CASE updatedAt = None
  BY <1>1 DEF schedule_health, Health
<1>2. CASE updatedAt # None
  <2>1. Elapsed(updatedAt, t) \in Int
    BY <1>2 DEF Elapsed, NotBelowZero
  <2>2. Elapsed(updatedAt, t) \div cadence \in Int
    BY <2>1
  <2>3. QED
    BY <1>2, <2>1, <2>2 DEF schedule_health, Health, NotBelowZero
<1>3. QED
  BY <1>1, <1>2

LEMMA WriteManifestType ==
    ASSUME TypeInv, run \in Run, WriteManifest, obs \in [Source -> Observation]
    PROVE  TypeInv' /\ manifests'[run] \in Manifest
<1>1. Cardinality(payloads) \in Nat
  BY FS_CardinalityType DEF TypeInv
<1> DEFINE m == [mode |-> mode, status |-> OverallStatus, collected_at |-> now, obs |-> obs,
                 gaps |-> SourceGaps,
                 health |-> schedule_health(state.updated_at, now, CadenceSeconds),
                 alerts |-> alerts, new_payloads |-> Cardinality(payloads)]
<1>2. m \in Manifest
  <2>1. schedule_health(state.updated_at, now, CadenceSeconds) \in Health
    BY HealthType, NumbersAssumption DEF TypeInv, TypeOK, StateFile
  <2>2. OverallStatus \in Overall /\ SourceGaps \subseteq Source
    BY DEF OverallStatus, Overall, SourceGaps
  <2>3. QED
    BY <1>1, <2>1, <2>2 DEF Manifest, TypeInv, TypeOK
<1>3. manifests' = [manifests EXCEPT ![run] = m]
  BY DEF WriteManifest
<1> HIDE DEF m
<1>4. manifests' \in [Run -> Manifest \cup {None}] /\ manifests'[run] \in Manifest
  BY <1>2, <1>3 DEF TypeInv, TypeOK
<1>5. mem' \in StateFile
  <2>1. mem \in StateFile /\ mem.stored_payloads + Cardinality(payloads) \in Nat
    BY <1>1 DEF TypeInv, TypeOK, StateFile
  <2>2. mem' = [mem EXCEPT !.stored_payloads = mem.stored_payloads + Cardinality(payloads)]
    BY DEF WriteManifest
  <2>3. QED
    BY <2>1, <2>2 DEF StateFile
<1>6. QED
  BY <1>4, <1>5 DEF WriteManifest, TypeInv, TypeOK, clock, inputs, request

(***************************************************************************)
(* Progress of a run: the facts later steps of a run rely on.              *)
(***************************************************************************)
Progress ==
    /\ pc = "idle" => pos = 1
    /\ pc # "idle" => run \in Run
    /\ pc = "collect" => \A k \in 1..(pos - 1) : obs[Specs[k]] # None
    /\ pc \in {"bundle", "state"} => manifests[run] # None

Inv1 == TypeInv /\ Progress

\* Observing the current source makes an observation of it.
LEMMA ObservedProgress ==
    ASSUME Inv1, InLoop, NEW status \in Statuses, NEW content \in Content \cup {None},
           NEW stored \in BOOLEAN, NEW cause \in Causes,
           Observed(status, content, stored, cause),
           obs' \in [Source -> Observation \cup {None}],
           NextSource, UNCHANGED <<pc, run, manifests>>
    PROVE  Progress'
<1> DEFINE o == [status |-> status, content |-> content, stored |-> stored, cause |-> cause]
<1>1. obs' = [obs EXCEPT ![src] = o] /\ src \in Source
  BY SrcType DEF Observed, Inv1, TypeInv
<1>2. obs'[src] = o
  BY <1>1 DEF Inv1, TypeInv, TypeOK
<1>3. o # None
  BY NoneAssumption DEF Observation
<1>4. ASSUME NEW k \in 1..(pos' - 1) PROVE obs'[Specs[k]] # None
  <2>1. CASE k = pos
    BY <1>2, <1>3, <2>1 DEF src
  <2>2. CASE k # pos
    <3>1. k \in 1..(pos - 1) /\ k \in 1..Len(Specs) /\ pos \in 1..Len(Specs)
      BY <2>2, SpecsLength DEF NextSource, InLoop, Inv1, TypeInv, TypeOK
    <3>2. Specs[k] \in Source
      BY <3>1, SourcesAssumption
    <3>3. obs[Specs[k]] # None
      BY <3>1 DEF Inv1, Progress, InLoop
    <3>4. Specs[k] # src
      BY <2>2, <3>1, SourcesAssumption DEF src
    <3>5. QED
      BY <1>1, <3>2, <3>3, <3>4 DEF Inv1, TypeInv, TypeOK
  <2>3. QED
    BY <2>1, <2>2
<1>5. QED
  BY <1>4 DEF Inv1, Progress, InLoop

LEMMA InitProgress == Init => Progress
  BY DEF Init, Progress

LEMMA StartProgress == Inv1 /\ Start => Progress'
<1> SUFFICES ASSUME Inv1, Start PROVE Progress'
  OBVIOUS
<1>1. run' \in Run
  BY NumbersAssumption DEF Start, Inv1, TypeInv, TypeOK, Run
<1>2. pc' = "collect" /\ pos' = 1
  BY DEF Start, Inv1, Progress, request
<1>3. QED
  BY <1>1, <1>2 DEF Progress

LEMMA SkipProgress == Inv1 /\ (CircuitOpen \/ SkipNotDue) => Progress'
<1>1. ASSUME Inv1, CircuitOpen PROVE Progress'
  <2>1. obs' \in [Source -> Observation \cup {None}]
    BY <1>1, CircuitOpenType DEF Inv1, TypeInv, TypeOK
  <2>2. /\ InLoop /\ NextSource /\ Observed("ERROR", None, FALSE, "circuit")
        /\ UNCHANGED <<pc, run, manifests>>
    BY <1>1 DEF CircuitOpen, disk, clock
  <2>3. "ERROR" \in Statuses /\ "circuit" \in Causes
    BY DEF Statuses, Causes
  <2>4. QED
    BY <1>1, <2>1, <2>2, <2>3, ObservedProgress
<1>2. ASSUME Inv1, SkipNotDue PROVE Progress'
  <2> DEFINE content == IF mem.sources[src] = None THEN None ELSE mem.sources[src].content
  <2>1. obs' \in [Source -> Observation \cup {None}]
    BY <1>2, SkipNotDueType DEF Inv1, TypeInv, TypeOK
  <2>2. /\ InLoop /\ NextSource /\ Observed("SKIPPED_NOT_DUE", content, FALSE, "none")
        /\ UNCHANGED <<pc, run, manifests>>
    BY <1>2 DEF SkipNotDue, disk, clock
  <2>3. "SKIPPED_NOT_DUE" \in Statuses /\ "none" \in Causes
    BY DEF Statuses, Causes
  <2>4. content \in Content \cup {None}
    BY <1>2, <2>2, SrcType DEF Inv1, TypeInv, TypeOK, StateFile, Entry
  <2> HIDE DEF content
  <2>5. QED
    BY <1>2, <2>1, <2>2, <2>3, <2>4, ObservedProgress
<1>3. QED
  BY <1>1, <1>2

LEMMA PageProgress == Inv1 /\ (FixturePage \/ LivePage) => Progress'
<1> SUFFICES ASSUME Inv1, FixturePage \/ LivePage PROVE Progress'
  OBVIOUS
<1>1. PICK body \in Body : InLoop /\ Respond(body)
  BY BodiesAssumption DEF FixturePage, LivePage, Asking
<1>2. UNCHANGED <<pc, run, manifests>>
  BY DEF FixturePage, LivePage, disk, clock
<1> DEFINE content == Append(pages, body)
           duplicate == mem.sources[src] # None /\ mem.sources[src].content = content
           status == IF _missing_fields(src, content) THEN "PARTIAL"
                     ELSE IF duplicate THEN "DUPLICATE" ELSE "OK"
<1>3. CASE UNCHANGED <<pos, obs>>
  BY <1>1, <1>2, <1>3 DEF Inv1, Progress, InLoop
<1>4. CASE Accept(content)
  <2>1. obs' \in [Source -> Observation \cup {None}]
    BY <1>1, RespondType DEF Inv1
  <2>2. Observed(status, content, ~duplicate, "none") /\ NextSource
    BY <1>4 DEF Accept
  <2>3. status \in Statuses /\ (~duplicate) \in BOOLEAN /\ "none" \in Causes
    BY Zenon DEF Statuses, Success, Causes
  <2>4. content \in Content \cup {None}
    BY DEF Inv1, TypeInv, TypeOK, Content
  <2> HIDE DEF duplicate, status, content
  <2>5. QED
    BY <1>1, <1>2, <2>1, <2>2, <2>3, <2>4, ObservedProgress
<1>5. QED
  BY <1>1, <1>3, <1>4 DEF Respond

LEMMA FailuresProgress ==
    Inv1 /\ (RequestFails \/ CredentialMissing \/ FixtureMissing) => Progress'
<1> SUFFICES ASSUME Inv1, RequestFails \/ CredentialMissing \/ FixtureMissing
             PROVE  Progress'
  OBVIOUS
<1>1. PICK kind \in Causes : InLoop /\ Fail(kind)
  BY FailureKind
<1>2. obs' \in [Source -> Observation \cup {None}]
  BY FailuresType DEF Inv1, TypeInv, TypeOK
<1>3. /\ NextSource /\ Observed("ERROR", None, FALSE, kind)
      /\ UNCHANGED <<pc, run, manifests>>
  BY <1>1 DEF Fail, disk, clock
<1>4. "ERROR" \in Statuses
  BY DEF Statuses
<1>5. QED
  BY <1>1, <1>2, <1>3, <1>4, ObservedProgress

\* After the loop every source has its observation.
LEMMA AllObserved == ASSUME Inv1, LoopDone PROVE obs \in [Source -> Observation]
<1>1. ASSUME NEW s \in Source PROVE obs[s] # None
  <2>1. PICK i \in 1..Len(Specs) : Specs[i] = s
    BY SourcesAssumption
  <2>2. i \in 1..(pos - 1)
    BY SpecsLength DEF LoopDone, Inv1, TypeInv, TypeOK
  <2>3. QED
    BY <2>1, <2>2 DEF LoopDone, Inv1, Progress
<1>2. QED
  BY <1>1 DEF Inv1, TypeInv, TypeOK

LEMMA WritesInv1 ==
    Inv1 /\ (NormalizeFails \/ WriteManifest \/ WriteMember \/ WriteState \/ Crash)
       => Inv1'
<1>1. ASSUME Inv1, ProcessGone, UNCHANGED <<manifests, bundles, run, now>>,
             state' \in StateFile, finished' \subseteq Run
      PROVE  Inv1'
  <2>1. TypeInv'
    BY <1>1, ProcessGoneType DEF Inv1, TypeInv, TypeOK, ProcessType
  <2>2. Progress'
    BY <1>1 DEF Progress, ProcessGone
  <2>3. QED
    BY <2>1, <2>2 DEF Inv1
<1>2. ASSUME Inv1, NormalizeFails \/ Crash PROVE Inv1'
  BY <1>1, <1>2 DEF NormalizeFails, Crash, disk, clock, Inv1, TypeInv, TypeOK
<1>3. ASSUME Inv1, WriteState PROVE Inv1'
  <2>1. run \in Run /\ manifests[run] \in Manifest
    BY <1>3 DEF Inv1, Progress, WriteState, TypeInv, TypeOK
  <2>2. state' \in StateFile
    BY <1>3, <2>1 DEF WriteState, Inv1, TypeInv, TypeOK, StateFile, Manifest
  <2>3. QED
    BY <1>1, <1>3, <2>1, <2>2 DEF WriteState, clock, Inv1, TypeInv, TypeOK
<1>4. ASSUME Inv1, WriteManifest PROVE Inv1'
  <2>1. run \in Run /\ obs \in [Source -> Observation]
    BY <1>4, AllObserved DEF WriteManifest, LoopDone, Inv1, Progress
  <2>2. TypeInv' /\ manifests'[run] \in Manifest
    BY <1>4, <2>1, WriteManifestType DEF Inv1
  <2>3. manifests'[run] # None
    BY <2>2, NoneAssumption
  <2>4. pc' \in {"bundle", "state"} /\ run' = run
    BY <1>4 DEF WriteManifest, clock
  <2>5. QED
    BY <2>1, <2>2, <2>3, <2>4 DEF Inv1, Progress
<1>5. ASSUME Inv1, WriteMember PROVE Inv1'
  <2>1. run \in Run /\ manifests[run] # None
    BY <1>5 DEF WriteMember, Inv1, Progress
  <2>2. pc' \in {"bundle", "state"} /\ UNCHANGED <<state, manifests, clock, inputs, mem, request, finished>>
    BY <1>5 DEF WriteMember
  <2>3. bundles' \in [Run -> SUBSET (Source \X Content)]
    <3>1. PICK p \in payloads : bundles' = [bundles EXCEPT ![run] = @ \cup {p}]
      BY <1>5 DEF WriteMember
    <3>2. bundles[run] \cup {p} \in SUBSET (Source \X Content)
      BY <1>5, <2>1 DEF Inv1, TypeInv, TypeOK
    <3>3. QED
      BY <1>5, <3>1, <3>2 DEF Inv1, TypeInv, TypeOK
  <2>4. TypeInv'
    BY <1>5, <2>2, <2>3 DEF Inv1, TypeInv, TypeOK, clock, inputs, request
  <2>5. Progress'
    BY <2>1, <2>2 DEF Progress, clock
  <2>6. QED
    BY <2>4, <2>5 DEF Inv1
<1>6. QED
  BY <1>2, <1>3, <1>4, <1>5

LEMMA StutterInv1 == Inv1 /\ UNCHANGED vars => Inv1'
  BY DEF Inv1, TypeInv, TypeOK, Progress, vars, disk, clock, inputs, request

LEMMA NextInv1 == Inv1 /\ [Next]_vars => Inv1'
<1> SUFFICES ASSUME Inv1, [Next]_vars PROVE Inv1'
  OBVIOUS
<1>1. CASE Start
  BY <1>1, StartType, StartProgress DEF Inv1
<1>2. CASE CircuitOpen \/ SkipNotDue
  BY <1>2, CircuitOpenType, SkipNotDueType, SkipProgress DEF Inv1
<1>3. CASE FixturePage \/ LivePage
  BY <1>3, PageType, PageProgress DEF Inv1
<1>4. CASE RequestFails \/ CredentialMissing \/ FixtureMissing
  BY <1>4, FailuresType, FailuresProgress DEF Inv1
<1>5. CASE NormalizeFails \/ WriteManifest \/ WriteMember \/ WriteState \/ Crash
  BY <1>5, WritesInv1
<1>6. CASE UNCHANGED vars
  BY <1>6, StutterInv1
<1>7. QED
  BY <1>1, <1>2, <1>3, <1>4, <1>5, <1>6 DEF Next, Step

LEMMA SpecInv1 == Spec => []Inv1
<1>1. Init => Inv1
  BY InitType, InitProgress DEF Inv1
<1>2. QED
  BY <1>1, NextInv1, PTL DEF Spec

\* Every variable of the collector and of the asset directory keeps its type:
\* in particular a manifest only ever holds complete observation maps.
THEOREM TypeCorrect == Spec => []TypeOK
<1>1. Inv1 => TypeOK
  BY DEF Inv1, TypeInv
<1>2. QED
  BY <1>1, SpecInv1, PTL

(***************************************************************************)
(* Nothing is dropped on the word of the state file.  StateHashesStored is *)
(* not inductive: what a run may rely on is what EARLIER runs stored, for  *)
(* the state file while a run is going on, for the entries of the sources  *)
(* not asked yet, and for the observations that list no raw member.        *)
(***************************************************************************)
SinceStart == IF pc = "idle" THEN run ELSE run - 1

BaselineInv ==
    /\ pc = "idle" => mem = EmptyState /\ obs = [s \in Source |-> None]
    /\ pc = "state" => payloads \subseteq bundles[run]
    /\ \A s \in Source : state.sources[s] # None =>
          Stored(s, state.sources[s].content, SinceStart)
    /\ \A s \in Source : mem.sources[s] # None =>
          \/ Stored(s, mem.sources[s].content, run - 1)
          \/ <<s, mem.sources[s].content>> \in payloads
    /\ pc = "collect" => \A k \in pos..Len(Specs) :
          mem.sources[Specs[k]] = state.sources[Specs[k]]
    /\ pc # "idle" => \A s \in Source :
          state.sources[s] # None => mem.sources[s] # None
    /\ \A s \in Source : obs[s] # None =>
          (obs[s].content # None /\ ~obs[s].stored => Stored(s, obs[s].content, run - 1))
    /\ ReferencesResolve

Inv2 == Inv1 /\ BaselineInv

LEMMA StoredUpTo ==
    ASSUME NEW s, NEW content, NEW m \in Int, NEW n \in Int, m <= n, Stored(s, content, m)
    PROVE  Stored(s, content, n)
  BY DEF Stored

\* Members are only ever added to a bundle.
BundlesGrow == \A r \in Run : bundles[r] \subseteq bundles'[r]

LEMMA StoredGrows ==
    ASSUME BundlesGrow, NEW s, NEW content, NEW n \in Int, n <= MaxRuns,
           Stored(s, content, n)
    PROVE  \E r \in 1..n : <<s, content>> \in bundles'[r]
  BY NumbersAssumption DEF Stored, BundlesGrow, Run

LEMMA NextGrows == Inv1 /\ [Next]_vars => BundlesGrow
<1> SUFFICES ASSUME Inv1, [Next]_vars PROVE BundlesGrow
  OBVIOUS
<1>1. CASE UNCHANGED bundles
  BY <1>1 DEF BundlesGrow
<1>2. CASE WriteMember
  <2>1. PICK p \in payloads : bundles' = [bundles EXCEPT ![run] = @ \cup {p}]
    BY <1>2 DEF WriteMember
  <2>2. QED
    BY <2>1 DEF BundlesGrow, Inv1, TypeInv, TypeOK
<1>3. QED
  BY <1>1, <1>2
  DEF Next, Step, Start, CircuitOpen, SkipNotDue, FixturePage, LivePage, RequestFails,
      CredentialMissing, FixtureMissing, Fail, NormalizeFails, WriteManifest, WriteState,
      Crash, vars, disk

LEMMA InitBaseline == Init => BaselineInv
  BY DEF Init, BaselineInv, EmptyState, ReferencesResolve, Run

LEMMA StartBaseline == Inv2 /\ Start => BaselineInv'
<1> SUFFICES ASSUME Inv2, Start PROVE BaselineInv'
  OBVIOUS
<1>1. /\ pc = "idle" /\ pc' = "collect" /\ run' = run + 1 /\ run \in Nat /\ mem' = state
      /\ UNCHANGED <<state, bundles, manifests, obs>>
  BY DEF Start, Inv2, Inv1, TypeInv, TypeOK, disk, request
<1>2. SinceStart = run /\ SinceStart' = run /\ run' - 1 = run
  BY <1>1 DEF SinceStart
<1>3. \A s \in Source : state.sources[s] # None => Stored(s, state.sources[s].content, run)'
  BY <1>1, <1>2 DEF Inv2, BaselineInv, Stored
<1>4. QED
  BY <1>1, <1>2, <1>3 DEF Inv2, BaselineInv, ReferencesResolve, Stored

\* A step of the loop that observes the current source.
LEMMA LoopBaseline ==
    ASSUME Inv2, InLoop, NextSource, UNCHANGED <<disk, pc, run>>,
           mem' \in StateFile, mem.sources[src] # None => mem'.sources[src] # None, NEW o,
           obs' = [obs EXCEPT ![src] = o], payloads \subseteq payloads',
           \A s \in Source \ {src} : mem'.sources[s] = mem.sources[s],
           mem'.sources[src] # None =>
              \/ Stored(src, mem'.sources[src].content, run - 1)
              \/ <<src, mem'.sources[src].content>> \in payloads',
           o.content # None /\ ~o.stored => Stored(src, o.content, run - 1)
    PROVE  BaselineInv'
<1>1. src \in Source /\ pc = "collect"
  BY SrcType DEF Inv2, Inv1, TypeInv, InLoop
<1>2. UNCHANGED <<state, manifests, bundles>> /\ SinceStart' = SinceStart
  BY DEF disk, SinceStart
<1>3. \A s \in Source : mem'.sources[s] # None =>
          \/ Stored(s, mem'.sources[s].content, run - 1)
          \/ <<s, mem'.sources[s].content>> \in payloads'
  BY DEF Inv2, BaselineInv
<1>4. \A s \in Source : obs'[s] # None =>
          (obs'[s].content # None /\ ~obs'[s].stored => Stored(s, obs'[s].content, run - 1))
  BY <1>1 DEF Inv2, BaselineInv, Inv1, TypeInv, TypeOK
<1>5. \A k \in pos'..Len(Specs) : mem'.sources[Specs[k]] = state.sources[Specs[k]]
  <2> SUFFICES ASSUME NEW k \in (pos + 1)..Len(Specs)
               PROVE  mem'.sources[Specs[k]] = state.sources[Specs[k]]
    BY DEF NextSource
  <2>1. k \in 1..Len(Specs) /\ pos \in 1..Len(Specs) /\ k # pos /\ k \in pos..Len(Specs)
    BY SpecsLength DEF Inv2, Inv1, TypeInv, TypeOK, InLoop
  <2>2. Specs[k] \in Source
    BY <2>1, SourcesAssumption
  <2>4. Specs[k] # Specs[pos]
    BY <2>1, SourcesAssumption
  <2>3. QED
    BY <1>1, <2>1, <2>2, <2>4 DEF Inv2, BaselineInv, src
<1>6. QED
  BY <1>1, <1>2, <1>3, <1>4, <1>5 DEF Inv2, BaselineInv, ReferencesResolve, Stored

\* While a source is asked, its entry in memory is still the state file's, and
\* that entry was stored by an earlier run.
LEMMA EntryStored ==
    ASSUME Inv2, InLoop, mem.sources[src] # None
    PROVE  Stored(src, mem.sources[src].content, run - 1)
<1>1. pos \in pos..Len(Specs) /\ src \in Source
  BY SrcType, SpecsLength DEF Inv2, Inv1, TypeInv, TypeOK, InLoop
<1>2. mem.sources[src] = state.sources[src]
  BY <1>1 DEF Inv2, BaselineInv, InLoop, src
<1>3. QED
  BY <1>1, <1>2 DEF Inv2, BaselineInv, InLoop, SinceStart

\* The memory is not touched by an observation without an answer.
LEMMA QuietBaseline ==
    ASSUME Inv2, InLoop, NextSource, UNCHANGED <<disk, pc, run, mem, payloads>>,
           NEW o, obs' = [obs EXCEPT ![src] = o],
           o.content # None /\ ~o.stored => Stored(src, o.content, run - 1)
    PROVE  BaselineInv'
<1>1. mem' \in StateFile
  BY DEF Inv2, Inv1, TypeInv, TypeOK
<1>2. mem'.sources[src] # None => Stored(src, mem'.sources[src].content, run - 1)
  BY EntryStored
<1>3. QED
  BY <1>1, <1>2, LoopBaseline

LEMMA SkipBaseline == Inv2 /\ (CircuitOpen \/ SkipNotDue) => BaselineInv'
<1>1. ASSUME Inv2, CircuitOpen PROVE BaselineInv'
  <2> DEFINE o == [status |-> "ERROR", content |-> None, stored |-> FALSE, cause |-> "circuit"]
  <2>1. /\ InLoop /\ NextSource /\ obs' = [obs EXCEPT ![src] = o]
        /\ UNCHANGED <<disk, pc, run, mem, payloads>>
    BY <1>1 DEF CircuitOpen, Observed, clock
  <2>2. o.content = None
    OBVIOUS
  <2> HIDE DEF o
  <2>3. QED
    BY <1>1, <2>1, <2>2, QuietBaseline
<1>2. ASSUME Inv2, SkipNotDue PROVE BaselineInv'
  <2> DEFINE content == IF mem.sources[src] = None THEN None ELSE mem.sources[src].content
             o == [status |-> "SKIPPED_NOT_DUE", content |-> content, stored |-> FALSE,
                   cause |-> "none"]
  <2>1. /\ InLoop /\ NextSource /\ obs' = [obs EXCEPT ![src] = o]
        /\ UNCHANGED <<disk, pc, run, mem, payloads>>
    BY <1>2 DEF SkipNotDue, Observed, clock
  <2>2. o.content # None => Stored(src, o.content, run - 1)
    BY <1>2, <2>1, EntryStored
  <2> HIDE DEF o
  <2>3. QED
    BY <1>2, <2>1, <2>2, QuietBaseline
<1>3. QED
  BY <1>1, <1>2

LEMMA FailuresBaseline ==
    Inv2 /\ (RequestFails \/ CredentialMissing \/ FixtureMissing) => BaselineInv'
<1> SUFFICES ASSUME Inv2, RequestFails \/ CredentialMissing \/ FixtureMissing
             PROVE  BaselineInv'
  OBVIOUS
<1>1. PICK kind \in Causes : InLoop /\ Fail(kind)
  BY FailureKind
<1> DEFINE o == [status |-> "ERROR", content |-> None, stored |-> FALSE, cause |-> kind]
<1>2. /\ NextSource /\ obs' = [obs EXCEPT ![src] = o]
      /\ UNCHANGED <<disk, pc, run, mem, payloads>>
  BY <1>1 DEF Fail, Observed, clock
<1>3. o.content = None
  OBVIOUS
<1> HIDE DEF o
<1>4. QED
  BY <1>1, <1>2, <1>3, QuietBaseline

\* A duplicate rests on the entry of the state file; anything else is payload.
LEMMA PageBaseline == Inv2 /\ (FixturePage \/ LivePage) => BaselineInv'
<1> SUFFICES ASSUME Inv2, FixturePage \/ LivePage PROVE BaselineInv'
  OBVIOUS
<1>1. PICK body \in Body : InLoop /\ Respond(body)
  BY BodiesAssumption DEF FixturePage, LivePage, Asking
<1>2. UNCHANGED <<disk, pc, run>>
  BY DEF FixturePage, LivePage, clock
<1> DEFINE content == Append(pages, body)
           duplicate == mem.sources[src] # None /\ mem.sources[src].content = content
           status == IF _missing_fields(src, content) THEN "PARTIAL"
                     ELSE IF duplicate THEN "DUPLICATE" ELSE "OK"
           o == [status |-> status, content |-> content, stored |-> ~duplicate,
                 cause |-> "none"]
<1>3. CASE UNCHANGED <<mem, pos, obs, payloads>>
  BY <1>1, <1>2, <1>3 DEF Inv2, BaselineInv, ReferencesResolve, Stored, disk, SinceStart
<1>4. CASE Accept(content)
  <2>1. /\ NextSource /\ obs' = [obs EXCEPT ![src] = o]
        /\ payloads' = IF duplicate THEN payloads ELSE payloads \cup {<<src, content>>}
        /\ mem' = [mem EXCEPT !.sources[src] = [content |-> content, collected_at |-> now]]
    BY <1>4 DEF Accept, Observed
  <2>2. mem' \in StateFile /\ src \in Source
    BY <1>1, RespondType, SrcType DEF Inv2, Inv1, TypeInv
  <2>3. duplicate => Stored(src, content, run - 1)
    BY <1>1, EntryStored
  <2>4. mem'.sources[src].content = content /\ mem'.sources[src] # None
    <3>1. mem'.sources[src] = [content |-> content, collected_at |-> now]
      BY <2>1, <2>2 DEF Inv2, Inv1, TypeInv, TypeOK, StateFile
    <3>2. mem'.sources[src] \in Entry
      BY <3>1 DEF Entry, Inv2, Inv1, TypeInv, TypeOK, Content
    <3>3. QED
      BY <3>1, <3>2, NoneAssumption
  <2>5. \A s \in Source \ {src} : mem'.sources[s] = mem.sources[s]
    BY <2>1, <2>2 DEF Inv2, Inv1, TypeInv, TypeOK, StateFile
  <2>6. o.content = content /\ (~o.stored => duplicate)
    OBVIOUS
  <2>7. payloads \subseteq payloads' /\ (~duplicate => <<src, content>> \in payloads')
    BY <2>1
  <2> HIDE DEF o, duplicate, content
  <2>8. QED
    BY <1>1, <1>2, <2>1, <2>2, <2>3, <2>4, <2>5, <2>6, <2>7, LoopBaseline
<1>5. QED
  BY <1>1, <1>3, <1>4 DEF Respond

\* The process ends: by WriteState, by an exception or by dying.
LEMMA EndBaseline ==
    ASSUME Inv2, ProcessGone, pc # "idle", UNCHANGED <<manifests, bundles, run>>,
           \A s \in Source : state'.sources[s] # None =>
              Stored(s, state'.sources[s].content, run)
    PROVE  BaselineInv'
  BY DEF ProcessGone, BaselineInv, Inv2, SinceStart, Stored, EmptyState, ReferencesResolve

LEMMA GoneBaseline == Inv2 /\ (NormalizeFails \/ Crash) => BaselineInv'
<1> SUFFICES ASSUME Inv2, NormalizeFails \/ Crash PROVE BaselineInv'
  OBVIOUS
<1>1. ProcessGone /\ pc # "idle" /\ UNCHANGED <<state, manifests, bundles, run>>
  BY DEF NormalizeFails, Crash, LoopDone, disk, clock
<1>2. run \in Int /\ run - 1 \in Int /\ run - 1 <= run /\ SinceStart = run - 1
  BY <1>1 DEF Inv2, Inv1, TypeInv, TypeOK, SinceStart
<1>3. \A s \in Source : state'.sources[s] # None =>
              Stored(s, state'.sources[s].content, run)
  BY <1>1, <1>2, StoredUpTo DEF Inv2, BaselineInv
<1>4. QED
  BY <1>1, <1>3, EndBaseline

LEMMA WriteStateBaseline == Inv2 /\ WriteState => BaselineInv'
<1> SUFFICES ASSUME Inv2, WriteState PROVE BaselineInv'
  OBVIOUS
<1>1. ProcessGone /\ pc = "state" /\ UNCHANGED <<manifests, bundles, run>>
  BY DEF WriteState, clock
<1>2. state'.sources = mem.sources
  BY DEF WriteState, Inv2, Inv1, TypeInv, TypeOK, StateFile
<1>3. run \in Run /\ run \in 1..run /\ run - 1 \in Int /\ run - 1 <= run
  BY <1>1 DEF Inv2, Inv1, Progress, Run
<1>4. ASSUME NEW s \in Source, state'.sources[s] # None
      PROVE  Stored(s, state'.sources[s].content, run)
  <2>1. CASE Stored(s, mem.sources[s].content, run - 1)
    BY <1>2, <1>3, <2>1, StoredUpTo DEF Run
  <2>2. CASE <<s, mem.sources[s].content>> \in payloads
    BY <1>1, <1>2, <1>3, <2>2 DEF Inv2, BaselineInv, Stored
  <2>3. QED
    BY <1>2, <1>4, <2>1, <2>2 DEF Inv2, BaselineInv
<1>5. QED
  BY <1>1, <1>4, EndBaseline

LEMMA WriteManifestBaseline == Inv2 /\ WriteManifest => BaselineInv'
<1> SUFFICES ASSUME Inv2, WriteManifest PROVE BaselineInv'
  OBVIOUS
<1>1. /\ pc = "collect" /\ pc' # "idle" /\ (pc' = "state" => payloads = {})
      /\ pc' # "collect" /\ UNCHANGED <<state, bundles, run, obs, payloads>>
  BY DEF WriteManifest, LoopDone, clock, request
<1>2. mem'.sources = mem.sources
  BY DEF WriteManifest, Inv2, Inv1, TypeInv, TypeOK, StateFile
<1>3. run \in Run /\ obs \in [Source -> Observation]
  BY <1>1, AllObserved DEF WriteManifest, Inv2, Inv1, Progress
<1>4. /\ \A r \in Run \ {run} : manifests'[r] = manifests[r]
      /\ manifests'[run].obs = obs
  BY <1>3 DEF WriteManifest, Inv2, Inv1, TypeInv, TypeOK
<1>5. ReferencesResolve'
  <2> SUFFICES ASSUME NEW r \in Run, manifests'[r] # None, NEW s \in Source,
                      manifests'[r].obs[s].content # None, ~manifests'[r].obs[s].stored
               PROVE  Stored(s, manifests'[r].obs[s].content, r - 1)
    BY <1>1 DEF ReferencesResolve, Stored
  <2>1. CASE r = run
    BY <1>3, <1>4, <2>1, NoneAssumption DEF Inv2, BaselineInv
  <2>2. CASE r # run
    BY <1>4, <2>2 DEF Inv2, BaselineInv, ReferencesResolve
  <2>3. QED
    BY <2>1, <2>2
<1>6. QED
  BY <1>1, <1>2, <1>5 DEF Inv2, BaselineInv, Stored, SinceStart

LEMMA WriteMemberBaseline == Inv2 /\ WriteMember => BaselineInv'
<1> SUFFICES ASSUME Inv2, WriteMember PROVE BaselineInv'
  OBVIOUS
<1>1. /\ pc = "bundle" /\ pc' \in {"bundle", "state"}
      /\ UNCHANGED <<state, manifests, mem, run, obs, payloads>>
      /\ pc' = "state" => payloads \subseteq bundles'[run]
  BY DEF WriteMember, clock, request
<1>2. BundlesGrow /\ run \in Run /\ SinceStart' = run - 1 /\ SinceStart = run - 1
  BY <1>1, NextGrows DEF Inv2, Inv1, Progress, Next, Step, SinceStart
<1> DEFINE After(s, content, n) == \E r \in 1..n : <<s, content>> \in bundles'[r]
<1>3. ASSUME NEW s, NEW content, NEW n \in Int, n <= MaxRuns, Stored(s, content, n)
      PROVE  After(s, content, n)
  BY <1>2, <1>3, StoredGrows
<1> HIDE DEF After
<1>4. run - 1 \in Int /\ run - 1 <= MaxRuns
  BY <1>2, NumbersAssumption DEF Run
<1>5. \A s \in Source : state.sources[s] # None =>
          After(s, state.sources[s].content, run - 1)
  BY <1>1, <1>2, <1>3, <1>4 DEF Inv2, BaselineInv
<1>6. \A s \in Source : mem.sources[s] # None =>
          \/ After(s, mem.sources[s].content, run - 1)
          \/ <<s, mem.sources[s].content>> \in payloads
  BY <1>1, <1>3, <1>4 DEF Inv2, BaselineInv
<1>7. \A s \in Source : obs[s] # None =>
          (obs[s].content # None /\ ~obs[s].stored => After(s, obs[s].content, run - 1))
  BY <1>1, <1>3, <1>4 DEF Inv2, BaselineInv
<1>8. \A r \in Run : manifests[r] # None => \A s \in Source :
         (manifests[r].obs[s].content # None /\ ~manifests[r].obs[s].stored)
            => After(s, manifests[r].obs[s].content, r - 1)
  <2> SUFFICES ASSUME NEW r \in Run, manifests[r] # None, NEW s \in Source,
                      manifests[r].obs[s].content # None, ~manifests[r].obs[s].stored
               PROVE  After(s, manifests[r].obs[s].content, r - 1)
    OBVIOUS
  <2>1. r - 1 \in Int /\ r - 1 <= MaxRuns
    BY NumbersAssumption DEF Run
  <2>2. Stored(s, manifests[r].obs[s].content, r - 1)
    BY DEF Inv2, BaselineInv, ReferencesResolve
  <2>3. QED
    BY <1>3, <2>1, <2>2
<1> USE DEF After
<1>9. ReferencesResolve'
  BY <1>1, <1>8 DEF ReferencesResolve, Stored
<1> DEFINE Kept ==
      /\ \A s \in Source : state'.sources[s] # None =>
            \E r \in 1..SinceStart' : <<s, state'.sources[s].content>> \in bundles'[r]
      /\ \A s \in Source : mem'.sources[s] # None =>
            \/ \E r \in 1..(run' - 1) : <<s, mem'.sources[s].content>> \in bundles'[r]
            \/ <<s, mem'.sources[s].content>> \in payloads'
      /\ \A s \in Source : obs'[s] # None =>
            (obs'[s].content # None /\ ~obs'[s].stored =>
               \E r \in 1..(run' - 1) : <<s, obs'[s].content>> \in bundles'[r])
<1>10. Kept
  BY <1>1, <1>2, <1>5, <1>6, <1>7
<1>11. \A s \in Source : state'.sources[s] # None => mem'.sources[s] # None
  BY <1>1 DEF Inv2, BaselineInv
<1> HIDE DEF After
<1>12. QED
  BY <1>1, <1>9, <1>10, <1>11 DEF BaselineInv, Stored

LEMMA NextInv2 == Inv2 /\ [Next]_vars => Inv2'
<1> SUFFICES ASSUME Inv2, [Next]_vars PROVE BaselineInv'
  BY NextInv1 DEF Inv2
<1>1. CASE Start
  BY <1>1, StartBaseline
<1>2. CASE CircuitOpen \/ SkipNotDue
  BY <1>2, SkipBaseline
<1>3. CASE FixturePage \/ LivePage
  BY <1>3, PageBaseline
<1>4. CASE RequestFails \/ CredentialMissing \/ FixtureMissing
  BY <1>4, FailuresBaseline
<1>5. CASE NormalizeFails \/ Crash
  BY <1>5, GoneBaseline
<1>6. CASE WriteManifest \/ WriteMember \/ WriteState
  BY <1>6, WriteManifestBaseline, WriteMemberBaseline, WriteStateBaseline
<1>7. CASE UNCHANGED vars
  BY <1>7 DEF Inv2, BaselineInv, ReferencesResolve, Stored, SinceStart, vars, disk, clock, request
<1>8. QED
  BY <1>1, <1>2, <1>3, <1>4, <1>5, <1>6, <1>7 DEF Next, Step

LEMMA SpecInv2 == Spec => []Inv2
<1>1. Init => Inv2
  BY InitType, InitProgress, InitBaseline DEF Inv1, Inv2
<1>2. QED
  BY <1>1, NextInv2, PTL DEF Spec

LEMMA BaselineStored == Inv2 => StateHashesStored
<1> SUFFICES ASSUME Inv2 PROVE StateHashesStored
  OBVIOUS
<1>1. run \in Int /\ run - 1 \in Int /\ run - 1 <= run /\ SinceStart \in {run, run - 1}
  BY DEF Inv2, Inv1, TypeInv, TypeOK, SinceStart
<1>2. QED
  BY <1>1, StoredUpTo DEF StateHashesStored, Inv2, BaselineInv

\* Whatever is interrupted, the hashes a run compares answers with are those of
\* payloads that are in a bundle, or that this run is about to put into one.
THEOREM HashesAreStored == Spec => []StateHashesStored
  BY SpecInv2, BaselineStored, PTL

\* A manifest that lists no raw member for an answer can be resolved in the
\* bundles of the runs before it, for any number of runs and crashes.
THEOREM ManifestReferencesResolve == Spec => []ReferencesResolve
<1>1. Inv2 => ReferencesResolve
  BY DEF Inv2, BaselineInv
<1>2. QED
  BY <1>1, SpecInv2, PTL

(***************************************************************************)
(* Refinement of PayloadArchive.                                           *)
(***************************************************************************)
LEMMA ArchiveInit == Init => Archive!Init
<1> SUFFICES ASSUME Init PROVE Archive!Init
  OBVIOUS
<1>1. storedPayloads = {}
  BY DEF Init, storedPayloads
<1>2. latestContents = [s \in Source |-> None]
  BY DEF Init, EmptyState, latestContents
<1>3. QED
  BY <1>1, <1>2 DEF Archive!Init

LEMMA ArchiveStep == Inv2 /\ Inv2' /\ [Next]_vars => [Archive!Next]_(Archive!vars)
<1> SUFFICES ASSUME Inv2, Inv2', [Next]_vars PROVE [Archive!Next]_(Archive!vars)
  OBVIOUS
<1>1. CASE UNCHANGED <<state, bundles>>
  BY <1>1 DEF storedPayloads, latestContents, Archive!vars
<1>2. CASE WriteMember
  <2>1. UNCHANGED latestContents
    BY <1>2 DEF WriteMember, latestContents
  <2>2. storedPayloads \subseteq storedPayloads'
    BY <1>2, NextGrows DEF Inv2, storedPayloads, BundlesGrow
  <2>3. storedPayloads' \subseteq Source \X Content
    BY DEF Inv2, Inv1, TypeInv, TypeOK, storedPayloads
  <2>4. QED
    BY <2>1, <2>2, <2>3 DEF Archive!Next, Archive!Store
<1>3. CASE WriteState
  <2>1. UNCHANGED storedPayloads
    BY <1>3 DEF WriteState, storedPayloads
  <2>2. latestContents' \in [Source -> Content \cup {None}]
    BY DEF Inv2, Inv1, TypeInv, TypeOK, StateFile, Entry, latestContents
  <2>3. ASSUME NEW s \in Source, latestContents'[s] # latestContents[s]
        PROVE  <<s, latestContents'[s]>> \in storedPayloads
    <3>1. /\ state'.sources = mem.sources /\ bundles' = bundles
          /\ run \in Run /\ payloads \subseteq bundles[run]
      BY <1>3 DEF WriteState, Inv2, Inv1, Progress, BaselineInv, TypeInv, TypeOK, StateFile
    <3>2. CASE mem.sources[s] = None
      <4>1. state.sources[s] = None
        BY <1>3, <3>2 DEF WriteState, Inv2, BaselineInv
      <4>2. QED
        BY <2>3, <3>1, <3>2, <4>1 DEF latestContents
    <3>3. CASE mem.sources[s] # None
      <4>1. latestContents'[s] = mem.sources[s].content
        BY <3>1, <3>3 DEF latestContents
      <4>2. CASE <<s, mem.sources[s].content>> \in payloads
        BY <3>1, <4>1, <4>2 DEF storedPayloads
      <4>3. CASE Stored(s, mem.sources[s].content, run - 1)
        BY <3>1, <4>1, <4>3, NumbersAssumption DEF storedPayloads, Stored, Run
      <4>4. QED
        BY <3>3, <4>2, <4>3 DEF Inv2, BaselineInv
    <3>4. QED
      BY <3>2, <3>3
  <2>4. QED
    BY <2>1, <2>2, <2>3 DEF Archive!Next, Archive!Publish
<1>4. QED
  BY <1>1, <1>2, <1>3
  DEF Next, Step, Start, CircuitOpen, SkipNotDue, FixturePage, LivePage, RequestFails,
      CredentialMissing, FixtureMissing, Fail, NormalizeFails, WriteManifest, Crash, vars, disk

\* The detailed collector implements the abstract archive: whatever the
\* providers answer and wherever a run dies, no stored payload is lost and no
\* hash is published before its payload is stored.
THEOREM CollectorImplementsArchive == Spec => ImplementsArchive
<1>1. QED
  BY ArchiveInit, ArchiveStep, SpecInv2, PTL DEF Spec, ImplementsArchive, Archive!Spec
=============================================================================
