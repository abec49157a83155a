------------------------ MODULE AirportHistoryProofs ------------------------
(***************************************************************************)
(* What the runs of the airport collector leave: their archive, the state  *)
(* file, when the circuit breaker skips a source, the storage counter, the *)
(* schedule health and the source gaps of a manifest, the weather cadence, *)
(* and that nothing of the archive is taken back.                          *)
(***************************************************************************)
EXTENDS AirportFrictionProofs

(***************************************************************************)
(* The loop, step by step: a page that is not the last, an observation     *)
(* without an answer, or an answer.                                        *)
(***************************************************************************)
LoopStep == CircuitOpen \/ SkipNotDue \/ FixturePage \/ LivePage
            \/ RequestFails \/ CredentialMissing \/ FixtureMissing

Waiting == UNCHANGED <<disk, pc, clock, force, mem, pos, obs, payloads, finished>>

Observing(o) ==
    /\ InLoop /\ NextSource /\ UNCHANGED <<disk, pc, clock, force, finished>>
    /\ obs' = [obs EXCEPT ![src] = o]

Unanswered(o) ==
    /\ Observing(o) /\ UNCHANGED <<mem, payloads>>
    /\ o.status \notin Success /\ o.stored = FALSE
    /\ o.status = "SKIPPED_NOT_DUE" => ~_is_due(src)

Repeated(content) == mem.sources[src] # None /\ mem.sources[src].content = content

Answered(o) ==
    /\ Observing(o) /\ _is_due(src)
    /\ o.status \in Success /\ o.content \in Content
    /\ _missing_fields(src, o.content) => o.status = "PARTIAL"
    /\ o.stored = ~Repeated(o.content)
    /\ payloads' = IF o.stored THEN payloads \cup {<<src, o.content>>} ELSE payloads
    /\ mem' = [mem EXCEPT !.sources[src] = [content |-> o.content, collected_at |-> now]]

LEMMA PageSteps ==
    ASSUME Inv1, FixturePage \/ LivePage
    PROVE  Waiting \/ \E o \in Observation : Answered(o)
<1>1. PICK body \in Body : InLoop /\ _is_due(src) /\ Respond(body)
  BY BodiesAssumption DEF FixturePage, LivePage, Asking
<1>2. UNCHANGED <<disk, pc, clock, force, finished>>
  BY DEF FixturePage, LivePage, inputs
<1> DEFINE content == Append(pages, body)
           status == IF _missing_fields(src, content) THEN "PARTIAL"
                     ELSE IF Repeated(content) THEN "DUPLICATE" ELSE "OK"
           o == [status |-> status, content |-> content, stored |-> ~Repeated(content),
                 cause |-> "none"]
<1>3. CASE UNCHANGED <<mem, pos, obs, payloads>>
  BY <1>2, <1>3 DEF Waiting
<1>4. CASE Accept(content)
  <2>1. content \in Content /\ (~Repeated(content)) \in BOOLEAN
    BY DEF Inv1, TypeInv, TypeOK, Content
  <2>2. status \in Success /\ (_missing_fields(src, content) => status = "PARTIAL")
    BY Zenon DEF Success
  <2>3. /\ NextSource /\ obs' = [obs EXCEPT ![src] = o]
        /\ payloads' = IF Repeated(content) THEN payloads ELSE payloads \cup {<<src, content>>}
        /\ mem' = [mem EXCEPT !.sources[src] = [content |-> content, collected_at |-> now]]
    BY <1>4 DEF Accept, Observed, Repeated
  <2> HIDE DEF content, status
  <2>4. o \in Observation
    BY <2>1, <2>2 DEF Observation, Statuses, Causes
  <2>5. Answered(o)
    BY <1>1, <1>2, <2>1, <2>2, <2>3 DEF Answered, Observing
  <2>6. QED
    BY <2>4, <2>5
<1>5. QED
  BY <1>1, <1>3, <1>4 DEF Respond

LEMMA LoopSteps ==
    ASSUME Inv1, LoopStep
    PROVE  Waiting \/ \E o \in Observation : Unanswered(o) \/ Answered(o)
<1>1. CASE CircuitOpen
  <2> DEFINE o == [status |-> "ERROR", content |-> None, stored |-> FALSE, cause |-> "circuit"]
  <2>1. Unanswered(o)
    BY <1>1 DEF CircuitOpen, Unanswered, Observing, Observed, Success, inputs
  <2>2. o \in Observation
    BY DEF Observation, Statuses, Causes
  <2>3. QED
    BY <2>1, <2>2
<1>2. CASE SkipNotDue
  <2> DEFINE content == IF mem.sources[src] = None THEN None ELSE mem.sources[src].content
             o == [status |-> "SKIPPED_NOT_DUE", content |-> content, stored |-> FALSE,
                   cause |-> "none"]
  <2>1. Unanswered(o)
    BY <1>2 DEF SkipNotDue, Unanswered, Observing, Observed, Success, inputs
  <2>2. content \in Content \cup {None}
    BY <1>2, SrcType DEF SkipNotDue, Inv1, TypeInv, TypeOK, StateFile, Entry
  <2> HIDE DEF content
  <2>3. o \in Observation
    BY <2>2 DEF Observation, Statuses, Causes
  <2>4. QED
    BY <2>1, <2>3
<1>3. CASE FixturePage \/ LivePage
  BY <1>3, PageSteps
<1>4. CASE RequestFails \/ CredentialMissing \/ FixtureMissing
  <2>1. PICK kind \in Causes : InLoop /\ Fail(kind)
    BY <1>4, FailureKind
  <2> DEFINE o == [status |-> "ERROR", content |-> None, stored |-> FALSE, cause |-> kind]
  <2>2. Unanswered(o)
    BY <2>1 DEF Fail, Unanswered, Observing, Observed, Success, inputs
  <2>3. o \in Observation
    BY DEF Observation, Statuses
  <2>4. QED
    BY <2>2, <2>3
<1>5. QED
  BY <1>1, <1>2, <1>3, <1>4 DEF LoopStep

(***************************************************************************)
(* The observations of a run, against its memory and its payloads.         *)
(***************************************************************************)
Newest(s) == mem.sources[s] = [content |-> obs[s].content, collected_at |-> now]

ObsInv ==
    /\ pc = "collect" => \A k \in pos..Len(Specs) : obs[Specs[k]] = None
    /\ pc # "idle" => \A s \in Source : obs[s] # None =>
          /\ obs[s].status \in Success =>
                /\ obs[s].content \in Content /\ Newest(s)
                /\ _missing_fields(s, obs[s].content) => obs[s].status = "PARTIAL"
          /\ obs[s].status \notin Success =>
                mem.sources[s] = state.sources[s] /\ obs[s].stored = FALSE
    /\ \A s \in Source, c \in Content :
          <<s, c>> \in payloads <=> obs[s] # None /\ obs[s].stored /\ obs[s].content = c

\* The source that is being asked has no observation, and its entry is the
\* state file's.
LEMMA Untouched ==
    ASSUME Inv2, ObsInv, InLoop
    PROVE  src \in Source /\ obs[src] = None /\ mem.sources[src] = state.sources[src]
<1>1. pos \in pos..Len(Specs) /\ src \in Source
  BY SrcType, SpecsLength DEF Inv2, Inv1, TypeInv, TypeOK, InLoop
<1>2. QED
  BY <1>1 DEF Inv2, BaselineInv, ObsInv, InLoop, src

LEMMA AheadStep ==
    ASSUME Inv2, ObsInv, NEW o, Observing(o)
    PROVE  \A k \in pos'..Len(Specs) : obs'[Specs[k]] = None
<1> SUFFICES ASSUME NEW k \in (pos + 1)..Len(Specs) PROVE obs'[Specs[k]] = None
  BY DEF Observing, NextSource
<1>1. k \in 1..Len(Specs) /\ pos \in 1..Len(Specs) /\ k # pos /\ k \in pos..Len(Specs)
  BY SpecsLength DEF Inv2, Inv1, TypeInv, TypeOK, InLoop, Observing
<1>2. Specs[k] \in Source /\ Specs[k] # src
  BY <1>1, SourcesAssumption DEF src
<1>3. QED
  BY <1>1, <1>2 DEF ObsInv, Observing, InLoop, Inv2, Inv1, TypeInv, TypeOK

LEMMA UnansweredObs ==
    ASSUME Inv2, ObsInv, NEW o \in Observation, Unanswered(o)
    PROVE  ObsInv'
<1>1. src \in Source /\ obs[src] = None /\ mem.sources[src] = state.sources[src]
  BY Untouched DEF Unanswered, Observing
<1>2. /\ UNCHANGED <<state, pc, now, mem, payloads>> /\ pc = "collect"
      /\ obs' \in [Source -> Observation \cup {None}]
      /\ obs'[src] = o /\ \A s \in Source : s # src => obs'[s] = obs[s]
  BY <1>1 DEF Unanswered, Observing, InLoop, disk, clock, Inv2, Inv1, TypeInv, TypeOK
<1>3. \A k \in pos'..Len(Specs) : obs'[Specs[k]] = None
  BY AheadStep DEF Unanswered
<1>4. o.status \notin Success /\ o.stored = FALSE
  BY DEF Unanswered
<1>5. ASSUME NEW s \in Source, obs'[s] # None
      PROVE  /\ obs'[s].status \in Success =>
                   /\ obs'[s].content \in Content /\ Newest(s)'
                   /\ _missing_fields(s, obs'[s].content) => obs'[s].status = "PARTIAL"
             /\ obs'[s].status \notin Success =>
                   mem'.sources[s] = state'.sources[s] /\ obs'[s].stored = FALSE
  BY <1>1, <1>2, <1>4, <1>5 DEF ObsInv, Newest
<1>6. ASSUME NEW s \in Source, NEW c \in Content
      PROVE  <<s, c>> \in payloads' <=> obs'[s] # None /\ obs'[s].stored /\ obs'[s].content = c
  BY <1>1, <1>2, <1>4 DEF ObsInv
<1>7. QED
  BY <1>3, <1>5, <1>6 DEF ObsInv

LEMMA AnsweredObs ==
    ASSUME Inv2, ObsInv, NEW o \in Observation, Answered(o)
    PROVE  ObsInv'
<1>1. src \in Source /\ obs[src] = None
  BY Untouched DEF Answered, Observing
<1>2. /\ UNCHANGED <<state, pc, now>> /\ pc = "collect"
      /\ obs'[src] = o /\ \A s \in Source : s # src => obs'[s] = obs[s]
  BY <1>1 DEF Answered, Observing, InLoop, disk, clock, Inv2, Inv1, TypeInv, TypeOK
<1>3. \A k \in pos'..Len(Specs) : obs'[Specs[k]] = None
  BY AheadStep DEF Answered
<1>4. /\ mem'.sources[src] = [content |-> o.content, collected_at |-> now]
      /\ \A s \in Source : s # src => mem'.sources[s] = mem.sources[s]
  BY <1>1 DEF Answered, Inv2, Inv1, TypeInv, TypeOK, StateFile
<1>5. ASSUME NEW s \in Source, obs'[s] # None
      PROVE  /\ obs'[s].status \in Success =>
                   /\ obs'[s].content \in Content /\ Newest(s)'
                   /\ _missing_fields(s, obs'[s].content) => obs'[s].status = "PARTIAL"
             /\ obs'[s].status \notin Success =>
                   mem'.sources[s] = state'.sources[s] /\ obs'[s].stored = FALSE
  <2>1. CASE s = src
    BY <1>2, <1>4, <2>1 DEF Newest, Answered
  <2>2. CASE s # src
    BY <1>2, <1>4, <1>5, <2>2 DEF ObsInv, Newest
  <2>3. QED
    BY <2>1, <2>2
<1>6. ASSUME NEW s \in Source, NEW c \in Content
      PROVE  <<s, c>> \in payloads' <=> obs'[s] # None /\ obs'[s].stored /\ obs'[s].content = c
  <2>1. <<s, c>> \in payloads <=> obs[s] # None /\ obs[s].stored /\ obs[s].content = c
    BY DEF ObsInv
  <2>2. payloads' = IF o.stored THEN payloads \cup {<<src, o.content>>} ELSE payloads
    BY DEF Answered
  <2>3. CASE s = src
    <3>1. <<s, c>> \in payloads' <=> o.stored /\ o.content = c
      BY <1>1, <2>1, <2>2, <2>3
    <3>2. o # None
      BY NoneAssumption
    <3>3. QED
      BY <1>2, <2>3, <3>1, <3>2
  <2>4. CASE s # src
    BY <1>2, <2>1, <2>2, <2>4
  <2>5. QED
    BY <2>3, <2>4
<1>7. QED
  BY <1>3, <1>5, <1>6 DEF ObsInv

\* The other steps: a page that is not the last, the writes, the end, a start.
LEMMA WaitingObs == ASSUME Inv2, ObsInv, Waiting PROVE ObsInv'
  BY DEF ObsInv, Newest, Waiting, disk, clock

LEMMA GoneObs == ASSUME ObsInv, ProcessGone PROVE ObsInv'
  BY NoneAssumption DEF ObsInv, ProcessGone

LEMMA StartObs == ASSUME Inv2, ObsInv, Start PROVE ObsInv'
<1>1. /\ pc = "idle" /\ pc' = "collect" /\ UNCHANGED <<obs, payloads, pos>>
      /\ obs = [s \in Source |-> None] /\ pos = 1
  BY DEF Start, request, Inv2, Inv1, Progress, BaselineInv
<1>2. \A k \in 1..Len(Specs) : Specs[k] \in Source
  BY SourcesAssumption
<1>3. QED
  BY <1>1, <1>2 DEF ObsInv

LEMMA WriteObs == ASSUME Inv2, ObsInv, WriteManifest \/ WriteMember PROVE ObsInv'
<1>1. /\ pc' # "collect" /\ pc # "idle" /\ UNCHANGED <<state, obs, payloads, now>>
  BY DEF WriteManifest, WriteMember, LoopDone, clock, request
<1>2. mem'.sources = mem.sources
  BY DEF WriteManifest, WriteMember, Inv2, Inv1, TypeInv, TypeOK, StateFile
<1>3. QED
  BY <1>1, <1>2 DEF ObsInv, Newest

LEMMA NextObs == ASSUME Inv2, ObsInv, [Next]_vars PROVE ObsInv'
<1>1. CASE LoopStep
  <2>1. CASE Waiting
    BY <2>1, WaitingObs
  <2>2. CASE \E o \in Observation : Unanswered(o) \/ Answered(o)
    BY <2>2, UnansweredObs, AnsweredObs
  <2>3. QED
    BY <1>1, <2>1, <2>2, LoopSteps DEF Inv2
<1>2. CASE NormalizeFails \/ WriteState \/ Crash
  BY <1>2, GoneObs DEF NormalizeFails, WriteState, Crash
<1>3. CASE WriteManifest \/ WriteMember
  BY <1>3, WriteObs
<1>4. CASE Start
  BY <1>4, StartObs
<1>5. CASE UNCHANGED vars
  BY <1>5, WaitingObs DEF vars, Waiting, disk, clock, inputs, request
<1>6. QED
  BY <1>1, <1>2, <1>3, <1>4, <1>5 DEF Next, Step, LoopStep

(***************************************************************************)
(* The bundle and the manifest of a run.                                   *)
(***************************************************************************)
Members(o) == {<<s, o[s].content>> : s \in {x \in Source : o[x].stored}}

RunInv ==
    /\ finished \subseteq 1..run
    /\ pc # "idle" => run \notin finished
    /\ \A r \in Run : r > run => manifests[r] = None /\ bundles[r] = {}
    /\ pc = "collect" => manifests[run] = None /\ bundles[run] = {}
    /\ pc = "bundle" => bundles[run] \subseteq payloads
    /\ pc = "state" => bundles[run] = payloads
    /\ pc \in {"bundle", "state"} =>
          /\ manifests[run].obs = obs /\ manifests[run].collected_at = now
          /\ payloads = Members(obs)
    /\ FinishedRunsReconstructable
    /\ PartialNeverMasked

Inv3 == Inv2 /\ ObsInv /\ RunInv

\* With an observation of every source the payloads are those that list a
\* raw member.
LEMMA PayloadsListed ==
    ASSUME Inv2, ObsInv, obs \in [Source -> Observation]
    PROVE  payloads = Members(obs)
<1>1. payloads \subseteq Source \X Content
  BY DEF Inv2, Inv1, TypeInv, TypeOK
<1>2. ASSUME NEW s \in Source, obs[s].stored PROVE obs[s].content \in Content
  <2>1. pc # "idle"
    BY NoneAssumption DEF Inv2, BaselineInv
  <2>2. obs[s] # None /\ obs[s] \in Observation
    BY NoneAssumption
  <2>3. obs[s].status \in Success
    BY <1>2, <2>1, <2>2 DEF ObsInv
  <2>4. QED
    BY <2>1, <2>2, <2>3 DEF ObsInv
<1>3. ASSUME NEW s \in Source, NEW c \in Content
      PROVE  <<s, c>> \in payloads <=> obs[s].stored /\ obs[s].content = c
  BY <1>3, NoneAssumption DEF ObsInv
<1>4. Members(obs) \subseteq payloads
  BY <1>2, <1>3 DEF Members
<1>5. payloads \subseteq Members(obs)
  <2> SUFFICES ASSUME NEW s \in Source, NEW c \in Content, <<s, c>> \in payloads
               PROVE  <<s, c>> \in Members(obs)
    BY <1>1
  <2>1. obs[s].stored /\ obs[s].content = c
    BY <1>3
  <2>2. QED
    BY <2>1 DEF Members
<1>6. QED
  BY <1>4, <1>5

LEMMA InitRun == Init => ObsInv /\ RunInv
<1> SUFFICES ASSUME Init PROVE ObsInv /\ RunInv
  OBVIOUS
<1>1. \A k \in 1..Len(Specs) : Specs[k] \in Source
  BY SourcesAssumption
<1>2. ObsInv
  BY <1>1 DEF Init, ObsInv
<1>3. RunInv
  BY DEF Init, RunInv, FinishedRunsReconstructable, PartialNeverMasked, Run
<1>4. QED
  BY <1>2, <1>3

\* A step that touches neither directory nor history.
LEMMA LoopRun ==
    ASSUME Inv3, UNCHANGED <<disk, run, now, finished>>,
           pc = "collect" \/ UNCHANGED <<pc, obs, payloads>>, pc' = pc
    PROVE  RunInv'
  BY DEF Inv3, RunInv, disk, FinishedRunsReconstructable, PartialNeverMasked

LEMMA StartRunInv == ASSUME Inv3, Start PROVE RunInv'
<1>1. /\ pc = "idle" /\ pc' = "collect" /\ run' = run + 1 /\ run \in Nat /\ run + 1 \in Run
      /\ UNCHANGED <<manifests, bundles, finished>>
  BY NumbersAssumption DEF Start, Inv3, Inv2, Inv1, TypeInv, TypeOK, disk, Run
<1>2. finished' \subseteq 1..run' /\ run' \notin finished'
  BY <1>1 DEF Inv3, RunInv
<1>3. \A r \in Run : r >= run' => manifests'[r] = None /\ bundles'[r] = {}
  BY <1>1 DEF Inv3, RunInv, Run
<1>4. FinishedRunsReconstructable' /\ PartialNeverMasked'
  BY <1>1 DEF Inv3, RunInv, FinishedRunsReconstructable, PartialNeverMasked
<1>5. QED
  BY <1>1, <1>2, <1>3, <1>4 DEF RunInv, Run

LEMMA GoneRun == ASSUME Inv3, NormalizeFails \/ Crash PROVE RunInv'
<1>1. pc' = "idle" /\ pc # "idle" /\ UNCHANGED <<manifests, bundles, run, finished>>
  BY DEF NormalizeFails, Crash, ProcessGone, LoopDone, disk, clock
<1>2. QED
  BY <1>1 DEF Inv3, RunInv, FinishedRunsReconstructable, PartialNeverMasked

LEMMA WriteManifestRun == ASSUME Inv3, WriteManifest PROVE RunInv'
<1>1. /\ pc = "collect" /\ pc' \in {"bundle", "state"} /\ (pc' = "state" => payloads = {})
      /\ UNCHANGED <<bundles, run, now, obs, payloads, finished>>
  BY DEF WriteManifest, LoopDone, clock, request
<1>2. run \in Run /\ obs \in [Source -> Observation]
  BY <1>1, AllObserved DEF WriteManifest, Inv3, Inv2, Inv1, Progress
<1>3. /\ \A r \in Run \ {run} : manifests'[r] = manifests[r]
      /\ manifests'[run].obs = obs /\ manifests'[run].collected_at = now
      /\ manifests'[run].status = OverallStatus
  BY <1>2 DEF WriteManifest, Inv3, Inv2, Inv1, TypeInv, TypeOK
<1>4. payloads = Members(obs)
  BY <1>2, PayloadsListed DEF Inv3
<1>5. PartialNeverMasked'
  <2> SUFFICES ASSUME NEW r \in Run, manifests'[r] # None, NEW s \in Source,
                      manifests'[r].obs[s].status \in Success,
                      _missing_fields(s, manifests'[r].obs[s].content)
               PROVE  manifests'[r].obs[s].status = "PARTIAL" /\ manifests'[r].status # "SUCCESS"
    BY DEF PartialNeverMasked
  <2>1. CASE r = run
    <3>1. obs[s] # None /\ pc # "idle"
      BY <1>1, <1>2, NoneAssumption
    <3>2. obs[s].status = "PARTIAL"
      BY <1>3, <2>1, <3>1 DEF Inv3, ObsInv
    <3>3. OverallStatus # "SUCCESS"
      BY <3>2 DEF OverallStatus, With
    <3>4. QED
      BY <1>3, <2>1, <3>2, <3>3
  <2>2. CASE r # run
    BY <1>3, <2>2 DEF Inv3, RunInv, PartialNeverMasked
  <2>3. QED
    BY <2>1, <2>2
<1>6. FinishedRunsReconstructable'
  <2>1. \A r \in finished : r \in Run /\ r # run
    BY <1>1 DEF Inv3, RunInv, Inv2, Inv1, TypeInv, TypeOK
  <2>2. QED
    BY <1>1, <1>3, <2>1 DEF Inv3, RunInv, FinishedRunsReconstructable
<1>7. \A r \in Run : r > run => manifests'[r] = None
  BY <1>2, <1>3 DEF Inv3, RunInv, Run
<1>8. QED
  BY <1>1, <1>3, <1>4, <1>5, <1>6, <1>7 DEF Inv3, RunInv

LEMMA WriteMemberRun == ASSUME Inv3, WriteMember PROVE RunInv'
<1>1. /\ pc = "bundle" /\ pc' \in {"bundle", "state"} /\ (pc' = "state" => payloads \subseteq bundles'[run])
      /\ UNCHANGED <<manifests, run, now, obs, payloads, finished>>
  BY DEF WriteMember, clock, request
<1>2. PICK p \in payloads : bundles' = [bundles EXCEPT ![run] = @ \cup {p}]
  BY DEF WriteMember
<1>3. run \in Run /\ bundles \in [Run -> SUBSET (Source \X Content)]
  BY <1>1 DEF Inv3, Inv2, Inv1, TypeInv, TypeOK, Progress
<1>4. bundles'[run] = bundles[run] \cup {p} /\ \A r \in Run \ {run} : bundles'[r] = bundles[r]
  BY <1>2, <1>3
<1>5. bundles'[run] \subseteq payloads
  BY <1>1, <1>4 DEF Inv3, RunInv
<1>6. FinishedRunsReconstructable'
  <2>1. \A r \in finished : r \in Run /\ r # run
    BY <1>1 DEF Inv3, RunInv, Inv2, Inv1, TypeInv, TypeOK
  <2>2. QED
    BY <1>1, <1>4, <2>1 DEF Inv3, RunInv, FinishedRunsReconstructable
<1>7. PartialNeverMasked'
  BY <1>1 DEF Inv3, RunInv, PartialNeverMasked
<1>8. \A r \in Run : r > run => bundles'[r] = {}
  BY <1>3, <1>4 DEF Inv3, RunInv, Run
<1>9. QED
  BY <1>1, <1>5, <1>6, <1>7, <1>8 DEF Inv3, RunInv

LEMMA WriteStateRun == ASSUME Inv3, WriteState PROVE RunInv'
<1>1. /\ pc = "state" /\ pc' = "idle" /\ finished' = finished \cup {run}
      /\ UNCHANGED <<manifests, bundles, run>>
  BY DEF WriteState, ProcessGone, clock
<1>2. run \in Run /\ manifests[run] # None
  BY <1>1 DEF Inv3, Inv2, Inv1, Progress
<1>3. bundles[run] = {<<s, manifests[run].obs[s].content>> :
                         s \in {x \in Source : manifests[run].obs[x].stored}}
  BY <1>1 DEF Inv3, RunInv, Members
<1>4. FinishedRunsReconstructable'
  BY <1>1, <1>2, <1>3 DEF Inv3, RunInv, FinishedRunsReconstructable
<1>5. PartialNeverMasked'
  BY <1>1 DEF Inv3, RunInv, PartialNeverMasked
<1>6. finished' \subseteq 1..run'
  BY <1>1, <1>2 DEF Inv3, RunInv, Run
<1>7. QED
  BY <1>1, <1>4, <1>5, <1>6 DEF Inv3, RunInv

LEMMA NextInv3 == Inv3 /\ [Next]_vars => Inv3'
<1> SUFFICES ASSUME Inv3, [Next]_vars PROVE RunInv'
  BY NextInv2, NextObs DEF Inv3
<1>1. CASE LoopStep
  <2>1. pc = "collect" /\ pc' = pc /\ UNCHANGED <<disk, run, now, finished>>
    BY <1>1 DEF LoopStep, CircuitOpen, SkipNotDue, FixturePage, LivePage, RequestFails,
                CredentialMissing, FixtureMissing, Fail, Asking, InLoop, clock
  <2>2. QED
    BY <2>1, LoopRun
<1>2. CASE NormalizeFails \/ Crash
  BY <1>2, GoneRun
<1>3. CASE WriteManifest \/ WriteMember \/ WriteState
  BY <1>3, WriteManifestRun, WriteMemberRun, WriteStateRun
<1>4. CASE Start
  BY <1>4, StartRunInv
<1>5. CASE UNCHANGED vars
  BY <1>5, LoopRun DEF vars, clock, request
<1>6. QED
  BY <1>1, <1>2, <1>3, <1>4, <1>5 DEF Next, Step, LoopStep

LEMMA SpecInv3 == Spec => []Inv3
<1>1. Init => Inv3
  BY InitType, InitProgress, InitBaseline, InitRun DEF Inv1, Inv2, Inv3
<1>2. QED
  BY <1>1, NextInv3, PTL DEF Spec

\* A run that replaced the state file has its manifest and, member for member,
\* the bundle this manifest lists, however many runs died before and after it.
THEOREM FinishedRunsComplete == Spec => []FinishedRunsReconstructable
<1>1. Inv3 => FinishedRunsReconstructable
  BY DEF Inv3, RunInv
<1>2. QED
  BY <1>1, SpecInv3, PTL

\* An answer that lacks a field or a page is PARTIAL, repeated or not, and its
\* run is no SUCCESS.
THEOREM PartialStaysVisible == Spec => []PartialNeverMasked
<1>1. Inv3 => PartialNeverMasked
  BY DEF Inv3, RunInv
<1>2. QED
  BY <1>1, SpecInv3, PTL

(***************************************************************************)
(* The state file is the last finished run's, and clocks do not go back.   *)
(***************************************************************************)
AnsweredIn(r, s) == manifests[r].obs[s].status \in Success

LatestEntry(s) ==
    \/ state.sources[s] = None /\ \A r \in finished : ~AnsweredIn(r, s)
    \/ \E r \in finished :
          /\ AnsweredIn(r, s) /\ \A q \in finished : AnsweredIn(q, s) => q <= r
          /\ state.sources[s] # None
          /\ state.sources[s] = [content |-> manifests[r].obs[s].content,
                                 collected_at |-> manifests[r].collected_at]

LastInv ==
    /\ finished = {} => state = EmptyState
    /\ finished # {} =>
          /\ state.last_run \in finished /\ \A r \in finished : r <= state.last_run
          /\ state.updated_at = manifests[state.last_run].collected_at
          /\ state.last_status = manifests[state.last_run].status
    /\ \A s \in Source : LatestEntry(s)
    /\ \A r \in finished : manifests[r].collected_at <= now
    /\ \A q, r \in finished : q <= r => manifests[q].collected_at <= manifests[r].collected_at

Inv4 == Inv3 /\ LastInv

\* A finished run has a manifest, is no later than the current one, and is not
\* the current one while that is going on.
LEMMA FinishedRun ==
    ASSUME Inv3, NEW r \in finished
    PROVE  /\ r \in Run /\ r <= run /\ manifests[r] \in Manifest
           /\ pc # "idle" => r < run
  BY DEF Inv3, RunInv, FinishedRunsReconstructable, Inv2, Inv1, TypeInv, TypeOK, Run

LEMMA InitLast == Init => LastInv
  BY DEF Init, LastInv, EmptyState, LatestEntry

\* Manifests of finished runs are not written again.
LEMMA QuietLast ==
    ASSUME Inv4, UNCHANGED <<state, finished>>, now' \in Nat, now <= now',
           \A r \in finished : manifests'[r] = manifests[r]
    PROVE  LastInv'
<1>1. \A r \in finished : manifests'[r].collected_at \in Nat /\ manifests'[r].collected_at <= now'
  BY FinishedRun DEF Inv4, LastInv, Manifest, Inv3, Inv2, Inv1, TypeInv, TypeOK
<1>2. ASSUME NEW s \in Source PROVE LatestEntry(s)'
  <2>1. LatestEntry(s)
    BY DEF Inv4, LastInv
  <2>2. QED
    BY <2>1 DEF LatestEntry, AnsweredIn
<1>3. QED
  BY <1>1, <1>2 DEF Inv4, LastInv

LEMMA WriteStateLast == ASSUME Inv4, WriteState PROVE LastInv'
<1>1. /\ pc = "state" /\ finished' = finished \cup {run} /\ UNCHANGED <<manifests, now, run>>
      /\ state' = [mem EXCEPT !.updated_at = now, !.last_run = run,
                              !.last_status = manifests[run].status]
  BY DEF WriteState, clock
<1>2. /\ state'.sources = mem.sources /\ state'.updated_at = now /\ state'.last_run = run
      /\ state'.last_status = manifests[run].status
  BY <1>1 DEF Inv4, Inv3, Inv2, Inv1, TypeInv, TypeOK, StateFile
<1>3. /\ run \in Run /\ manifests[run] \in Manifest /\ now \in Nat
      /\ manifests[run].obs = obs /\ manifests[run].collected_at = now
      /\ obs \in [Source -> Observation]
  BY <1>1 DEF Inv4, Inv3, RunInv, Inv2, Inv1, Progress, TypeInv, TypeOK, Manifest
<1>4. \A r \in finished : r \in Run /\ r < run /\ manifests[r] \in Manifest
  BY <1>1, FinishedRun DEF Inv4
<1>5. ASSUME NEW s \in Source PROVE LatestEntry(s)'
  <2>1. obs[s] # None
    BY <1>3, NoneAssumption
  <2>2. CASE obs[s].status \in Success
    <3>1. state'.sources[s] = [content |-> manifests[run].obs[s].content,
                               collected_at |-> manifests[run].collected_at]
      BY <1>1, <1>2, <1>3, <2>1, <2>2 DEF Inv4, Inv3, ObsInv, Newest
    <3>2. run \in finished' /\ AnsweredIn(run, s)' /\ \A q \in finished' : q <= run
      BY <1>1, <1>3, <1>4, <2>2 DEF AnsweredIn, Run
    <3>3. state'.sources[s] # None
      <4>1. obs[s].content \in Content
        BY <1>1, <2>1, <2>2 DEF Inv4, Inv3, ObsInv
      <4>2. state'.sources[s] \in Entry
        BY <1>3, <3>1, <4>1 DEF Entry
      <4>3. QED
        BY <4>2, NoneAssumption
    <3>4. QED
      BY <1>1, <3>1, <3>2, <3>3 DEF LatestEntry
  <2>3. CASE obs[s].status \notin Success
    <3>1. state'.sources[s] = state.sources[s]
      BY <1>1, <1>2, <2>1, <2>3 DEF Inv4, Inv3, ObsInv
    <3>2. ~AnsweredIn(run, s)
      BY <1>3, <2>3 DEF AnsweredIn
    <3>3. LatestEntry(s)
      BY DEF Inv4, LastInv
    <3>4. QED
      BY <1>1, <3>1, <3>2, <3>3 DEF LatestEntry, AnsweredIn
  <2>4. QED
    BY <2>2, <2>3
<1>6. run \in finished' /\ \A r \in finished' : r <= run
  BY <1>1, <1>3, <1>4 DEF Run
<1>7. \A r \in finished' : manifests[r].collected_at <= now
  BY <1>1, <1>3 DEF Inv4, LastInv
<1>8. \A q, r \in finished' : q <= r => manifests[q].collected_at <= manifests[r].collected_at
  <2> SUFFICES ASSUME NEW q \in finished', NEW r \in finished', q <= r
               PROVE  manifests[q].collected_at <= manifests[r].collected_at
    OBVIOUS
  <2>1. CASE r = run
    BY <1>3, <1>7, <2>1
  <2>2. CASE r # run
    <3>1. r \in finished /\ q \in finished
      BY <1>1, <1>3, <1>4, <2>2 DEF Run
    <3>2. QED
      BY <3>1 DEF Inv4, LastInv
  <2>3. QED
    BY <2>1, <2>2
<1>9. QED
  BY <1>1, <1>2, <1>3, <1>5, <1>6, <1>7, <1>8 DEF LastInv

LEMMA NextInv4 == Inv4 /\ [Next]_vars => Inv4'
<1> SUFFICES ASSUME Inv4, [Next]_vars PROVE LastInv'
  BY NextInv3 DEF Inv4
<1>1. CASE WriteState
  BY <1>1, WriteStateLast
<1>2. CASE ~WriteState
  <2>1. UNCHANGED <<state, finished>>
    BY <1>2 DEF Next, Step, Start, CircuitOpen, SkipNotDue, FixturePage, LivePage, RequestFails,
                CredentialMissing, FixtureMissing, Fail, NormalizeFails, WriteManifest,
                WriteMember, Crash, vars, disk
  <2>2. now' \in Nat /\ now <= now'
    <3>1. CASE Start
      <4>1. now \in Nat /\ \A d \in Gaps : d \in Nat
        BY NumbersAssumption DEF Inv4, Inv3, Inv2, Inv1, TypeInv, TypeOK
      <4>2. QED
        BY <3>1, <4>1 DEF Start
    <3>2. CASE ~Start
      <4>1. now' = now
        BY <1>2, <3>2 DEF Next, Step, CircuitOpen, SkipNotDue, FixturePage, LivePage, RequestFails,
                CredentialMissing, FixtureMissing, Fail, NormalizeFails, WriteManifest,
                WriteMember, Crash, vars, clock
      <4>2. QED
        BY <4>1 DEF Inv4, Inv3, Inv2, Inv1, TypeInv, TypeOK
    <3>3. QED
      BY <3>1, <3>2
  <2>3. \A r \in finished : manifests'[r] = manifests[r]
    <3>1. CASE WriteManifest
      <4>1. pc # "idle" /\ manifests \in [Run -> Manifest \cup {None}]
        BY <3>1 DEF WriteManifest, LoopDone, Inv4, Inv3, Inv2, Inv1, TypeInv, TypeOK
      <4>2. \A r \in finished : r \in Run /\ r # run
        BY <4>1, FinishedRun DEF Inv4, Run, Inv3, RunInv
      <4>3. QED
        BY <3>1, <4>1, <4>2 DEF WriteManifest
    <3>2. CASE ~WriteManifest
      BY <1>2, <3>2 DEF Next, Step, Start, CircuitOpen, SkipNotDue, FixturePage, LivePage,
                RequestFails, CredentialMissing, FixtureMissing, Fail, NormalizeFails,
                WriteMember, Crash, vars, disk
    <3>3. QED
      BY <3>1, <3>2
  <2>4. QED
    BY <2>1, <2>2, <2>3, QuietLast
<1>3. QED
  BY <1>1, <1>2

LEMMA SpecInv4 == Spec => []Inv4
<1>1. Init => Inv4
  BY InitType, InitProgress, InitBaseline, InitRun, InitLast DEF Inv1, Inv2, Inv3, Inv4
<1>2. QED
  BY <1>1, NextInv4, PTL DEF Spec

LEMMA LastIsState == Inv4 => StateIsLastFinishedRun
<1> SUFFICES ASSUME Inv4 PROVE StateIsLastFinishedRun
  OBVIOUS
<1> DEFINE answered(s) == {r \in finished : manifests[r].obs[s].status \in Success}
           Entered(s) == IF answered(s) = {} THEN state.sources[s] = None
                         ELSE \E r \in answered(s) :
                                 /\ \A q \in answered(s) : q <= r
                                 /\ state.sources[s] = [content |-> manifests[r].obs[s].content,
                                                        collected_at |-> manifests[r].collected_at]
<1>1. ASSUME NEW s \in Source PROVE Entered(s)
  <2>1. LatestEntry(s)
    BY DEF Inv4, LastInv
  <2>2. QED
    BY <2>1 DEF LatestEntry, AnsweredIn
<1>2. QED
  BY <1>1 DEF Inv4, LastInv, StateIsLastFinishedRun

\* The state file is that of the last run that finished, whatever died since:
\* its clock, its status and, of every source, the newest answer of them all.
THEOREM StateFollowsLastRun == Spec => []StateIsLastFinishedRun
  BY SpecInv4, LastIsState, PTL

(***************************************************************************)
(* The KAC circuit breaker.  The counter and the flag of the code are read *)
(* off the causes observed so far: the circuit is open when two KAC        *)
(* sources that follow one another failed in transport, and the counter    *)
(* is 1 when the last KAC source did.                                      *)
(***************************************************************************)
LastTransport(o, j) ==
    \E a \in 1..(j - 1) :
       /\ Specs[a] \in Kac /\ o[Specs[a]].cause = "transport"
       /\ \A k \in (a + 1)..(j - 1) : Specs[k] \notin Kac

BreakerInv ==
    /\ pc = "idle" => kacFailures = 0 /\ kacCircuit = FALSE
    /\ pc = "collect" =>
          /\ \A j \in 1..(pos - 1) : obs[Specs[j]].cause = "circuit"
                <=> Specs[j] \in Kac /\ TransportPairBefore(obs, j)
          /\ (kacCircuit = TRUE) <=> TransportPairBefore(obs, pos)
          /\ kacCircuit = FALSE =>
                kacFailures <= 1 /\ (kacFailures = 1 <=> LastTransport(obs, pos))
    /\ CircuitExact

(***************************************************************************)
(* The two predicates from one source to the next.                         *)
(***************************************************************************)
LEMMA PastOtherSource ==
    ASSUME NEW o, NEW j \in 1..Len(Specs), Specs[j] \notin Kac
    PROVE  /\ TransportPairBefore(o, j + 1) <=> TransportPairBefore(o, j)
           /\ LastTransport(o, j + 1) <=> LastTransport(o, j)
<1>1. Len(Specs) \in Nat /\ (j + 1) - 1 = j
  BY SpecsLength
<1>2. \A k \in 1..j : k \in 1..(j - 1) \/ k = j
  BY <1>1
<1>3. TransportPairBefore(o, j + 1) <=> TransportPairBefore(o, j)
  BY <1>1, <1>2 DEF TransportPairBefore
<1>4. LastTransport(o, j + 1) <=> LastTransport(o, j)
  BY <1>1, <1>2 DEF LastTransport
<1>5. QED
  BY <1>3, <1>4

LEMMA PastKacSource ==
    ASSUME NEW o, NEW j \in 1..Len(Specs), Specs[j] \in Kac
    PROVE  /\ TransportPairBefore(o, j + 1) <=>
                 \/ TransportPairBefore(o, j)
                 \/ o[Specs[j]].cause = "transport" /\ LastTransport(o, j)
           /\ LastTransport(o, j + 1) <=> o[Specs[j]].cause = "transport"
<1>1. Len(Specs) \in Nat /\ (j + 1) - 1 = j
  BY SpecsLength
<1>2. \A k \in 1..j : k \in 1..(j - 1) \/ k = j
  BY <1>1
<1>3. ASSUME TransportPairBefore(o, j + 1)
      PROVE  \/ TransportPairBefore(o, j)
             \/ o[Specs[j]].cause = "transport" /\ LastTransport(o, j)
  BY <1>1, <1>2, <1>3 DEF TransportPairBefore, LastTransport
<1>4. ASSUME TransportPairBefore(o, j) PROVE TransportPairBefore(o, j + 1)
  <2>1. PICK a \in 1..(j - 1), b \in 1..(j - 1) :
            /\ a < b /\ Specs[a] \in Kac /\ Specs[b] \in Kac
            /\ \A k \in (a + 1)..(b - 1) : Specs[k] \notin Kac
            /\ o[Specs[a]].cause = "transport" /\ o[Specs[b]].cause = "transport"
    BY <1>4 DEF TransportPairBefore
  <2>2. a \in 1..j /\ b \in 1..j
    BY <1>1, <2>1
  <2>3. QED
    BY <1>1, <2>1, <2>2 DEF TransportPairBefore
<1>5. ASSUME o[Specs[j]].cause = "transport", LastTransport(o, j)
      PROVE  TransportPairBefore(o, j + 1)
  <2>1. PICK a \in 1..(j - 1) :
            /\ Specs[a] \in Kac /\ o[Specs[a]].cause = "transport"
            /\ \A k \in (a + 1)..(j - 1) : Specs[k] \notin Kac
    BY <1>5 DEF LastTransport
  <2>2. a \in 1..j /\ j \in 1..j /\ a < j
    BY <1>1, <2>1
  <2>3. QED
    BY <1>1, <1>5, <2>1, <2>2 DEF TransportPairBefore
<1>6. LastTransport(o, j + 1) <=> o[Specs[j]].cause = "transport"
  BY <1>1, <1>2 DEF LastTransport
<1>7. QED
  BY <1>3, <1>4, <1>5, <1>6

\* They depend on the sources before only.
LEMMA SamePast ==
    ASSUME NEW o, NEW p, NEW n \in 1..(Len(Specs) + 1), NEW j \in 1..n,
           \A k \in 1..(n - 1) : o[Specs[k]] = p[Specs[k]]
    PROVE  /\ TransportPairBefore(o, j) <=> TransportPairBefore(p, j)
           /\ LastTransport(o, j) <=> LastTransport(p, j)
<1>1. \A k \in 1..(j - 1) : o[Specs[k]] = p[Specs[k]]
  BY SpecsLength
<1>2. QED
  BY <1>1 DEF TransportPairBefore, LastTransport

(***************************************************************************)
(* The steps.                                                              *)
(***************************************************************************)
\* A source is observed: what is left to show is about the breaker.
LEMMA ObservedBreaker ==
    ASSUME Inv1, BreakerInv, InLoop, NextSource, UNCHANGED <<pc, manifests>>,
           NEW o, obs' = [obs EXCEPT ![src] = o],
           (o.cause = "circuit") <=> src \in Kac /\ kacCircuit = TRUE,
           src \notin Kac => UNCHANGED <<kacFailures, kacCircuit>>,
           src \in Kac /\ kacCircuit = TRUE => kacCircuit' = TRUE,
           src \in Kac /\ kacCircuit = FALSE =>
              /\ kacFailures' = IF o.cause = "transport" THEN kacFailures + 1 ELSE 0
              /\ kacCircuit' \in BOOLEAN /\ (kacCircuit' = TRUE <=> kacFailures' >= 2)
    PROVE  BreakerInv'
<1>1. /\ pc = "collect" /\ pos \in 1..Len(Specs) /\ pos' = pos + 1 /\ src \in Source
      /\ Len(Specs) \in Nat /\ src = Specs[pos] /\ kacFailures \in Nat /\ kacCircuit \in BOOLEAN
  BY SpecsLength, SrcType DEF Inv1, TypeInv, TypeOK, InLoop, NextSource, src
<1>2. obs'[Specs[pos]] = o
  BY <1>1 DEF Inv1, TypeInv, TypeOK
<1>3. ASSUME NEW k \in 1..(pos - 1) PROVE obs'[Specs[k]] = obs[Specs[k]]
  <2>1. k \in 1..Len(Specs) /\ k # pos
    BY <1>1
  <2>2. Specs[k] \in Source /\ Specs[k] # src
    BY <1>1, <2>1, SourcesAssumption
  <2>3. QED
    BY <2>2 DEF Inv1, TypeInv, TypeOK
<1>4. ASSUME NEW j \in 1..pos
      PROVE  /\ TransportPairBefore(obs', j) <=> TransportPairBefore(obs, j)
             /\ LastTransport(obs', j) <=> LastTransport(obs, j)
  <2>1. pos \in 1..(Len(Specs) + 1)
    BY <1>1
  <2>2. QED
    BY <1>3, <2>1, SamePast
<1>5. /\ (kacCircuit = TRUE) <=> TransportPairBefore(obs', pos)
      /\ kacCircuit = FALSE =>
            kacFailures <= 1 /\ (kacFailures = 1 <=> LastTransport(obs', pos))
  <2>1. pos \in 1..pos
    BY <1>1
  <2>2. QED
    BY <1>1, <1>4, <2>1 DEF BreakerInv
<1>6. ASSUME NEW j \in 1..(pos' - 1)
      PROVE  obs'[Specs[j]].cause = "circuit"
                <=> Specs[j] \in Kac /\ TransportPairBefore(obs', j)
  <2>1. CASE j = pos
    BY <1>1, <1>2, <1>5, <2>1
  <2>2. CASE j # pos
    <3>1. j \in 1..(pos - 1) /\ j \in 1..pos
      BY <1>1, <2>2
    <3>2. QED
      BY <1>1, <1>3, <1>4, <3>1 DEF BreakerInv
  <2>3. QED
    BY <2>1, <2>2
<1>7. /\ (kacCircuit' = TRUE) <=> TransportPairBefore(obs', pos')
      /\ kacCircuit' = FALSE =>
            kacFailures' <= 1 /\ (kacFailures' = 1 <=> LastTransport(obs', pos'))
  <2>1. CASE src \notin Kac
    BY <1>1, <1>5, <2>1, PastOtherSource
  <2>2. CASE src \in Kac /\ kacCircuit = TRUE
    BY <1>1, <1>2, <1>5, <2>2, PastKacSource
  <2>3. CASE src \in Kac /\ kacCircuit = FALSE
    <3>1. /\ TransportPairBefore(obs', pos') <=> o.cause = "transport" /\ LastTransport(obs', pos)
          /\ LastTransport(obs', pos') <=> o.cause = "transport"
      BY <1>1, <1>2, <1>5, <2>3, PastKacSource
    <3>2. kacFailures <= 1 /\ (kacFailures = 1 <=> LastTransport(obs', pos))
      BY <1>5, <2>3
    <3>3. QED
      BY <1>1, <2>3, <3>1, <3>2
  <2>4. QED
    BY <1>1, <2>1, <2>2, <2>3
<1>8. QED
  BY <1>1, <1>6, <1>7 DEF BreakerInv, CircuitExact

LEMMA SkipBreaker == ASSUME Inv1, BreakerInv, CircuitOpen \/ SkipNotDue PROVE BreakerInv'
<1>1. kacCircuit \in BOOLEAN
  BY DEF Inv1, TypeInv, TypeOK
<1>2. CASE CircuitOpen
  <2> DEFINE o == [status |-> "ERROR", content |-> None, stored |-> FALSE, cause |-> "circuit"]
  <2>1. /\ InLoop /\ NextSource /\ obs' = [obs EXCEPT ![src] = o] /\ src \in Kac
        /\ kacCircuit = TRUE /\ UNCHANGED <<pc, manifests, kacFailures, kacCircuit>>
    BY <1>1, <1>2 DEF CircuitOpen, Blocked, Observed, disk
  <2>2. o.cause = "circuit"
    OBVIOUS
  <2> HIDE DEF o
  <2>3. QED
    BY <2>1, <2>2, ObservedBreaker
<1>3. CASE SkipNotDue
  <2> DEFINE o == [status |-> "SKIPPED_NOT_DUE",
                   content |-> IF mem.sources[src] = None THEN None ELSE mem.sources[src].content,
                   stored |-> FALSE, cause |-> "none"]
  <2>1. /\ InLoop /\ NextSource /\ obs' = [obs EXCEPT ![src] = o]
        /\ UNCHANGED <<pc, manifests, kacFailures, kacCircuit>>
    BY <1>3 DEF SkipNotDue, Observed, disk
  <2>2. src \notin Kac
    BY <1>3, SourcesAssumption DEF SkipNotDue, _is_due
  <2>3. o.cause = "none"
    OBVIOUS
  <2> HIDE DEF o
  <2>4. QED
    BY <2>1, <2>2, <2>3, ObservedBreaker
<1>4. QED
  BY <1>2, <1>3

LEMMA PageBreaker == ASSUME Inv1, BreakerInv, FixturePage \/ LivePage PROVE BreakerInv'
<1>1. PICK body \in Body : InLoop /\ ~Blocked /\ Respond(body)
  BY BodiesAssumption DEF FixturePage, LivePage, Asking
<1>2. UNCHANGED <<pc, manifests, kacCircuit>> /\ kacCircuit \in BOOLEAN
  BY DEF FixturePage, LivePage, disk, Inv1, TypeInv, TypeOK
<1> DEFINE content == Append(pages, body)
           duplicate == mem.sources[src] # None /\ mem.sources[src].content = content
           status == IF _missing_fields(src, content) THEN "PARTIAL"
                     ELSE IF duplicate THEN "DUPLICATE" ELSE "OK"
           o == [status |-> status, content |-> content, stored |-> ~duplicate,
                 cause |-> "none"]
<1>3. CASE UNCHANGED <<pos, obs, kacFailures>>
  BY <1>2, <1>3 DEF BreakerInv, CircuitExact
<1>4. CASE Accept(content)
  <2>1. /\ NextSource /\ obs' = [obs EXCEPT ![src] = o]
        /\ kacFailures' = IF src \in Kac THEN 0 ELSE kacFailures
    BY <1>4 DEF Accept, Observed
  <2>2. o.cause = "none" /\ (src \in Kac => kacCircuit = FALSE)
    BY <1>1, <1>2 DEF Blocked
  <2> HIDE DEF o
  <2>3. /\ src \notin Kac => UNCHANGED <<kacFailures, kacCircuit>>
        /\ src \in Kac /\ kacCircuit = TRUE => kacCircuit' = TRUE
        /\ (o.cause = "circuit") <=> src \in Kac /\ kacCircuit = TRUE
    BY <1>2, <2>1, <2>2
  <2>4. src \in Kac /\ kacCircuit = FALSE =>
           /\ kacFailures' = IF o.cause = "transport" THEN kacFailures + 1 ELSE 0
           /\ kacCircuit' \in BOOLEAN /\ (kacCircuit' = TRUE <=> kacFailures' >= 2)
    BY <1>2, <2>1, <2>2
  <2>5. InLoop /\ UNCHANGED <<pc, manifests>>
    BY <1>1, <1>2
  <2>6. QED
    BY <2>1, <2>3, <2>4, <2>5, ObservedBreaker
<1>5. QED
  BY <1>1, <1>3, <1>4 DEF Respond

LEMMA FailBreaker ==
    ASSUME Inv1, BreakerInv, RequestFails \/ CredentialMissing \/ FixtureMissing
    PROVE  BreakerInv'
<1>1. PICK kind : kind # "circuit" /\ InLoop /\ ~Blocked /\ Fail(kind)
  <2>1. \A kind \in Failures : kind # "circuit"
    BY InputsAssumption DEF FailureKinds
  <2>2. CASE RequestFails
    BY <2>1, <2>2 DEF RequestFails, Asking
  <2>3. CASE CredentialMissing
    BY <2>3 DEF CredentialMissing, Asking
  <2>4. CASE FixtureMissing
    BY <2>4 DEF FixtureMissing, Asking
  <2>5. QED
    BY <2>2, <2>3, <2>4
<1> DEFINE o == [status |-> "ERROR", content |-> None, stored |-> FALSE, cause |-> kind]
           failures == IF kind = "transport" THEN kacFailures + 1 ELSE 0
<1>2. /\ NextSource /\ obs' = [obs EXCEPT ![src] = o] /\ UNCHANGED <<pc, manifests>>
      /\ src \in Kac => kacFailures' = failures /\ kacCircuit' = (failures >= 2)
      /\ src \notin Kac => UNCHANGED <<kacFailures, kacCircuit>>
  BY <1>1 DEF Fail, Observed, disk
<1>3. o.cause = kind
  OBVIOUS
<1>4. kacCircuit \in BOOLEAN /\ (src \in Kac => kacCircuit = FALSE)
  BY <1>1 DEF Blocked, Inv1, TypeInv, TypeOK
<1>5. (failures >= 2) \in BOOLEAN
  OBVIOUS
<1>6. src \in Kac => kacCircuit' \in BOOLEAN /\ (kacCircuit' = TRUE <=> kacFailures' >= 2)
  BY <1>2, <1>5
<1> HIDE DEF o
<1>7. QED
  BY <1>1, <1>2, <1>3, <1>4, <1>6, ObservedBreaker

LEMMA WriteManifestBreaker == ASSUME Inv1, BreakerInv, WriteManifest PROVE BreakerInv'
<1>1. pc = "collect" /\ pc' \in {"bundle", "state"} /\ run \in Run /\ pos = Len(Specs) + 1
  BY SpecsLength DEF WriteManifest, LoopDone, Inv1, Progress, TypeInv, TypeOK
<1>2. /\ manifests'[run].obs = obs
      /\ \A r \in Run \ {run} : manifests'[r] = manifests[r]
  BY <1>1 DEF WriteManifest, Inv1, TypeInv, TypeOK
<1>3. \A j \in 1..Len(Specs) : obs[Specs[j]].cause = "circuit"
          <=> Specs[j] \in Kac /\ TransportPairBefore(obs, j)
  <2>1. pos - 1 = Len(Specs)
    BY <1>1, SpecsLength
  <2>2. QED
    BY <1>1, <2>1 DEF BreakerInv
<1>4. CircuitExact'
  <2> SUFFICES ASSUME NEW r \in Run, manifests'[r] # None, NEW j \in 1..Len(Specs)
               PROVE  manifests'[r].obs[Specs[j]].cause = "circuit"
                         <=> Specs[j] \in Kac /\ TransportPairBefore(manifests'[r].obs, j)
    BY DEF CircuitExact
  <2>1. CASE r = run
    BY <1>2, <1>3, <2>1
  <2>2. CASE r # run
    BY <1>2, <2>2 DEF BreakerInv, CircuitExact
  <2>3. QED
    BY <2>1, <2>2
<1>5. QED
  BY <1>1, <1>4 DEF BreakerInv

LEMMA NextBreaker == ASSUME Inv1, BreakerInv, [Next]_vars PROVE BreakerInv'
<1>1. CASE CircuitOpen \/ SkipNotDue
  BY <1>1, SkipBreaker
<1>2. CASE FixturePage \/ LivePage
  BY <1>2, PageBreaker
<1>3. CASE RequestFails \/ CredentialMissing \/ FixtureMissing
  BY <1>3, FailBreaker
<1>4. CASE Start
  <2>1. /\ pc = "idle" /\ pos' = 1 /\ pc' = "collect" /\ kacFailures' = 0 /\ kacCircuit' = FALSE
        /\ manifests' = manifests
    BY <1>4 DEF Start, request, disk, BreakerInv, Inv1, Progress
  <2>2. ~TransportPairBefore(obs', 1) /\ ~LastTransport(obs', 1)
    BY DEF TransportPairBefore, LastTransport
  <2>3. QED
    BY <2>1, <2>2 DEF BreakerInv, CircuitExact
<1>5. CASE NormalizeFails \/ WriteState \/ Crash
  BY <1>5 DEF NormalizeFails, WriteState, Crash, ProcessGone, disk, BreakerInv, CircuitExact
<1>6. CASE WriteManifest
  BY <1>6, WriteManifestBreaker
<1>7. CASE WriteMember
  BY <1>7 DEF WriteMember, BreakerInv, CircuitExact
<1>8. CASE UNCHANGED vars
  BY <1>8 DEF vars, disk, request, BreakerInv, CircuitExact
<1>9. QED
  BY <1>1, <1>2, <1>3, <1>4, <1>5, <1>6, <1>7, <1>8 DEF Next, Step

\* For any list of sources and any failures: a KAC source is refused exactly
\* when two KAC sources that follow one another before it failed in transport,
\* and no source of another provider ever is.
THEOREM CircuitIsExact == Spec => []CircuitExact
<1>1. Init => Inv1 /\ BreakerInv
  BY InitType, InitProgress DEF Inv1, Init, BreakerInv, CircuitExact, Run
<1>2. (Inv1 /\ BreakerInv) /\ [Next]_vars => (Inv1 /\ BreakerInv)'
  BY NextInv1, NextBreaker
<1>3. Inv1 /\ BreakerInv => CircuitExact
  BY DEF BreakerInv
<1>4. QED
  BY <1>1, <1>2, <1>3, PTL DEF Spec

(***************************************************************************)
(* The storage counter.                                                    *)
(***************************************************************************)
StoredPairs == UNION {{r} \X bundles[r] : r \in finished}

CountInv ==
    /\ IsFiniteSet(StoredPairs)
    /\ state.stored_payloads = Cardinality(StoredPairs)
    /\ pc = "collect" => mem.stored_payloads = state.stored_payloads
    /\ pc \in {"bundle", "state"} =>
          mem.stored_payloads = state.stored_payloads + Cardinality(payloads)

LEMMA InitCount == Init => CountInv
<1> SUFFICES ASSUME Init PROVE CountInv
  OBVIOUS
<1>1. StoredPairs = {}
  BY DEF Init, StoredPairs
<1>2. QED
  BY <1>1, FS_EmptySet DEF Init, CountInv, EmptyState

\* A bundle in the making belongs to no finished run.
LEMMA SamePairs ==
    ASSUME Inv3, [Next]_vars, ~WriteState
    PROVE  StoredPairs' = StoredPairs
<1>1. finished' = finished /\ \A r \in finished : bundles'[r] = bundles[r]
  <2>1. CASE WriteMember
    <3>1. PICK p \in payloads : bundles' = [bundles EXCEPT ![run] = @ \cup {p}]
      BY <2>1 DEF WriteMember
    <3>2. \A r \in finished : r \in Run /\ r # run
      BY <2>1, FinishedRun DEF WriteMember, Inv3, RunInv
    <3>3. QED
      BY <2>1, <3>1, <3>2 DEF WriteMember, Inv3, Inv2, Inv1, TypeInv, TypeOK
  <2>2. CASE ~WriteMember
    BY <2>2 DEF Next, Step, Start, CircuitOpen, SkipNotDue, FixturePage, LivePage, RequestFails,
                CredentialMissing, FixtureMissing, Fail, NormalizeFails, WriteManifest,
                Crash, vars, disk
  <2>3. QED
    BY <2>1, <2>2
<1>2. QED
  BY <1>1 DEF StoredPairs

LEMMA WriteStateCount == ASSUME Inv3, CountInv, WriteState PROVE CountInv'
<1>1. /\ pc = "state" /\ pc' = "idle" /\ finished' = finished \cup {run} /\ bundles' = bundles
      /\ state' = [mem EXCEPT !.updated_at = now, !.last_run = run,
                              !.last_status = manifests[run].status]
  BY DEF WriteState, ProcessGone
<1>2. state'.stored_payloads = state.stored_payloads + Cardinality(payloads)
  BY <1>1 DEF Inv3, Inv2, Inv1, TypeInv, TypeOK, StateFile, CountInv
<1>3. bundles[run] = payloads /\ run \notin finished /\ IsFiniteSet(payloads)
  BY <1>1 DEF Inv3, RunInv, Inv2, Inv1, TypeInv
<1> DEFINE new == {run} \X payloads
<1>4. StoredPairs' = StoredPairs \cup new
  BY <1>1, <1>3 DEF StoredPairs
<1>5. StoredPairs \cap new = {}
  BY <1>3 DEF StoredPairs
<1>6. IsFiniteSet(new) /\ Cardinality(new) = Cardinality(payloads)
  <2>1. IsFiniteSet({run}) /\ Cardinality({run}) = 1
    BY FS_Singleton
  <2>2. Cardinality(payloads) \in Nat
    BY <1>3, FS_CardinalityType
  <2>3. IsFiniteSet(new) /\ Cardinality(new) = 1 * Cardinality(payloads)
    BY <1>3, <2>1, FS_Product
  <2>4. QED
    BY <2>2, <2>3
<1> HIDE DEF new
<1>7. IsFiniteSet(StoredPairs) /\ Cardinality(StoredPairs) \in Nat
  BY FS_CardinalityType DEF CountInv
<1>8. /\ IsFiniteSet(StoredPairs \cup new)
      /\ Cardinality(StoredPairs \cup new) = Cardinality(StoredPairs) + Cardinality(new) - 0
  BY <1>5, <1>6, <1>7, FS_Union, FS_EmptySet
<1>9. Cardinality(payloads) \in Nat
  BY <1>3, FS_CardinalityType
<1>10. QED
  BY <1>1, <1>2, <1>4, <1>6, <1>7, <1>8, <1>9 DEF CountInv

LEMMA NextCount == ASSUME Inv3, CountInv, [Next]_vars PROVE CountInv'
<1>1. CASE WriteState
  BY <1>1, WriteStateCount
<1>2. CASE ~WriteState
  <2>1. StoredPairs' = StoredPairs /\ state' = state
    BY <1>2, SamePairs DEF Next, Step, Start, CircuitOpen, SkipNotDue, FixturePage, LivePage,
                RequestFails, CredentialMissing, FixtureMissing, Fail, NormalizeFails,
                WriteManifest, WriteMember, Crash, vars, disk
  <2>2. CASE LoopStep
    <3>1. pc = "collect" /\ pc' = pc
      BY <2>2 DEF LoopStep, CircuitOpen, SkipNotDue, FixturePage, LivePage, RequestFails,
                  CredentialMissing, FixtureMissing, Fail, Asking, InLoop
    <3>2. mem'.stored_payloads = mem.stored_payloads
      <4>1. CASE UNCHANGED mem
        BY <4>1
      <4>2. CASE \E o \in Observation : Answered(o)
        BY <4>2 DEF Answered, Inv3, Inv2, Inv1, TypeInv, TypeOK, StateFile
      <4>3. QED
        BY <2>2, <4>1, <4>2, LoopSteps DEF Inv3, Inv2, Waiting, Unanswered
    <3>3. QED
      BY <2>1, <3>1, <3>2 DEF CountInv
  <2>3. CASE Start
    BY <2>1, <2>3 DEF Start, CountInv
  <2>4. CASE NormalizeFails \/ Crash
    BY <2>1, <2>4 DEF NormalizeFails, Crash, ProcessGone, CountInv
  <2>5. CASE WriteManifest
    <3>1. /\ pc = "collect" /\ pc' \in {"bundle", "state"} /\ payloads' = payloads
          /\ mem' = [mem EXCEPT !.stored_payloads = @ + Cardinality(payloads)]
      BY <2>5 DEF WriteManifest, LoopDone, request
    <3>2. mem'.stored_payloads = mem.stored_payloads + Cardinality(payloads)
      BY <3>1 DEF Inv3, Inv2, Inv1, TypeInv, TypeOK, StateFile
    <3>3. QED
      BY <2>1, <3>1, <3>2 DEF CountInv
  <2>6. CASE WriteMember
    BY <2>1, <2>6 DEF WriteMember, CountInv, request
  <2>7. CASE UNCHANGED vars
    BY <2>1, <2>7 DEF vars, request, CountInv
  <2>8. QED
    BY <1>2, <2>2, <2>3, <2>4, <2>5, <2>6, <2>7 DEF Next, Step, LoopStep
<1>3. QED
  BY <1>1, <1>2

\* The storage counter of the state file is the number of payloads in the
\* bundles of the finished runs, whatever an interrupted run left in its own.
THEOREM StorageIsCounted == Spec => []StorageCounted
<1>1. Init => Inv3 /\ CountInv
  BY InitType, InitProgress, InitBaseline, InitRun, InitCount DEF Inv1, Inv2, Inv3
<1>2. (Inv3 /\ CountInv) /\ [Next]_vars => (Inv3 /\ CountInv)'
  BY NextInv3, NextCount
<1>3. Inv3 /\ CountInv => StorageCounted
  BY DEF CountInv, StorageCounted, StoredPairs
<1>4. QED
  BY <1>1, <1>2, <1>3, PTL DEF Spec

(***************************************************************************)
(* Schedule health and source gaps.                                        *)
(***************************************************************************)
Late(q, r, cadence) ==
    2 * (manifests[r].collected_at - manifests[q].collected_at) > 5 * cadence

Age(q, r) == manifests[r].collected_at - manifests[q].collected_at

LatenessIn(r) ==
    LET late   == manifests[r].health.late_by
        missed == manifests[r].health.missed_intervals
    IN /\ late >= 0 /\ (late > 0 => \E q \in finished : q < r)
       /\ (\E q \in finished : q < r) =>
             \E q \in finished : q < r /\ Age(q, r) <= CadenceSeconds + late
       /\ late > 0 => \A q \in finished : q < r => Age(q, r) >= CadenceSeconds + late
       /\ missed * CadenceSeconds <= late /\ late < (missed + 1) * CadenceSeconds

HealthOf(r) ==
    /\ LatenessIn(r)
    /\ (manifests[r].health.status = "NO_BASELINE") <=> \A q \in finished : ~(q < r)
    /\ (manifests[r].health.status = "WARNING") <=>
          /\ \E q \in finished : q < r
          /\ \A q \in finished : q < r => Late(q, r, CadenceSeconds)
    /\ \A s \in Source : s \in manifests[r].gaps <=>
          /\ AnsweredIn(r, s) => Late(r, r, CadenceOf(s))
          /\ \A q \in finished : q < r /\ AnsweredIn(q, s) => Late(q, r, CadenceOf(s))

HealthInv == \A r \in Run : manifests[r] # None => HealthOf(r)

LEMMA InitHealth == Init => HealthInv
  BY DEF Init, HealthInv, Run

\* What later runs do does not change it.
LEMMA QuietHealth ==
    ASSUME Inv4, HealthInv, run' \in Nat, NEW p \in Int, finished' \subseteq finished \cup {p},
           finished \subseteq finished', \A r \in Run : manifests[r] # None => r <= p,
           UNCHANGED manifests
    PROVE  HealthInv'
<1> SUFFICES ASSUME NEW r \in Run, manifests[r] # None PROVE HealthOf(r)'
  BY DEF HealthInv
<1>1. HealthOf(r) /\ r <= p
  BY DEF HealthInv
<1>2. \A q \in finished : q \in Int
  BY FinishedRun DEF Inv4, Run
<1>3. \A q : q \in finished' /\ q < r <=> q \in finished /\ q < r
  BY <1>1, <1>2 DEF Run
<1>4. LatenessIn(r)'
  BY <1>1, <1>3 DEF HealthOf, LatenessIn, Age
<1>5. QED
  BY <1>1, <1>3, <1>4 DEF HealthOf, AnsweredIn, Late

\* Lateness and missed intervals of a time that has gone by.
LEMMA LatenessOf ==
    ASSUME NEW elapsed \in Nat, NEW cadence \in Nat \ {0}
    PROVE  LET late   == NotBelowZero(elapsed - cadence)
               missed == NotBelowZero((elapsed \div cadence) - 1)
           IN /\ late \in Nat /\ elapsed <= cadence + late
              /\ late > 0 => elapsed = cadence + late
              /\ missed * cadence <= late /\ late < (missed + 1) * cadence
<1> DEFINE n == elapsed \div cadence
           late == NotBelowZero(elapsed - cadence)
           missed == NotBelowZero(n - 1)
           Fits == /\ late \in Nat /\ elapsed <= cadence + late
                   /\ late > 0 => elapsed = cadence + late
                   /\ missed * cadence <= late /\ late < (missed + 1) * cadence
<1>1. n \in Nat
  OBVIOUS
<1>2. n * cadence <= elapsed /\ elapsed < (n + 1) * cadence
  BY SMTT(60)
<1>3. missed = IF n - 1 < 0 THEN 0 ELSE n - 1
  BY DEF NotBelowZero
<1>4. late = IF elapsed - cadence < 0 THEN 0 ELSE elapsed - cadence
  BY DEF NotBelowZero
<1> HIDE DEF n, late, missed
<1>5. ASSUME n = 0 PROVE Fits
  <2>1. elapsed < cadence /\ missed = 0
    BY <1>2, <1>3, <1>5
  <2>2. late = 0 /\ missed * cadence = 0 /\ (missed + 1) * cadence = cadence
    BY <1>4, <2>1
  <2>3. QED
    BY <2>1, <2>2
<1>6. ASSUME n > 0 PROVE Fits
  <2>1. missed = n - 1
    BY <1>1, <1>3, <1>6
  <2> DEFINE low == missed * cadence
             high == (missed + 1) * cadence
  <2>2. n * cadence = low + cadence /\ (n + 1) * cadence = high + cadence
    BY <1>1, <2>1, SMTT(60)
  <2>3. low \in Nat /\ high \in Nat
    BY <1>1, <1>6, <2>1
  <2>4. low + cadence <= elapsed /\ elapsed < high + cadence
    BY <1>2, <2>2
  <2> HIDE DEF low, high
  <2>5. low <= late /\ late < high /\ late = elapsed - cadence
    BY <1>4, <2>3, <2>4
  <2>6. QED
    BY <2>3, <2>4, <2>5 DEF low, high
<1>7. Fits
  BY <1>1, <1>5, <1>6
<1>8. QED
  BY <1>7 DEF late, missed, n

\* The schedule health a run writes.
LEMMA ScheduleSection ==
    ASSUME Inv4, finished = {} \/ state.updated_at \in Nat,
           NEW h, h = schedule_health(state.updated_at, now, CadenceSeconds)
    PROVE  /\ (h.status = "NO_BASELINE") <=> finished = {}
           /\ (h.status = "WARNING") <=>
                 finished # {} /\ \A q \in finished :
                    2 * (now - manifests[q].collected_at) > 5 * CadenceSeconds
<1>1. CASE finished = {}
  <2>1. state.updated_at = None
    BY <1>1 DEF Inv4, LastInv, EmptyState
  <2>2. QED
    BY <1>1, <2>1 DEF schedule_health
<1>2. CASE finished # {}
  <2>1. /\ state.last_run \in finished /\ \A r \in finished : r <= state.last_run
        /\ state.updated_at = manifests[state.last_run].collected_at
    BY <1>2 DEF Inv4, LastInv
  <2>2. /\ now \in Nat /\ CadenceSeconds \in Nat /\ state.updated_at \in Nat
        /\ state.updated_at <= now /\ state.updated_at # None
    BY <1>2, <2>1, NumbersAssumption, NoneAssumption
    DEF Inv4, LastInv, Inv3, Inv2, Inv1, TypeInv, TypeOK
  <2>3. \A q \in finished : /\ manifests[q].collected_at \in Nat
                            /\ manifests[q].collected_at <= state.updated_at
    BY <2>1, FinishedRun DEF Inv4, LastInv, Manifest
  <2>4. h.status = IF 2 * (now - state.updated_at) > 5 * CadenceSeconds THEN "WARNING" ELSE "OK"
    BY <2>2 DEF schedule_health, Elapsed, NotBelowZero, PastGapThreshold
  <2>5. (2 * (now - state.updated_at) > 5 * CadenceSeconds) <=>
           \A q \in finished : 2 * (now - manifests[q].collected_at) > 5 * CadenceSeconds
    BY <2>1, <2>2, <2>3
  <2>6. QED
    BY <1>2, <2>4, <2>5
<1>3. QED
  BY <1>1, <1>2

LEMMA LatenessSection ==
    ASSUME Inv4, finished = {} \/ state.updated_at \in Nat,
           NEW h, h = schedule_health(state.updated_at, now, CadenceSeconds)
    PROVE  /\ h.late_by >= 0 /\ (h.late_by > 0 => finished # {})
           /\ finished # {} =>
                 \E q \in finished : now - manifests[q].collected_at <= CadenceSeconds + h.late_by
           /\ h.late_by > 0 =>
                 \A q \in finished : now - manifests[q].collected_at >= CadenceSeconds + h.late_by
           /\ h.missed_intervals * CadenceSeconds <= h.late_by
           /\ h.late_by < (h.missed_intervals + 1) * CadenceSeconds
<1>1. CASE finished = {}
  <2>1. state.updated_at = None
    BY <1>1 DEF Inv4, LastInv, EmptyState
  <2>2. h.late_by = 0 /\ h.missed_intervals = 0
    BY <2>1 DEF schedule_health
  <2>3. QED
    BY <1>1, <2>2, NumbersAssumption
<1>2. CASE finished # {}
  <2>1. /\ state.last_run \in finished /\ \A r \in finished : r <= state.last_run
        /\ state.updated_at = manifests[state.last_run].collected_at
    BY <1>2 DEF Inv4, LastInv
  <2>2. /\ now \in Nat /\ CadenceSeconds \in Nat \ {0} /\ state.updated_at \in Nat
        /\ state.updated_at <= now /\ state.updated_at # None
    BY <1>2, <2>1, NumbersAssumption, NoneAssumption
    DEF Inv4, LastInv, Inv3, Inv2, Inv1, TypeInv, TypeOK
  <2>3. \A q \in finished : /\ manifests[q].collected_at \in Nat
                            /\ manifests[q].collected_at <= state.updated_at
    BY <2>1, FinishedRun DEF Inv4, LastInv, Manifest
  <2> DEFINE elapsed == now - state.updated_at
             late == h.late_by
             missed == h.missed_intervals
  <2>4. elapsed \in Nat /\ Elapsed(state.updated_at, now) = elapsed
    BY <2>2 DEF Elapsed, NotBelowZero
  <2> DEFINE l == NotBelowZero(elapsed - CadenceSeconds)
             m == NotBelowZero((elapsed \div CadenceSeconds) - 1)
  <2>5. /\ late = l /\ missed = m
        /\ l \in Nat /\ elapsed <= CadenceSeconds + l
        /\ l > 0 => elapsed = CadenceSeconds + l
        /\ m * CadenceSeconds <= l /\ l < (m + 1) * CadenceSeconds
    <3>1. late = l /\ missed = m
      BY <2>2, <2>4 DEF schedule_health
    <3> HIDE DEF late, missed, elapsed
    <3>2. QED
      BY <2>2, <2>4, <3>1, LatenessOf
  <2> HIDE DEF late, missed, elapsed, l, m
  <2>6. /\ late \in Nat /\ elapsed <= CadenceSeconds + late
        /\ late > 0 => elapsed = CadenceSeconds + late
        /\ missed * CadenceSeconds <= late /\ late < (missed + 1) * CadenceSeconds
    BY <2>5, Zenon
  <2>7. now - manifests[state.last_run].collected_at <= CadenceSeconds + late
    BY <2>1, <2>6 DEF elapsed
  <2>8. ASSUME late > 0, NEW q \in finished
        PROVE  now - manifests[q].collected_at >= CadenceSeconds + late
    <3>1. elapsed = CadenceSeconds + late
      BY <2>6, <2>8
    <3>2. now - manifests[q].collected_at >= elapsed
      BY <2>2, <2>3 DEF elapsed
    <3>3. QED
      BY <3>1, <3>2
  <2>9. late >= 0
    BY <2>6
  <2>10. QED
    BY <1>2, <2>1, <2>6, <2>7, <2>8, <2>9, Zenon DEF late, missed
<1>3. QED
  BY <1>1, <1>2

\* The gap of a source: the newest answer is in memory.
LEMMA SourceGap ==
    ASSUME Inv4, LoopDone, obs \in [Source -> Observation], NEW s \in Source
    PROVE  s \in SourceGaps <=>
              /\ obs[s].status \notin Success
              /\ \A q \in finished : AnsweredIn(q, s) =>
                    2 * (now - manifests[q].collected_at) > 5 * CadenceOf(s)
<1>1. /\ now \in Nat /\ CadenceOf(s) \in Nat /\ pc # "idle" /\ obs[s] # None
      /\ mem.sources[s] \in Entry \cup {None}
  BY NumbersAssumption, NoneAssumption
  DEF Inv4, Inv3, Inv2, Inv1, TypeInv, TypeOK, CadenceOf, LoopDone, StateFile
<1>2. \A q \in finished : manifests[q].collected_at \in Nat /\ manifests[q].collected_at <= now
  BY FinishedRun DEF Inv4, LastInv, Manifest
<1>3. CASE obs[s].status \in Success
  <2>1. mem.sources[s] = [content |-> obs[s].content, collected_at |-> now]
        /\ obs[s].content \in Content
    BY <1>1, <1>3 DEF Inv4, Inv3, ObsInv, Newest
  <2>2. mem.sources[s] \in Entry
    BY <1>1, <2>1 DEF Entry
  <2>3. mem.sources[s] # None /\ mem.sources[s].collected_at = now
    BY <2>1, <2>2, NoneAssumption
  <2>4. s \notin SourceGaps
    BY <1>1, <2>3 DEF SourceGaps, PastGapThreshold
  <2>5. QED
    BY <1>3, <2>4
<1>4. CASE obs[s].status \notin Success
  <2>1. mem.sources[s] = state.sources[s]
    BY <1>1, <1>4 DEF Inv4, Inv3, ObsInv
  <2>2. LatestEntry(s)
    BY DEF Inv4, LastInv
  <2>3. CASE state.sources[s] = None /\ \A r \in finished : ~AnsweredIn(r, s)
    BY <1>4, <2>1, <2>3 DEF SourceGaps
  <2>4. CASE \E r \in finished :
               /\ AnsweredIn(r, s) /\ \A q \in finished : AnsweredIn(q, s) => q <= r
               /\ state.sources[s] # None
               /\ state.sources[s] = [content |-> manifests[r].obs[s].content,
                                      collected_at |-> manifests[r].collected_at]
    <3>1. PICK r \in finished :
               /\ AnsweredIn(r, s) /\ \A q \in finished : AnsweredIn(q, s) => q <= r
               /\ state.sources[s] # None
               /\ state.sources[s] = [content |-> manifests[r].obs[s].content,
                                      collected_at |-> manifests[r].collected_at]
      BY <2>4
    <3>2. mem.sources[s] # None
      BY <2>1, <3>1
    <3>3. \A q \in finished : AnsweredIn(q, s) =>
             manifests[q].collected_at <= manifests[r].collected_at
      BY <3>1 DEF Inv4, LastInv
    <3>4. (s \in SourceGaps) <=> 2 * (now - manifests[r].collected_at) > 5 * CadenceOf(s)
      BY <2>1, <3>1, <3>2 DEF SourceGaps, PastGapThreshold
    <3>5. (2 * (now - manifests[r].collected_at) > 5 * CadenceOf(s)) <=>
             \A q \in finished : AnsweredIn(q, s) =>
                2 * (now - manifests[q].collected_at) > 5 * CadenceOf(s)
      BY <1>1, <1>2, <3>1, <3>3
    <3>6. QED
      BY <1>4, <3>4, <3>5
  <2>5. QED
    BY <2>2, <2>3, <2>4 DEF LatestEntry
<1>5. QED
  BY <1>3, <1>4

LEMMA WriteManifestHealth == ASSUME Inv4, HealthInv, WriteManifest PROVE HealthInv'
<1>1. /\ pc = "collect" /\ LoopDone /\ UNCHANGED <<finished, run>>
  BY DEF WriteManifest, LoopDone, clock
<1>2. run \in Run /\ obs \in [Source -> Observation]
  BY <1>1, AllObserved DEF Inv4, Inv3, Inv2, Inv1, Progress
<1>3. /\ \A r \in Run \ {run} : manifests'[r] = manifests[r]
      /\ manifests'[run].obs = obs /\ manifests'[run].collected_at = now
      /\ manifests'[run].gaps = SourceGaps
      /\ manifests'[run].health = schedule_health(state.updated_at, now, CadenceSeconds)
  BY <1>2 DEF WriteManifest, Inv4, Inv3, Inv2, Inv1, TypeInv, TypeOK
<1>4. \A q \in finished : q \in Run /\ q < run /\ manifests'[q] = manifests[q]
  BY <1>1, <1>2, <1>3, FinishedRun DEF Inv4, Run
<1>5. \A r \in Run : manifests[r] # None => r <= run
  BY <1>2 DEF Inv4, Inv3, RunInv, Run
<1>6. HealthOf(run)'
  <2>1. finished = {} \/ state.updated_at \in Nat
    BY FinishedRun DEF Inv4, LastInv, Manifest
  <2>2. /\ (manifests'[run].health.status = "NO_BASELINE") <=> finished = {}
        /\ (manifests'[run].health.status = "WARNING") <=>
              finished # {} /\ \A q \in finished :
                 2 * (now - manifests[q].collected_at) > 5 * CadenceSeconds
    BY <1>3, <2>1, ScheduleSection
  <2>3. \A q \in finished : manifests'[run].collected_at - manifests'[q].collected_at
                               = now - manifests[q].collected_at
    BY <1>3, <1>4
  <2>4. ASSUME NEW s \in Source
        PROVE  s \in manifests'[run].gaps <=>
                  /\ AnsweredIn(run, s)' => Late(run, run, CadenceOf(s))'
                  /\ \A q \in finished : AnsweredIn(q, s)' => Late(q, run, CadenceOf(s))'
    <3>1. AnsweredIn(run, s)' <=> obs[s].status \in Success
      BY <1>1, <1>3 DEF AnsweredIn
    <3>2. ~Late(run, run, CadenceOf(s))'
      BY <1>1, <1>3, NumbersAssumption
      DEF Late, CadenceOf, Inv4, Inv3, Inv2, Inv1, TypeInv, TypeOK
    <3>3. \A q \in finished : AnsweredIn(q, s)' <=> AnsweredIn(q, s)
      BY <1>4 DEF AnsweredIn
    <3>4. \A q \in finished : Late(q, run, CadenceOf(s))' <=>
             2 * (now - manifests[q].collected_at) > 5 * CadenceOf(s)
      BY <1>1, <2>3 DEF Late, CadenceOf
    <3>5. QED
      BY <1>1, <1>2, <1>3, <3>1, <3>2, <3>3, <3>4, SourceGap
  <2>5. \A q \in finished : Late(q, run, CadenceSeconds)' <=>
             2 * (now - manifests[q].collected_at) > 5 * CadenceSeconds
    BY <1>1, <2>3 DEF Late
  <2>6. LatenessIn(run)'
    <3> DEFINE late == manifests'[run].health.late_by
               missed == manifests'[run].health.missed_intervals
    <3>1. /\ late >= 0 /\ (late > 0 => finished # {})
          /\ finished # {} =>
                \E q \in finished : now - manifests[q].collected_at <= CadenceSeconds + late
          /\ late > 0 =>
                \A q \in finished : now - manifests[q].collected_at >= CadenceSeconds + late
          /\ missed * CadenceSeconds <= late /\ late < (missed + 1) * CadenceSeconds
      BY <1>3, <2>1, LatenessSection
    <3>2. \A q \in finished : Age(q, run)' = now - manifests[q].collected_at
      BY <1>1, <2>3 DEF Age
    <3>3. (\E q \in finished : q < run) <=> finished # {}
      BY <1>4
    <3>4. \A q \in finished : q < run
      BY <1>4
    <3>5. finished' = finished /\ run' = run
      BY <1>1
    <3> HIDE DEF late, missed
    <3>6. /\ late >= 0 /\ (late > 0 => \E q \in finished : q < run)
          /\ (\E q \in finished : q < run) =>
                \E q \in finished : q < run /\ Age(q, run)' <= CadenceSeconds + late
          /\ late > 0 => \A q \in finished : q < run => Age(q, run)' >= CadenceSeconds + late
          /\ missed * CadenceSeconds <= late /\ late < (missed + 1) * CadenceSeconds
      BY <3>1, <3>2, <3>3, <3>4, Zenon
    <3>7. QED
      BY <3>5, <3>6 DEF LatenessIn, late, missed
  <2>7. QED
    BY <1>1, <1>4, <2>2, <2>4, <2>5, <2>6 DEF HealthOf
<1>7. ASSUME NEW r \in Run, r # run, manifests'[r] # None PROVE HealthOf(r)'
  <2>1. HealthOf(r) /\ manifests'[r] = manifests[r]
    BY <1>3, <1>7 DEF HealthInv
  <2>2. LatenessIn(r)'
    BY <1>1, <1>4, <2>1 DEF HealthOf, LatenessIn, Age
  <2>3. QED
    BY <1>1, <1>4, <2>1, <2>2 DEF HealthOf, AnsweredIn, Late
<1>8. QED
  BY <1>1, <1>6, <1>7 DEF HealthInv

LEMMA NextHealth == ASSUME Inv4, HealthInv, [Next]_vars PROVE HealthInv'
<1>1. run \in Nat /\ \A r \in Run : manifests[r] # None => r <= run
  BY DEF Inv4, Inv3, RunInv, Inv2, Inv1, TypeInv, TypeOK, Run
<1>2. CASE WriteManifest
  BY <1>2, WriteManifestHealth
<1>3. CASE WriteState
  BY <1>1, <1>3, QuietHealth DEF WriteState, clock
<1>4. CASE ~WriteManifest /\ ~WriteState
  <2>1. UNCHANGED <<manifests, finished>>
    BY <1>4 DEF Next, Step, Start, CircuitOpen, SkipNotDue, FixturePage, LivePage, RequestFails,
                CredentialMissing, FixtureMissing, Fail, NormalizeFails,
                WriteMember, Crash, vars, disk
  <2>2. run' \in Nat
    BY NextInv1 DEF Inv4, Inv3, Inv2, Inv1, TypeInv, TypeOK
  <2>3. QED
    BY <1>1, <2>1, <2>2, QuietHealth
<1>5. QED
  BY <1>2, <1>3, <1>4

LEMMA HealthMatches == Inv4 /\ HealthInv => HealthMatchesHistory
<1> SUFFICES ASSUME Inv4, HealthInv PROVE HealthMatchesHistory
  OBVIOUS
<1> DEFINE before(r) == {q \in finished : q < r}
           answered(r, s) == {q \in before(r) \cup {r} : manifests[q].obs[s].status \in Success}
           late(r) == manifests[r].health.late_by
           missed(r) == manifests[r].health.missed_intervals
<1> SUFFICES ASSUME NEW r \in Run, manifests[r] # None
             PROVE  /\ late(r) >= 0 /\ (late(r) > 0 => before(r) # {})
                    /\ before(r) # {} => \E q \in before(r) : Age(q, r) <= CadenceSeconds + late(r)
                    /\ late(r) > 0 => \A q \in before(r) : Age(q, r) >= CadenceSeconds + late(r)
                    /\ missed(r) * CadenceSeconds <= late(r)
                    /\ late(r) < (missed(r) + 1) * CadenceSeconds
                    /\ (manifests[r].health.status = "NO_BASELINE") <=> before(r) = {}
                    /\ (manifests[r].health.status = "WARNING") <=>
                          before(r) # {} /\ \A q \in before(r) : Late(q, r, CadenceSeconds)
                    /\ \A s \in Source : s \in manifests[r].gaps <=>
                          \A q \in answered(r, s) : Late(q, r, CadenceOf(s))
  BY Zenon DEF HealthMatchesHistory, Late, Age
<1>1. HealthOf(r) /\ LatenessIn(r)
  BY DEF HealthInv, HealthOf
<1>2. ASSUME NEW s \in Source
      PROVE  s \in manifests[r].gaps <=> \A q \in answered(r, s) : Late(q, r, CadenceOf(s))
  BY <1>1 DEF HealthOf, AnsweredIn
<1>3. /\ late(r) >= 0 /\ (late(r) > 0 => before(r) # {})
      /\ before(r) # {} => \E q \in before(r) : Age(q, r) <= CadenceSeconds + late(r)
      /\ late(r) > 0 => \A q \in before(r) : Age(q, r) >= CadenceSeconds + late(r)
      /\ missed(r) * CadenceSeconds <= late(r) /\ late(r) < (missed(r) + 1) * CadenceSeconds
  BY <1>1 DEF LatenessIn
<1>4. QED
  BY <1>1, <1>2, <1>3 DEF HealthOf

\* What a manifest says about late runs and silent sources is what the manifests
\* of the finished runs before it say, for any clock advances between runs.
THEOREM HealthIsHistory == Spec => []HealthMatchesHistory
<1>1. Init => Inv4 /\ HealthInv
  BY InitType, InitProgress, InitBaseline, InitRun, InitLast, InitHealth
  DEF Inv1, Inv2, Inv3, Inv4
<1>2. (Inv4 /\ HealthInv) /\ [Next]_vars => (Inv4 /\ HealthInv)'
  BY NextInv4, NextHealth
<1>3. QED
  BY <1>1, <1>2, HealthMatches, PTL DEF Spec

(***************************************************************************)
(* The archive only grows, and the entries of the state file only renew.   *)
(***************************************************************************)
LEMMA NextAppends == Inv4 /\ Inv4' /\ [Next]_vars => [
       /\ \A s \in Source : state.sources[s] # None =>
            /\ state'.sources[s] # None
            /\ state'.sources[s].collected_at >= state.sources[s].collected_at
       /\ \A s \in Source : state'.sources[s] # state.sources[s] =>
            Stored(s, state'.sources[s].content, run)
       /\ \A r \in Run : manifests[r] # None => manifests'[r] = manifests[r]
       /\ \A r \in Run : bundles[r] \subseteq bundles'[r]]_disk
<1> SUFFICES ASSUME Inv4, Inv4', [Next]_vars
             PROVE
       /\ \A s \in Source : state.sources[s] # None =>
            /\ state'.sources[s] # None
            /\ state'.sources[s].collected_at >= state.sources[s].collected_at
       /\ \A s \in Source : state'.sources[s] # state.sources[s] =>
            Stored(s, state'.sources[s].content, run)
       /\ \A r \in Run : manifests[r] # None => manifests'[r] = manifests[r]
       /\ \A r \in Run : bundles[r] \subseteq bundles'[r]
  OBVIOUS
<1>1. \A r \in Run : bundles[r] \subseteq bundles'[r]
  BY NextGrows DEF BundlesGrow, Inv4, Inv3, Inv2
<1>2. \A r \in Run : manifests[r] # None => manifests'[r] = manifests[r]
  <2>1. CASE WriteManifest
    <3>1. pc = "collect" /\ run \in Run
      BY <2>1 DEF WriteManifest, LoopDone, Inv4, Inv3, Inv2, Inv1, Progress
    <3>2. manifests[run] = None
      BY <3>1 DEF Inv4, Inv3, RunInv
    <3>3. QED
      BY <2>1, <3>1, <3>2 DEF WriteManifest, Inv4, Inv3, Inv2, Inv1, TypeInv, TypeOK
  <2>2. CASE ~WriteManifest
    BY <2>2 DEF Next, Step, Start, CircuitOpen, SkipNotDue, FixturePage, LivePage,
                RequestFails, CredentialMissing, FixtureMissing, Fail, NormalizeFails,
                WriteMember, WriteState, Crash, vars, disk
  <2>3. QED
    BY <2>1, <2>2
<1>3. CASE WriteState
  <2>1. /\ pc = "state" /\ state'.sources = mem.sources /\ bundles[run] = payloads /\ run \in Run
        /\ now \in Nat /\ manifests[run].obs = obs /\ manifests[run] \in Manifest
    BY <1>3 DEF WriteState, Inv4, Inv3, RunInv, Inv2, Inv1, Progress, TypeInv, TypeOK, StateFile
  <2>2. ASSUME NEW s \in Source, mem.sources[s] # state.sources[s]
        PROVE  /\ mem.sources[s].collected_at = now /\ mem.sources[s].content = obs[s].content
               /\ mem.sources[s] # None
    <3>1. obs[s] \in Observation /\ obs[s] # None
      BY <2>1, NoneAssumption DEF Manifest
    <3>2. obs[s].status \in Success
      BY <2>1, <2>2, <3>1 DEF Inv4, Inv3, ObsInv
    <3>3. /\ mem.sources[s] = [content |-> obs[s].content, collected_at |-> now]
          /\ obs[s].content \in Content
      BY <2>1, <3>1, <3>2 DEF Inv4, Inv3, ObsInv, Newest
    <3>4. mem.sources[s] \in Entry
      BY <2>1, <3>3 DEF Entry
    <3>5. QED
      BY <3>3, <3>4, NoneAssumption
  <2>3. ASSUME NEW s \in Source, state.sources[s] # None
        PROVE  /\ state'.sources[s] # None
               /\ state'.sources[s].collected_at >= state.sources[s].collected_at
    <3>1. state.sources[s].collected_at \in Nat
      BY <2>3 DEF Inv4, Inv3, Inv2, Inv1, TypeInv, TypeOK, StateFile, Entry
    <3>2. state.sources[s].collected_at <= now
      <4>1. LatestEntry(s)
        BY DEF Inv4, LastInv
      <4>2. PICK r \in finished : state.sources[s] = [content |-> manifests[r].obs[s].content,
                                                     collected_at |-> manifests[r].collected_at]
        BY <2>3, <4>1 DEF LatestEntry
      <4>3. QED
        BY <4>2 DEF Inv4, LastInv
    <3>3. QED
      BY <2>1, <2>2, <2>3, <3>1, <3>2
  <2>4. ASSUME NEW s \in Source, state'.sources[s] # state.sources[s]
        PROVE  Stored(s, state'.sources[s].content, run)
    <3>1. CASE <<s, mem.sources[s].content>> \in payloads
      <4>1. run \in 1..run
        BY <2>1 DEF Run
      <4>2. QED
        BY <2>1, <3>1, <4>1 DEF Stored
    <3>2. CASE Stored(s, mem.sources[s].content, run - 1)
      BY <2>1, <3>2, StoredUpTo DEF Run
    <3>3. QED
      BY <2>1, <2>2, <2>4, <3>1, <3>2 DEF Inv4, Inv3, Inv2, BaselineInv
  <2>5. QED
    BY <1>1, <1>2, <2>3, <2>4
<1>4. CASE ~WriteState
  <2>1. state' = state
    BY <1>4 DEF Next, Step, Start, CircuitOpen, SkipNotDue, FixturePage, LivePage,
                RequestFails, CredentialMissing, FixtureMissing, Fail, NormalizeFails,
                WriteManifest, WriteMember, Crash, vars, disk
  <2>2. ASSUME NEW s \in Source, state.sources[s] # None
        PROVE  state.sources[s].collected_at >= state.sources[s].collected_at
    BY <2>2 DEF Inv4, Inv3, Inv2, Inv1, TypeInv, TypeOK, StateFile, Entry
  <2>3. QED
    BY <1>1, <1>2, <2>1, <2>2
<1>5. QED
  BY <1>3, <1>4

\* No step of any run, however it ends, loses or moves back the baseline of a
\* source, points it at a payload that is in no bundle, or alters the archive.
THEOREM ArchiveAppendsOnly == Spec => AppendOnly
  BY SpecInv4, NextAppends, PTL DEF Spec, AppendOnly

(***************************************************************************)
(* The weather cadence.                                                    *)
(***************************************************************************)
Due(s) == state.sources[s] # None
             => now - state.sources[s].collected_at >= WeatherCadence - DueSlack

CadenceInv ==
    pc # "idle" => \A s \in Weather : obs[s] # None =>
       /\ obs[s].status \in Success /\ ~force => Due(s)
       /\ obs[s].status = "SKIPPED_NOT_DUE" => ~Due(s)

LEMMA NextCadence == ASSUME Inv4, CadenceInv, [Next]_vars PROVE CadenceInv'
<1>1. CASE LoopStep
  <2>1. ASSUME NEW o \in Observation, Unanswered(o) \/ Answered(o) PROVE CadenceInv'
    <3>1. /\ InLoop /\ src \in Source /\ mem.sources[src] = state.sources[src]
          /\ obs' = [obs EXCEPT ![src] = o] /\ UNCHANGED <<pc, state, now, force>>
      BY <2>1, Untouched DEF Unanswered, Answered, Observing, Inv4, Inv3, disk, clock
    <3>2. obs'[src] = o /\ \A s \in Source : s # src => obs'[s] = obs[s]
      BY <3>1 DEF Inv4, Inv3, Inv2, Inv1, TypeInv, TypeOK
    <3>3. src \in Weather /\ ~force => (_is_due(src) <=> Due(src))
      BY <3>1 DEF _is_due, Due, CadenceOf
    <3>4. /\ src \in Weather /\ o.status \in Success /\ ~force => Due(src)
          /\ src \in Weather /\ o.status = "SKIPPED_NOT_DUE" => ~Due(src)
      <4>1. ~_is_due(src) => ~force
        BY DEF _is_due
      <4>2. QED
        BY <2>1, <3>3, <4>1 DEF Unanswered, Answered, Success
    <3>5. \A s \in Weather : s \in Source /\ Due(s)' = Due(s)
      BY <3>1, SourcesAssumption DEF Due
    <3>6. QED
      BY <3>1, <3>2, <3>4, <3>5 DEF CadenceInv, InLoop
  <2>2. CASE Waiting
    BY <2>2 DEF CadenceInv, Due, Waiting, disk, clock
  <2>3. QED
    BY <1>1, <2>1, <2>2, LoopSteps DEF Inv4, Inv3, Inv2
<1>2. CASE Start
  BY <1>2, SourcesAssumption DEF Start, CadenceInv, Inv4, Inv3, Inv2, BaselineInv, request
<1>3. CASE NormalizeFails \/ WriteState \/ Crash
  BY <1>3 DEF NormalizeFails, WriteState, Crash, ProcessGone, CadenceInv
<1>4. CASE WriteManifest \/ WriteMember
  BY <1>4 DEF WriteManifest, WriteMember, LoopDone, CadenceInv, Due, clock, inputs, request
<1>5. CASE UNCHANGED vars
  BY <1>5 DEF vars, disk, clock, inputs, request, CadenceInv, Due
<1>6. QED
  BY <1>1, <1>2, <1>3, <1>4, <1>5 DEF Next, Step, LoopStep

\* The cadence over the state files of two runs, from what is known of the
\* observations when the later one replaces the file.
LEMMA StateStepKeepsCadence ==
    Inv4 /\ CadenceInv /\ [Next]_vars =>
       [state' # state => \A s \in Weather :
          LET before == state.sources[s]
              after == state'.sources[s]
          IN /\ ~force /\ before # None /\ after # before =>
                   after.collected_at - before.collected_at >= WeatherCadence - DueSlack
             /\ manifests[run].obs[s].status = "SKIPPED_NOT_DUE" =>
                   before # None /\ now - before.collected_at < WeatherCadence - DueSlack]_state
<1> SUFFICES ASSUME Inv4, CadenceInv, [Next]_vars, state' # state, NEW s \in Weather
             PROVE  /\ ~force /\ state.sources[s] # None /\ state'.sources[s] # state.sources[s] =>
                          state'.sources[s].collected_at - state.sources[s].collected_at
                             >= WeatherCadence - DueSlack
                    /\ manifests[run].obs[s].status = "SKIPPED_NOT_DUE" =>
                          /\ state.sources[s] # None
                          /\ now - state.sources[s].collected_at < WeatherCadence - DueSlack
  OBVIOUS
<1>1. WriteState
  BY DEF Next, Step, Start, CircuitOpen, SkipNotDue, FixturePage, LivePage, RequestFails,
         CredentialMissing, FixtureMissing, Fail, NormalizeFails, WriteManifest,
         WriteMember, Crash, vars, disk
<1>2. /\ pc = "state" /\ state'.sources = mem.sources /\ manifests[run].obs = obs
      /\ manifests[run] \in Manifest /\ s \in Source
  BY <1>1, SourcesAssumption
  DEF WriteState, Inv4, Inv3, RunInv, Inv2, Inv1, Progress, TypeInv, TypeOK, StateFile
<1>3. obs[s] # None
  BY <1>2, NoneAssumption DEF Manifest
<1>4. mem.sources[s] # state.sources[s] =>
         obs[s].status \in Success /\ mem.sources[s].collected_at = now
  <2> SUFFICES ASSUME mem.sources[s] # state.sources[s]
               PROVE  obs[s].status \in Success /\ mem.sources[s].collected_at = now
    OBVIOUS
  <2>1. obs[s].status \in Success
    BY <1>2, <1>3 DEF Inv4, Inv3, ObsInv
  <2>2. Newest(s)
    BY <1>2, <1>3, <2>1 DEF Inv4, Inv3, ObsInv
  <2>3. QED
    BY <2>1, <2>2 DEF Newest
<1>5. /\ obs[s].status \in Success /\ ~force => Due(s)
      /\ obs[s].status = "SKIPPED_NOT_DUE" => ~Due(s)
  BY <1>2, <1>3 DEF CadenceInv
<1>6. state.sources[s] # None =>
         now - state.sources[s].collected_at \in Int /\ WeatherCadence - DueSlack \in Int
  BY <1>2, NumbersAssumption DEF Inv4, Inv3, Inv2, Inv1, TypeInv, TypeOK, StateFile, Entry
<1>7. QED
  BY <1>2, <1>4, <1>5, <1>6 DEF Due

\* A weather source is asked again, without force, only after its cadence less
\* the slack, and is skipped only while its last answer is younger than that.
THEOREM CadenceIsKept == Spec => CadenceKept
<1>1. Init => Inv4 /\ CadenceInv
  BY InitType, InitProgress, InitBaseline, InitRun, InitLast
  DEF Inv1, Inv2, Inv3, Inv4, Init, CadenceInv
<1>2. (Inv4 /\ CadenceInv) /\ [Next]_vars => (Inv4 /\ CadenceInv)'
  BY NextInv4, NextCadence
<1>3. QED
  BY <1>1, <1>2, StateStepKeepsCadence, PTL DEF Spec, CadenceKept
=============================================================================
