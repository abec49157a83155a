------------------------------ MODULE SeoulCity ------------------------------
(***************************************************************************)
(* SeoulCityCollector on the local SQLite database, with store_raw_payload *)
(* and detect_gaps.  cron starts a process every quarter of an hour, also  *)
(* when the last one is still at work.                                     *)
(*                                                                         *)
(* start_run's INSERT takes SQLite's write lock and nothing is committed   *)
(* before the end of the run, so the lock is held while the areas are      *)
(* asked: another process waits busy_timeout and then fails.  A crash      *)
(* rolls the whole run back, but raw files were written outside the        *)
(* transaction and stay.                                                   *)
(*                                                                         *)
(* A body stands for its hash, and determines the source timestamp and the *)
(* missing sections.  The day in a raw file's path is left out.  The       *)
(* database has been bootstrapped: collector and places are registered.    *)
(***************************************************************************)
EXTENDS ScheduleHealth, Sequences, SequencesExt, FiniteSets

CONSTANTS
    Process,        \* processes that run collect-seoul
    Area,           \* area names
    Places,         \* the lists of areas a run may be asked for: all, the sample
    Body,
    Answers,        \* the bodies the API may send, by area
    Lacking,        \* bodies without some of EXPECTED_SECTIONS
    Untimed,        \* bodies without a source timestamp
    CadenceSeconds, \* cadence_seconds of the collector registry
    Gaps,           \* clock advances    (bound)
    MaxCommands     \* collectors and health commands started (bound)

ASSUME SeoulAssumption ==
    /\ Places \subseteq Seq(Area) /\ Answers \in [Area -> SUBSET Body]
    /\ Lacking \subseteq Body /\ Untimed \subseteq Body /\ None \notin Process \cup Body
    /\ CadenceSeconds \in Nat \ {0} /\ Gaps \subseteq Nat
    /\ MaxCommands \in Nat

\* MAX(retrieved_at) of no row is NULL, which is no time.
ASSUME NoneIsNoTime == None \notin Nat

VARIABLES
    db,       \* the committed database
    tx,       \* the database as the owner of the write lock sees it
    owner,    \* the process that holds the write lock
    waiting,  \* processes that wait for it
    files,    \* raw files, by body
    now,
    phase, places, pos, body, results,  \* the run of the owner
    health,   \* the health command
    commands                            \* counter of the bound

run  == <<phase, places, pos, body, results>>
vars == <<db, tx, owner, waiting, files, now, run, health, commands>>

Verdicts == {"OK", "PARTIAL", "DUPLICATE", "ERROR"}
Overall  == {"RUNNING", "SUCCESS", "PARTIAL", "FAILED"}

RawRow   == [area : Area, hash : Body, at : Nat, run : Nat]
Snapshot == [area : Area, hash : Body, at : Nat, raw : Nat, quality : {"OK", "PARTIAL"}]
RunRow   == [status : Overall, requested : Nat, received : Nat, inserted : Nat,
             duplicates : Nat, errors : Nat]
GapRow   == [area : Area, expected : Int, resolved : BOOLEAN]
Database == [raws : Seq(RawRow), snapshots : Seq(Snapshot), runs : Seq(RunRow),
             gaps : SUBSET GapRow, checked : Nat]

Health   == [phase : {"idle", "read", "write"}, todo : SUBSET Area, at : Nat, view : Database]

EmptyDb == [raws |-> <<>>, snapshots |-> <<>>, runs |-> <<>>, gaps |-> {}, checked |-> 0]
NoHealth == [phase |-> "idle", todo |-> {}, at |-> 0, view |-> EmptyDb]

TypeOK ==
    /\ db \in Database /\ tx \in Database
    /\ owner \in Process \cup {None} /\ waiting \subseteq Process
    /\ files \in [Body -> {"absent", "cut", "complete"}] /\ now \in Nat
    /\ phase \in {"idle", "ask", "open", "write", "rows", "commit"}
    /\ places \in Seq(Area) /\ pos \in Nat /\ body \in Body \cup {None}
    /\ results \in Seq(Verdicts) /\ health \in Health /\ commands \in 0..MaxCommands

-----------------------------------------------------------------------------
Init ==
    /\ db = EmptyDb /\ tx = EmptyDb /\ owner = None /\ waiting = {}
    /\ files = [b \in Body |-> "absent"] /\ now = 0
    /\ phase = "idle" /\ places = <<>> /\ pos = 1 /\ body = None /\ results = <<>>
    /\ health = NoHealth /\ commands = 0

\* The connection is closed: the lock is free and the run's memory is gone.
Close ==
    /\ owner' = None /\ tx' = EmptyDb
    /\ phase' = "idle" /\ places' = <<>> /\ pos' = 1 /\ body' = None /\ results' = <<>>

Advance == \E d \in Gaps : now' = now + d

Start(p) ==
    /\ p \notin waiting /\ p # owner /\ commands < MaxCommands
    /\ waiting' = waiting \cup {p} /\ commands' = commands + 1
    /\ Advance
    /\ UNCHANGED <<db, tx, owner, files, run, health>>

\* Nobody writes.
LockFree == owner = None /\ health.phase # "write"

\* start_run.
Acquire(p) ==
    /\ p \in waiting /\ LockFree
    /\ owner' = p /\ waiting' = waiting \ {p}
    /\ tx' = [db EXCEPT !.runs = Append(@, [status |-> "RUNNING", requested |-> 0,
                 received |-> 0, inserted |-> 0, duplicates |-> 0, errors |-> 0])]
    /\ phase' = "ask" /\ places' \in Places
    /\ UNCHANGED <<db, files, now, pos, body, results, health, commands>>

\* "database is locked": the process ends and leaves nothing.
Busy(p) ==
    /\ p \in waiting /\ ~LockFree
    /\ waiting' = waiting \ {p}
    /\ UNCHANGED <<db, tx, owner, files, now, run, health, commands>>

-----------------------------------------------------------------------------
(* The area loop of collect.                                                *)

area == places[pos]

\* Mutant: an area that failed is asked again, without limit.
NextAreaAnswered(verdict) ==
    /\ results' = IF verdict = "ERROR" THEN results ELSE Append(results, verdict)
    /\ pos' = IF verdict = "ERROR" THEN pos ELSE pos + 1
    /\ phase' = "ask" /\ body' = None

NextArea(verdict) ==
    /\ results' = Append(results, verdict)
    /\ pos' = pos + 1 /\ phase' = "ask" /\ body' = None

\* Mutant: the file is not written again when one is there.
IsStoredOrOnDisk(b) ==
    files[b] # "absent" \/ \E i \in 1..Len(tx.raws) : tx.raws[i].hash = b

\* store_raw_payload looks for the content of any area, in its own transaction.
IsStored(b) == \E i \in 1..Len(tx.raws) : tx.raws[i].hash = b

Answer ==
    /\ phase = "ask" /\ pos <= Len(places)
    /\ \E b \in Answers[area] :
          /\ body' = b
          /\ phase' = IF IsStored(b) THEN "rows" ELSE "open"
    /\ UNCHANGED <<db, tx, owner, waiting, files, now, places, pos, results, health, commands>>

\* JSON and XML failed, or the file cannot be written: the area is an ERROR.
AreaFails ==
    /\ \/ phase = "ask" /\ pos <= Len(places)
       \/ phase \in {"open", "write"}
    /\ NextArea("ERROR")
    /\ UNCHANGED <<db, tx, owner, waiting, files, now, places, health, commands>>

\* write_bytes: the file is truncated, then written.
OpenFile ==
    /\ phase = "open" /\ phase' = "write"
    /\ files' = [files EXCEPT ![body] = "cut"]
    /\ UNCHANGED <<db, tx, owner, waiting, now, places, pos, body, results, health, commands>>

WriteFile ==
    /\ phase = "write" /\ phase' = "rows"
    /\ files' = [files EXCEPT ![body] = "complete"]
    /\ UNCHANGED <<db, tx, owner, waiting, now, places, pos, body, results, health, commands>>

Own == {i \in 1..Len(tx.snapshots) : tx.snapshots[i].area = area}

\* Mutant: the answer is compared with the first snapshot.
RepeatsFirst ==
    Own # {} /\ tx.snapshots[CHOOSE i \in Own : \A j \in Own : i <= j].hash = body

\* The hash of the area's latest snapshot.
RepeatsLatest ==
    Own # {} /\ tx.snapshots[CHOOSE i \in Own : \A j \in Own : j <= i].hash = body

\* UNIQUE(collector_id, entity_key, source_timestamp, payload_hash); NULLs differ.
BreaksUnique ==
    body \notin Untimed /\ \E i \in Own : tx.snapshots[i].hash = body

\* Mutant: run_id keeps its default.
AddRawWithoutRun ==
    Append(tx.raws, [area |-> area, hash |-> body, at |-> now, run |-> None])

AddRaw == Append(tx.raws, [area |-> area, hash |-> body, at |-> now, run |-> Len(tx.runs)])

AddSnapshot ==
    Append(tx.snapshots, [area |-> area, hash |-> body, at |-> now, raw |-> Len(tx.raws) + 1,
                          quality |-> IF body \in Lacking THEN "PARTIAL" ELSE "OK"])

\* The raw row, whatever follows, and the snapshot.  An IntegrityError undoes its
\* own statement only.
InsertRows ==
    /\ phase = "rows"
    /\ IF RepeatsLatest
       THEN tx' = [tx EXCEPT !.raws = AddRaw] /\ NextArea("DUPLICATE")
       ELSE IF BreaksUnique
       THEN tx' = [tx EXCEPT !.raws = AddRaw] /\ NextArea("ERROR")
       ELSE /\ tx' = [tx EXCEPT !.raws = AddRaw, !.snapshots = AddSnapshot]
            /\ NextArea(IF body \in Lacking THEN "PARTIAL" ELSE "OK")
    /\ UNCHANGED <<db, owner, waiting, files, now, places, health, commands>>

-----------------------------------------------------------------------------
(* The end of collect.                                                      *)

Count(verdicts) == Cardinality({i \in DOMAIN results : results[i] \in verdicts})

\* Mutant: the answers count as inserted.
RunSummaryOfAnswers ==
    [status |-> "SUCCESS", requested |-> Len(places), received |-> Len(results),
     inserted |-> Count({"OK", "PARTIAL", "DUPLICATE"}), duplicates |-> 0, errors |-> 0]

RunSummary ==
    LET received == Count({"OK", "PARTIAL", "DUPLICATE"})
    IN [status |-> IF received = Len(results) THEN "SUCCESS"
                   ELSE IF received > 0 THEN "PARTIAL" ELSE "FAILED",
        requested |-> Len(places), received |-> received,
        inserted |-> Count({"OK", "PARTIAL"}), duplicates |-> Count({"DUPLICATE"}),
        errors |-> Count({"ERROR"})]

LastSeen(d, a) ==
    LET seen == {d.raws[i].at : i \in {j \in 1..Len(d.raws) : d.raws[j].area = a}}
    IN IF seen = {} THEN None ELSE CHOOSE t \in seen : \A u \in seen : u <= t

\* Mutant: only a snapshot counts as seen.
FreshSnapshotOnly(d, a, t) ==
    \E i \in 1..Len(d.snapshots) :
       d.snapshots[i].area = a /\ ~PastGapThreshold(t - d.snapshots[i].at, CadenceSeconds)

Fresh(d, a, t) ==
    LastSeen(d, a) # None /\ ~PastGapThreshold(t - LastSeen(d, a), CadenceSeconds)

HasOpenGap(d, a) == \E g \in d.gaps : g.area = a /\ ~g.resolved

\* detect_gaps of these areas at time t: a fresh area has its gaps resolved, a
\* stale one gets a gap unless one is open.  expected is twice the threshold, to
\* stay an integer.
detect_gaps(d, areas, t) ==
    LET resolved(g) == [g EXCEPT !.resolved = @ \/ (g.area \in areas /\ Fresh(d, g.area, t))]
        expected    == 2 * t - 5 * CadenceSeconds
        ignored(a)  == \E g \in d.gaps : g.area = a /\ g.expected = expected
        opened      == {a \in areas : ~Fresh(d, a, t) /\ ~HasOpenGap(d, a) /\ ~ignored(a)}
    IN [d EXCEPT !.gaps = {resolved(g) : g \in @} \cup
                          {[area |-> a, expected |-> expected, resolved |-> FALSE] : a \in opened},
                 !.checked = t]

\* finish_run, the health row (the same counts) and detect_gaps.
Finish ==
    /\ phase = "ask" /\ pos > Len(places)
    /\ tx' = detect_gaps([tx EXCEPT !.runs[Len(tx.runs)] = RunSummary], Area, now)
    /\ phase' = "commit"
    /\ UNCHANGED <<db, owner, waiting, files, now, places, pos, body, results, health, commands>>

Commit ==
    /\ phase = "commit"
    /\ db' = tx
    /\ Close
    /\ UNCHANGED <<waiting, files, now, health, commands>>

\* The process dies, or a statement outside the area loop raises.
RollBack ==
    /\ owner # None
    /\ Close
    /\ UNCHANGED <<db, waiting, files, now, health, commands>>

-----------------------------------------------------------------------------
(* The health command: detect_gaps on a connection of its own.  The cursor  *)
(* over the places stays open, so that the command sees the database as it  *)
(* was at its first read; its first write takes the lock, and fails when    *)
(* another process committed since or does not let go of it.                *)

StartHealth ==
    /\ health.phase = "idle" /\ commands < MaxCommands
    /\ Advance
    /\ health' = [phase |-> "read", todo |-> Area, at |-> now', view |-> db]
    /\ commands' = commands + 1
    /\ UNCHANGED <<db, tx, owner, waiting, files, run>>

\* Mutant: the lock is all a write needs.
MayWriteAnyway == health.phase = "write" \/ owner = None

MayWrite == health.phase = "write" \/ (owner = None /\ health.view = db)

\* The next place of the table: an UPDATE or an INSERT for it, unless it has an open gap and stays stale.
CheckArea ==
    /\ health.phase # "idle" /\ health.todo # {}
    /\ LET a     == CHOOSE b \in health.todo : TRUE
           quiet == HasOpenGap(health.view, a) /\ ~Fresh(health.view, a, health.at)
       IN IF quiet
          THEN health' = [health EXCEPT !.todo = @ \ {a}]
          ELSE /\ MayWrite
               /\ health' = [health EXCEPT !.phase = "write", !.todo = @ \ {a},
                                           !.view = detect_gaps(@, {a}, health.at)]
    /\ UNCHANGED <<db, tx, owner, waiting, files, now, run, commands>>

CommitHealth ==
    /\ health.phase # "idle" /\ health.todo = {}
    /\ db' = IF health.phase = "write" THEN health.view ELSE db
    /\ health' = NoHealth
    /\ UNCHANGED <<tx, owner, waiting, files, now, run, commands>>

\* "database is locked", at once or after busy_timeout, or the process dies.
FailHealth ==
    /\ health.phase # "idle"
    /\ health' = NoHealth
    /\ UNCHANGED <<db, tx, owner, waiting, files, now, run, commands>>

-----------------------------------------------------------------------------
RunStep ==
    \/ Answer \/ AreaFails \/ OpenFile \/ WriteFile \/ InsertRows
    \/ Finish \/ Commit \/ RollBack

Waits(p) == Acquire(p) \/ Busy(p)

HealthStep == CheckArea \/ CommitHealth \/ FailHealth

Next == (\E p \in Process : Start(p) \/ Waits(p)) \/ RunStep \/ StartHealth \/ HealthStep

Spec == Init /\ [][Next]_vars

\* Requests time out, a wait for the lock lasts busy_timeout at most.
FairSpec == Spec /\ WF_vars(RunStep) /\ WF_vars(HealthStep) /\ \A p \in Process : WF_vars(Waits(p))

-----------------------------------------------------------------------------
(***************************************************************************)
(* Safety, of the committed database.                                      *)
(***************************************************************************)

\* Every raw row names a file that is on disk from its first byte to its last,
\* whichever process died while it wrote one of the same content; and every
\* snapshot names the raw row of the answer it was made from.
RowsHaveFiles ==
    /\ \A i \in 1..Len(db.raws) : files[db.raws[i].hash] = "complete"
    /\ \A i \in 1..Len(db.snapshots) :
          LET s == db.snapshots[i]
          IN /\ s.raw \in 1..Len(db.raws)
             /\ db.raws[s.raw].area = s.area /\ db.raws[s.raw].hash = s.hash

\* The snapshots of an area are its changes: two that follow one another differ,
\* whatever other runs were rolled back or refused between them.
SnapshotsAreChanges ==
    \A i, j \in 1..Len(db.snapshots) :
       LET s == db.snapshots[i]
           t == db.snapshots[j]
       IN /\ i < j /\ s.area = t.area
          /\ \A k \in (i + 1)..(j - 1) : db.snapshots[k].area # s.area
          => s.hash # t.hash

\* What a run reports is what it left: no run stays RUNNING, every answer has a
\* raw row of the run, and its new snapshots are those made from these rows.
RunsAccounted ==
    \A r \in 1..Len(db.runs) :
       LET row  == db.runs[r]
           own  == {i \in 1..Len(db.raws) : db.raws[i].run = r}
           made == {i \in 1..Len(db.snapshots) : db.snapshots[i].raw \in own}
       IN /\ row.status # "RUNNING"
          /\ row.requested = row.received + row.errors
          /\ row.inserted + row.duplicates = row.received
          /\ Cardinality(made) = row.inserted
          /\ row.received <= Cardinality(own) /\ Cardinality(own) <= row.requested

\* The raw row of an attempt that succeeded: the answer was the area's latest
\* snapshot afterwards, new or again.  That of a failed attempt has no such one.
Succeeded(i) ==
    \E k \in 1..Len(db.snapshots) :
       /\ db.snapshots[k].area = db.raws[i].area /\ db.snapshots[k].hash = db.raws[i].hash
       /\ db.snapshots[k].raw <= i
       /\ \A l \in (k + 1)..Len(db.snapshots) :
             db.snapshots[l].area = db.raws[i].area => db.snapshots[l].raw > i

\* One gap at most is open per area.  At the last check none was open for an area
\* observed with success, be it as a duplicate, within two and a half cadences,
\* and one was open where no answer at all was that recent.  Nothing is said of
\* an area whose only recent answer failed to be stored.
GapsMatchObservations ==
    \A a \in Area :
       LET open == {g \in db.gaps : g.area = a /\ ~g.resolved}
           rows == {i \in 1..Len(db.raws) : db.raws[i].area = a}
           old(i) == 2 * (db.checked - db.raws[i].at) > 5 * CadenceSeconds
       IN /\ Cardinality(open) <= 1
          /\ db.checked > 0 =>
                /\ open # {} => \A i \in rows : Succeeded(i) => old(i)
                /\ (\A i \in rows : old(i)) => open # {}

\* No command undoes what another has committed in the meantime: runs, raw rows
\* and snapshots stay as they are, a gap is opened or resolved and never lost.
NothingUndone ==
    [][/\ IsPrefix(db.runs, db'.runs) /\ IsPrefix(db.raws, db'.raws)
       /\ IsPrefix(db.snapshots, db'.snapshots)
       /\ \A g \in db.gaps : g \in db'.gaps \/ [g EXCEPT !.resolved = TRUE] \in db'.gaps
      ]_db

(***************************************************************************)
(* Liveness: the lock does not stay taken and no process waits for ever.   *)
(***************************************************************************)
LockIsReleased == []<>(LockFree /\ waiting = {})

(***************************************************************************)
(* A statement of the documentation the code does not keep.                *)
(***************************************************************************)

\* "No new snapshot when the last hash is the same", and only then: the latest
\* snapshot of an area is its latest answer.
LatestAnswerIsLatestSnapshot ==
    \A a \in Area :
       LET raws == {i \in 1..Len(db.raws) : db.raws[i].area = a}
           made == {i \in 1..Len(db.snapshots) : db.snapshots[i].area = a}
           last(S) == CHOOSE i \in S : \A j \in S : j <= i
       IN raws # {} =>
             made # {} /\ db.snapshots[last(made)].hash = db.raws[last(raws)].hash
=============================================================================
