--------------------------- MODULE SeoulCityProofs ---------------------------
(***************************************************************************)
(* The database of the Seoul collector, for every number of processes,     *)
(* areas, answers and commands: its rows have their files, its snapshots   *)
(* are the changes, no command undoes what another has committed, the gaps *)
(* are those of the rows, and the runs account for theirs.                 *)
(***************************************************************************)
EXTENDS SeoulCity, FiniteSetTheorems, SequenceTheorems, WellFoundedInduction, TLAPS

\* t continues s.
Continues(s, t) == Len(s) <= Len(t) /\ \A i \in 1..Len(s) : t[i] = s[i]

GapsKept(gaps, later) ==
    \A g \in gaps : g \in later \/ [g EXCEPT !.resolved = TRUE] \in later

Grown(d, e) ==
    /\ Continues(d.runs, e.runs) /\ Continues(d.raws, e.raws)
    /\ Continues(d.snapshots, e.snapshots) /\ GapsKept(d.gaps, e.gaps)

OnDisk(raws, disk) == \A i \in 1..Len(raws) : disk[raws[i].hash] = "complete"

Linked(snapshots, raws) ==
    \A i \in 1..Len(snapshots) :
       /\ snapshots[i].raw \in 1..Len(raws)
       /\ raws[snapshots[i].raw].area = snapshots[i].area
       /\ raws[snapshots[i].raw].hash = snapshots[i].hash

Changing(snapshots) ==
    \A i, j \in 1..Len(snapshots) :
       (/\ i < j /\ snapshots[i].area = snapshots[j].area
        /\ \A k \in (i + 1)..(j - 1) : snapshots[k].area # snapshots[j].area)
       => snapshots[i].hash # snapshots[j].hash

Sound(d) == OnDisk(d.raws, files) /\ Linked(d.snapshots, d.raws) /\ Changing(d.snapshots)

\* The owner of the lock is at work on one area, and has not written its file
\* before it is known that no row names it.
Phases ==
    /\ owner = None <=> phase = "idle"
    /\ pos >= 1 /\ (phase # "idle" => places \in Places)
    /\ phase \in {"open", "write", "rows"} => pos <= Len(places) /\ body \in Body
    /\ phase \in {"open", "write"} => ~IsStored(body)
    /\ phase = "rows" => files[body] = "complete"

\* What the owner sees continues what is committed; nobody else writes.
OwnerInv ==
    phase # "idle" =>
       /\ health.phase # "write" /\ Sound(tx) /\ Grown(db, tx)
       /\ phase # "commit" => Len(tx.runs) > Len(db.runs)

\* The health command writes gaps only, on top of what is committed.
HealthInv ==
    health.phase = "write" =>
       /\ owner = None /\ GapsKept(db.gaps, health.view.gaps)
       /\ health.view.runs = db.runs /\ health.view.raws = db.raws
       /\ health.view.snapshots = db.snapshots

Inv == TypeOK /\ Phases /\ Sound(db) /\ OwnerInv /\ HealthInv

(***************************************************************************)
(* Lemmas about sequences and databases.                                   *)
(***************************************************************************)
LEMMA EmptyDbFacts ==
    /\ EmptyDb \in Database
    /\ EmptyDb.raws = <<>> /\ EmptyDb.snapshots = <<>> /\ EmptyDb.runs = <<>> /\ EmptyDb.gaps = {}
  BY DEF EmptyDb, Database

LEMMA NoHealthFacts == NoHealth \in Health /\ NoHealth.phase = "idle"
  BY EmptyDbFacts DEF NoHealth, Health

LEMMA AppendContinues ==
    ASSUME NEW S, NEW s, NEW t \in Seq(S), NEW x \in S, Continues(s, t), Len(s) \in Nat
    PROVE  Continues(s, Append(t, x))
  BY DEF Continues

LEMMA AppendFacts ==
    ASSUME NEW S, NEW t \in Seq(S), NEW x \in S
    PROVE  /\ Append(t, x) \in Seq(S) /\ Len(Append(t, x)) = Len(t) + 1 /\ Len(t) \in Nat
           /\ Append(t, x)[Len(t) + 1] = x
           /\ \A i \in 1..Len(t) : Append(t, x)[i] = t[i]
  OBVIOUS

\* Gaps are opened and resolved, and the rest is left alone.
LEMMA DetectGapsFacts ==
    ASSUME NEW d \in Database, NEW areas \in SUBSET Area, NEW t \in Nat
    PROVE  /\ detect_gaps(d, areas, t) \in Database
           /\ detect_gaps(d, areas, t).runs = d.runs /\ detect_gaps(d, areas, t).raws = d.raws
           /\ detect_gaps(d, areas, t).snapshots = d.snapshots
           /\ GapsKept(d.gaps, detect_gaps(d, areas, t).gaps)
<1> DEFINE resolved(g) == [g EXCEPT !.resolved = @ \/ (g.area \in areas /\ Fresh(d, g.area, t))]
           expected    == 2 * t - 5 * CadenceSeconds
           ignored(a)  == \E g \in d.gaps : g.area = a /\ g.expected = expected
           opened      == {a \in areas : ~Fresh(d, a, t) /\ ~HasOpenGap(d, a) /\ ~ignored(a)}
           gaps        == {resolved(g) : g \in d.gaps} \cup
                          {[area |-> a, expected |-> expected, resolved |-> FALSE] : a \in opened}
<1>1. detect_gaps(d, areas, t) = [d EXCEPT !.gaps = gaps, !.checked = t]
  BY DEF detect_gaps
<1>2. expected \in Int
  BY SeoulAssumption
<1>3. ASSUME NEW g \in d.gaps
      PROVE  resolved(g) \in GapRow /\ (resolved(g) = g \/ resolved(g) = [g EXCEPT !.resolved = TRUE])
  <2>1. g \in GapRow
    BY DEF Database
  <2>2. (g.resolved \/ (g.area \in areas /\ Fresh(d, g.area, t))) \in BOOLEAN
    BY <2>1 DEF GapRow
  <2>3. resolved(g) = [g EXCEPT !.resolved = TRUE] \/ resolved(g) = [g EXCEPT !.resolved = FALSE]
    BY <2>1, <2>2
  <2>4. CASE g.resolved = TRUE
    BY <2>1, <2>4 DEF GapRow
  <2>5. CASE g.resolved = FALSE
    <3>1. [g EXCEPT !.resolved = FALSE] = g
      BY <2>1, <2>5 DEF GapRow
    <3>2. [g EXCEPT !.resolved = TRUE] \in GapRow
      BY <2>1 DEF GapRow
    <3>3. QED
      BY <2>1, <2>3, <3>1, <3>2
  <2>6. QED
    BY <2>1, <2>4, <2>5 DEF GapRow
<1>4. gaps \subseteq GapRow
  <2>1. \A a \in opened : [area |-> a, expected |-> expected, resolved |-> FALSE] \in GapRow
    BY <1>2 DEF GapRow
  <2>2. QED
    BY <1>3, <2>1
<1>5. GapsKept(d.gaps, gaps)
  BY <1>3 DEF GapsKept
<1> HIDE DEF gaps
<1>6. QED
  BY <1>1, <1>4, <1>5 DEF Database

LEMMA CountFacts == ASSUME TypeOK, NEW verdicts PROVE Count(verdicts) \in Nat
<1>1. IsFiniteSet(1..Len(results)) /\ DOMAIN results = 1..Len(results)
  BY FS_Interval DEF TypeOK
<1>2. IsFiniteSet({i \in DOMAIN results : results[i] \in verdicts})
  BY <1>1, FS_Subset
<1>3. QED
  BY <1>2, FS_CardinalityType DEF Count

LEMMA RunSummaryType == ASSUME TypeOK PROVE RunSummary \in RunRow
  BY CountFacts DEF RunSummary, RunRow, Overall, TypeOK

LEMMA AreaType ==
    ASSUME TypeOK, Phases, phase # "idle", pos <= Len(places) PROVE area \in Area
  BY SeoulAssumption DEF TypeOK, Phases, area

\* A snapshot that does not repeat the area's latest is a change.
LEMMA ChangeAppended ==
    ASSUME NEW s \in Seq(Snapshot), NEW x \in Snapshot, Changing(s),
           \A i \in 1..Len(s) :
              (s[i].area = x.area /\ \A j \in 1..Len(s) : s[j].area = x.area => j <= i)
              => s[i].hash # x.hash
    PROVE  Changing(Append(s, x))
<1> DEFINE n == Len(s)
           u == Append(s, x)
<1>1. n \in Nat /\ Len(u) = n + 1 /\ u[n + 1] = x /\ \A i \in 1..n : u[i] = s[i]
  OBVIOUS
<1> HIDE DEF u
<1>2. ASSUME NEW i \in 1..(n + 1), NEW j \in 1..(n + 1), i < j, u[i].area = u[j].area,
             \A k \in (i + 1)..(j - 1) : u[k].area # u[j].area
      PROVE  u[i].hash # u[j].hash
  <2>1. CASE j = n + 1
    <3>1. i \in 1..n /\ s[i].area = x.area
      BY <1>1, <1>2, <2>1
    <3>2. ASSUME NEW k \in 1..n, s[k].area = x.area PROVE k <= i
      <4>1. k \notin (i + 1)..(j - 1)
        BY <1>1, <1>2, <2>1, <3>2
      <4>2. QED
        BY <1>1, <2>1, <4>1
    <3>3. QED
      BY <1>1, <2>1, <3>1, <3>2
  <2>2. CASE j # n + 1
    <3>1. i \in 1..n /\ j \in 1..n
      BY <1>1, <1>2, <2>2
    <3>2. \A k \in (i + 1)..(j - 1) : s[k].area # s[j].area
      BY <1>1, <1>2, <3>1
    <3>3. QED
      BY <1>1, <1>2, <3>1, <3>2 DEF Changing
  <2>3. QED
    BY <2>1, <2>2
<1>3. QED
  BY <1>1, <1>2 DEF Changing, u

(***************************************************************************)
(* The steps.                                                              *)
(***************************************************************************)
LEMMA InitInv == Init => Inv
<1> SUFFICES ASSUME Init PROVE Inv
  OBVIOUS
<1>1. TypeOK
  BY EmptyDbFacts, NoHealthFacts, SeoulAssumption DEF Init, TypeOK
<1>2. Sound(db)
  BY EmptyDbFacts DEF Init, Sound, OnDisk, Linked, Changing
<1>3. Phases /\ OwnerInv /\ HealthInv
  BY NoHealthFacts DEF Init, Phases, OwnerInv, HealthInv
<1>4. QED
  BY <1>1, <1>2, <1>3 DEF Inv

LEMMA CloseType ==
    ASSUME Close
    PROVE  /\ owner' = None /\ tx' \in Database /\ phase' = "idle" /\ pos' = 1
           /\ places' \in Seq(Area) /\ body' = None /\ results' \in Seq(Verdicts)
  BY EmptyDbFacts DEF Close

LEMMA NextAreaType ==
    ASSUME TypeOK, NEW verdict \in Verdicts, NextArea(verdict)
    PROVE  /\ phase' = "ask" /\ pos' = pos + 1 /\ body' = None /\ results' \in Seq(Verdicts)
  BY DEF NextArea, TypeOK

LEMMA StartKeeps == ASSUME Inv, NEW p \in Process, Start(p) PROVE Inv'
<1>1. now' \in Nat /\ commands' \in 0..MaxCommands
  BY SeoulAssumption DEF Inv, TypeOK, Start, Advance
<1>2. TypeOK'
  BY <1>1 DEF Inv, TypeOK, Start, run
<1>3. QED
  BY <1>2 DEF Inv, Start, run, Phases, Sound, OwnerInv, HealthInv, IsStored

LEMMA BusyKeeps == ASSUME Inv, NEW p \in Process, Busy(p) PROVE Inv'
<1>1. TypeOK'
  BY DEF Inv, TypeOK, Busy, run
<1>2. QED
  BY <1>1 DEF Inv, Busy, run, Phases, Sound, OwnerInv, HealthInv, IsStored

LEMMA AcquireKeeps == ASSUME Inv, NEW p \in Process, Acquire(p) PROVE Inv'
<1> DEFINE row == [status |-> "RUNNING", requested |-> 0, received |-> 0, inserted |-> 0,
                   duplicates |-> 0, errors |-> 0]
<1>1. /\ tx' = [db EXCEPT !.runs = Append(@, row)] /\ db \in Database /\ row \in RunRow
      /\ db' = db /\ files' = files /\ health' = health
  BY DEF Acquire, Inv, TypeOK, RunRow, Overall
<1> HIDE DEF row
<1>2. db.runs \in Seq(RunRow)
  BY <1>1 DEF Database
<1>3. /\ tx' \in Database /\ tx'.runs = Append(db.runs, row) /\ tx'.raws = db.raws
      /\ tx'.snapshots = db.snapshots /\ tx'.gaps = db.gaps
  <2> DEFINE runs == Append(db.runs, row)
  <2>1. runs \in Seq(RunRow) /\ tx' = [db EXCEPT !.runs = runs]
    BY <1>1, <1>2
  <2> HIDE DEF runs
  <2>2. /\ tx' \in Database /\ tx'.runs = runs /\ tx'.raws = db.raws
        /\ tx'.snapshots = db.snapshots /\ tx'.gaps = db.gaps
    BY <1>1, <2>1 DEF Database
  <2>3. QED
    BY <2>2 DEF runs
<1>4. /\ owner' = p /\ phase' = "ask" /\ places' \in Places /\ pos' = pos
      /\ owner = None /\ health.phase # "write" /\ p # None
  BY SeoulAssumption DEF Acquire, LockFree
<1>5. TypeOK'
  BY <1>3, <1>4, SeoulAssumption DEF Inv, TypeOK, Acquire
<1>6. Phases'
  BY <1>4 DEF Inv, Phases
<1>7. Sound(db)' /\ Sound(tx)'
  BY <1>1, <1>3 DEF Inv, Sound
<1>8. Grown(db, tx)' /\ Len(tx'.runs) > Len(db'.runs)
  <2>1. /\ Continues(db.runs, Append(db.runs, row)) /\ Len(Append(db.runs, row)) > Len(db.runs)
    BY <1>1, <1>2, AppendFacts DEF Continues
  <2>2. /\ Continues(db.raws, db.raws) /\ Continues(db.snapshots, db.snapshots)
        /\ GapsKept(db.gaps, db.gaps)
    BY <1>1 DEF Continues, GapsKept, Database
  <2>3. QED
    BY <1>1, <1>3, <2>1, <2>2 DEF Grown
<1>9. QED
  BY <1>1, <1>4, <1>5, <1>6, <1>7, <1>8 DEF Inv, OwnerInv, HealthInv

LEMMA AnswerKeeps == ASSUME Inv, Answer PROVE Inv'
<1>1. PICK b \in Answers[area] : body' = b /\ phase' = IF IsStored(b) THEN "rows" ELSE "open"
  BY DEF Answer
<1>2. /\ phase = "ask" /\ pos <= Len(places) /\ area \in Area /\ b \in Body
      /\ phase' \in {"rows", "open"} /\ owner # None
      /\ UNCHANGED <<db, tx, owner, waiting, files, now, places, pos, results, health, commands>>
  BY <1>1, AreaType, SeoulAssumption DEF Answer, Inv, Phases
<1>3. TypeOK'
  BY <1>1, <1>2 DEF Inv, TypeOK
<1>4. IsStored(b) => files[b] = "complete"
  BY <1>2 DEF IsStored, Inv, OwnerInv, Sound, OnDisk
<1>5. Phases'
  BY <1>1, <1>2, <1>4 DEF Inv, Phases, IsStored
<1>6. QED
  BY <1>2, <1>3, <1>5 DEF Inv, Sound, OwnerInv, HealthInv

LEMMA AreaFailsKeeps == ASSUME Inv, AreaFails PROVE Inv'
<1>1. /\ phase # "idle" /\ phase # "commit"
      /\ UNCHANGED <<db, tx, owner, waiting, files, now, places, health, commands>>
  BY DEF AreaFails
<1>2. phase' = "ask" /\ pos' = pos + 1 /\ body' = None /\ results' \in Seq(Verdicts)
  BY NextAreaType DEF AreaFails, Inv, Verdicts
<1>3. TypeOK'
  BY <1>1, <1>2 DEF Inv, TypeOK
<1>4. Phases'
  BY <1>1, <1>2 DEF Inv, Phases, TypeOK
<1>5. QED
  BY <1>1, <1>2, <1>3, <1>4 DEF Inv, Sound, OwnerInv, HealthInv

LEMMA FileKeeps == ASSUME Inv, OpenFile \/ WriteFile PROVE Inv'
<1>1. /\ phase \in {"open", "write"} /\ body \in Body /\ ~IsStored(body)
      /\ UNCHANGED <<db, tx, owner, waiting, now, places, pos, body, results, health, commands>>
      /\ OwnerInv /\ owner # None
  BY DEF OpenFile, WriteFile, Inv, Phases
<1>2. PICK content \in {"cut", "complete"} :
         /\ files' = [files EXCEPT ![body] = content]
         /\ (content = "cut" /\ phase' = "write") \/ (content = "complete" /\ phase' = "rows")
  BY DEF OpenFile, WriteFile
<1>3. TypeOK'
  BY <1>1, <1>2 DEF Inv, TypeOK
<1>4. files'[body] = content /\ \A b \in Body : b # body => files'[b] = files[b]
  BY <1>1, <1>2 DEF Inv, TypeOK
<1>5. Phases'
  BY <1>1, <1>2, <1>4 DEF Inv, Phases, IsStored
<1>6. /\ \A i \in 1..Len(tx.raws) : tx.raws[i].hash \in Body /\ tx.raws[i].hash # body
      /\ \A i \in 1..Len(db.raws) : db.raws[i].hash \in Body /\ db.raws[i].hash # body
  <2>1. /\ db.raws \in Seq(RawRow) /\ tx.raws \in Seq(RawRow)
    BY DEF Inv, TypeOK, Database
  <2>2. \A i \in 1..Len(tx.raws) : tx.raws[i].hash \in Body /\ tx.raws[i].hash # body
    <3> SUFFICES ASSUME NEW i \in 1..Len(tx.raws)
                 PROVE  tx.raws[i].hash \in Body /\ tx.raws[i].hash # body
      OBVIOUS
    <3>1. tx.raws[i] \in RawRow
      BY <2>1
    <3>2. QED
      BY <1>1, <3>1 DEF IsStored, RawRow
  <2>3. Continues(db.raws, tx.raws) /\ Len(db.raws) \in Nat /\ Len(tx.raws) \in Nat
    BY <1>1, <2>1 DEF OwnerInv, Grown
  <2>4. \A i \in 1..Len(db.raws) : i \in 1..Len(tx.raws) /\ tx.raws[i] = db.raws[i]
    BY <2>3 DEF Continues
  <2>5. QED
    BY <2>2, <2>4
<1>7. Sound(db)' /\ Sound(tx)'
  BY <1>1, <1>4, <1>6 DEF Inv, OwnerInv, Sound, OnDisk
<1>8. QED
  BY <1>1, <1>2, <1>3, <1>5, <1>7 DEF Inv, OwnerInv, HealthInv

LEMMA FinishKeeps == ASSUME Inv, Finish PROVE Inv'
<1> DEFINE n == Len(tx.runs)
           closed == [tx EXCEPT !.runs[n] = RunSummary]
<1>1. /\ phase = "ask" /\ phase' = "commit" /\ tx' = detect_gaps(closed, Area, now)
      /\ UNCHANGED <<db, owner, waiting, files, now, places, pos, body, results, health, commands>>
      /\ tx \in Database /\ now \in Nat /\ OwnerInv /\ db \in Database
  BY DEF Finish, Inv, TypeOK
<1>2. /\ tx.runs \in Seq(RunRow) /\ n \in Nat /\ Len(db.runs) \in Nat /\ RunSummary \in RunRow
      /\ n > Len(db.runs)
  BY <1>1, RunSummaryType DEF Inv, Database, OwnerInv
<1>3. /\ [tx.runs EXCEPT ![n] = RunSummary] \in Seq(RunRow)
      /\ Len([tx.runs EXCEPT ![n] = RunSummary]) = n
      /\ \A i \in 1..Len(db.runs) : [tx.runs EXCEPT ![n] = RunSummary][i] = tx.runs[i]
  BY <1>2
<1>4. /\ closed \in Database /\ closed.runs = [tx.runs EXCEPT ![n] = RunSummary]
      /\ closed.raws = tx.raws /\ closed.snapshots = tx.snapshots /\ closed.gaps = tx.gaps
  BY <1>1, <1>3 DEF Database
<1> HIDE DEF closed
<1>5. /\ tx' \in Database /\ tx'.runs = closed.runs /\ tx'.raws = tx.raws
      /\ tx'.snapshots = tx.snapshots /\ GapsKept(tx.gaps, tx'.gaps)
  BY <1>1, <1>4, DetectGapsFacts
<1>6. TypeOK'
  BY <1>1, <1>5 DEF Inv, TypeOK
<1>7. Phases'
  BY <1>1 DEF Inv, Phases
<1>8. Sound(db)' /\ Sound(tx)'
  BY <1>1, <1>5 DEF Inv, OwnerInv, Sound
<1>9. Grown(db, tx)'
  <2>1. Continues(db.runs, tx'.runs)
    BY <1>1, <1>2, <1>3, <1>4, <1>5 DEF Continues, OwnerInv, Grown
  <2>2. GapsKept(db.gaps, tx'.gaps)
    <3>1. db.gaps \subseteq GapRow
      BY <1>1 DEF Database
    <3>2. \A g \in db.gaps : [[g EXCEPT !.resolved = TRUE] EXCEPT !.resolved = TRUE]
                                = [g EXCEPT !.resolved = TRUE]
      BY <3>1 DEF GapRow
    <3>3. QED
      BY <1>1, <1>5, <3>2 DEF GapsKept, OwnerInv, Grown
  <2>3. QED
    BY <1>1, <1>5, <2>1, <2>2 DEF OwnerInv, Grown
<1>10. QED
  BY <1>1, <1>6, <1>7, <1>8, <1>9 DEF Inv, OwnerInv, HealthInv

LEMMA CommitKeeps == ASSUME Inv, Commit PROVE Inv'
<1>1. /\ phase = "commit" /\ db' = tx /\ phase' = "idle" /\ owner' = None
      /\ UNCHANGED <<waiting, files, now, health, commands>> /\ health.phase # "write" /\ Sound(tx)
  BY CloseType DEF Commit, Inv, OwnerInv
<1>2. TypeOK'
  BY <1>1, CloseType DEF Commit, Inv, TypeOK
<1>3. Phases'
  BY <1>1, CloseType DEF Commit, Phases
<1>4. QED
  BY <1>1, <1>2, <1>3 DEF Inv, Sound, OwnerInv, HealthInv

LEMMA RollBackKeeps == ASSUME Inv, RollBack PROVE Inv'
<1>1. TypeOK'
  BY CloseType DEF RollBack, Inv, TypeOK
<1>2. Phases'
  BY CloseType DEF RollBack, Phases
<1>3. QED
  BY <1>1, <1>2, CloseType DEF RollBack, Inv, Sound, OwnerInv, HealthInv, Phases

\* The rows of an answer: the raw row, and a snapshot when it is a change.
LEMMA InsertRowsKeeps == ASSUME Inv, InsertRows PROVE Inv'
<1>1. /\ phase = "rows" /\ pos <= Len(places) /\ area \in Area /\ body \in Body
      /\ UNCHANGED <<db, owner, waiting, files, now, places, health, commands>>
      /\ tx \in Database /\ db \in Database /\ now \in Nat /\ owner # None
      /\ files[body] = "complete" /\ OwnerInv
  BY AreaType DEF InsertRows, Inv, Phases, TypeOK
<1>2. /\ tx.raws \in Seq(RawRow) /\ tx.snapshots \in Seq(Snapshot) /\ tx.runs \in Seq(RunRow)
      /\ db.raws \in Seq(RawRow) /\ db.snapshots \in Seq(Snapshot)
  BY <1>1 DEF Database
<1> DEFINE raw  == [area |-> area, hash |-> body, at |-> now, run |-> Len(tx.runs)]
           made == [area |-> area, hash |-> body, at |-> now, raw |-> Len(tx.raws) + 1,
                    quality |-> IF body \in Lacking THEN "PARTIAL" ELSE "OK"]
<1>3. /\ raw \in RawRow /\ raw.area = area /\ raw.hash = body
      /\ made \in Snapshot /\ made.area = area /\ made.hash = body
      /\ made.raw = Len(tx.raws) + 1
  BY <1>1, <1>2 DEF RawRow, Snapshot
<1>4. AddRaw = Append(tx.raws, raw) /\ AddSnapshot = Append(tx.snapshots, made)
  BY DEF AddRaw, AddSnapshot
<1> HIDE DEF raw, made
<1>5. /\ AddRaw \in Seq(RawRow) /\ Len(AddRaw) = Len(tx.raws) + 1 /\ Len(tx.raws) \in Nat
      /\ AddRaw[Len(tx.raws) + 1] = raw /\ \A i \in 1..Len(tx.raws) : AddRaw[i] = tx.raws[i]
      /\ AddSnapshot \in Seq(Snapshot) /\ Len(AddSnapshot) = Len(tx.snapshots) + 1
      /\ Len(tx.snapshots) \in Nat /\ AddSnapshot[Len(tx.snapshots) + 1] = made
      /\ \A i \in 1..Len(tx.snapshots) : AddSnapshot[i] = tx.snapshots[i]
  BY <1>2, <1>3, <1>4, AppendFacts
<1>6. PICK snapshots \in {tx.snapshots, AddSnapshot}, verdict \in Verdicts :
         /\ tx' = [tx EXCEPT !.raws = AddRaw, !.snapshots = snapshots] /\ NextArea(verdict)
         /\ snapshots = AddSnapshot => ~RepeatsLatest
  <2>1. CASE RepeatsLatest \/ BreaksUnique
    <3>1. PICK verdict \in Verdicts : tx' = [tx EXCEPT !.raws = AddRaw] /\ NextArea(verdict)
      BY <2>1 DEF InsertRows, Verdicts
    <3>2. [tx EXCEPT !.raws = AddRaw] = [tx EXCEPT !.raws = AddRaw, !.snapshots = tx.snapshots]
      BY <1>1 DEF Database
    <3>3. tx.snapshots # AddSnapshot
      BY <1>5
    <3>4. QED
      BY <3>1, <3>2, <3>3
  <2>2. CASE ~RepeatsLatest /\ ~BreaksUnique
    BY <2>2 DEF InsertRows, Verdicts
  <2>3. QED
    BY <2>1, <2>2
<1>7. /\ tx' \in Database /\ tx'.raws = AddRaw /\ tx'.snapshots = snapshots
      /\ tx'.runs = tx.runs /\ tx'.gaps = tx.gaps /\ snapshots \in Seq(Snapshot)
  BY <1>1, <1>2, <1>5, <1>6 DEF Database
<1>8. phase' = "ask" /\ pos' = pos + 1 /\ body' = None /\ results' \in Seq(Verdicts)
  BY <1>6, NextAreaType DEF Inv
<1>9. TypeOK'
  BY <1>1, <1>7, <1>8 DEF Inv, TypeOK
<1>10. Phases'
  BY <1>1, <1>8 DEF Inv, Phases, TypeOK
<1>11. OnDisk(AddRaw, files)
  <2> SUFFICES ASSUME NEW i \in 1..Len(AddRaw) PROVE files[AddRaw[i].hash] = "complete"
    BY DEF OnDisk
  <2>1. CASE i = Len(tx.raws) + 1
    BY <1>1, <1>3, <1>5, <2>1
  <2>2. CASE i # Len(tx.raws) + 1
    <3>1. i \in 1..Len(tx.raws) /\ AddRaw[i] = tx.raws[i]
      BY <1>5, <2>2
    <3>2. QED
      BY <1>1, <3>1 DEF OwnerInv, Sound, OnDisk
  <2>3. QED
    BY <2>1, <2>2
<1>12. Linked(snapshots, AddRaw)
  <2>1. Linked(tx.snapshots, AddRaw)
    <3> SUFFICES ASSUME NEW i \in 1..Len(tx.snapshots)
                 PROVE  /\ tx.snapshots[i].raw \in 1..Len(AddRaw)
                        /\ AddRaw[tx.snapshots[i].raw].area = tx.snapshots[i].area
                        /\ AddRaw[tx.snapshots[i].raw].hash = tx.snapshots[i].hash
      BY DEF Linked
    <3>1. /\ tx.snapshots[i].raw \in 1..Len(tx.raws)
          /\ tx.raws[tx.snapshots[i].raw].area = tx.snapshots[i].area
          /\ tx.raws[tx.snapshots[i].raw].hash = tx.snapshots[i].hash
      BY <1>1 DEF OwnerInv, Sound, Linked
    <3>2. PICK r \in 1..Len(tx.raws) : r = tx.snapshots[i].raw
      BY <3>1
    <3>3. r \in 1..Len(AddRaw)
      <4>1. Len(AddRaw) = Len(tx.raws) + 1 /\ Len(tx.raws) \in Nat
        BY <1>5
      <4>2. QED
        BY <4>1
    <3>4. AddRaw[r] = tx.raws[r]
      BY <1>5
    <3>5. QED
      BY <3>1, <3>2, <3>3, <3>4
  <2>2. Linked(AddSnapshot, AddRaw)
    <3> SUFFICES ASSUME NEW i \in 1..Len(AddSnapshot)
                 PROVE  /\ AddSnapshot[i].raw \in 1..Len(AddRaw)
                        /\ AddRaw[AddSnapshot[i].raw].area = AddSnapshot[i].area
                        /\ AddRaw[AddSnapshot[i].raw].hash = AddSnapshot[i].hash
      BY DEF Linked
    <3>1. CASE i = Len(tx.snapshots) + 1
      BY <1>3, <1>5, <3>1
    <3>2. CASE i # Len(tx.snapshots) + 1
      <4>1. i \in 1..Len(tx.snapshots)
        BY <1>5, <3>2
      <4>2. QED
        BY <1>5, <2>1, <4>1 DEF Linked
    <3>3. QED
      BY <3>1, <3>2
  <2>3. QED
    BY <1>6, <2>1, <2>2
<1>13. Changing(snapshots)
  <2>1. CASE snapshots = tx.snapshots
    BY <1>1, <2>1 DEF OwnerInv, Sound
  <2>2. CASE snapshots = AddSnapshot
    <3>1. ASSUME NEW i \in 1..Len(tx.snapshots), tx.snapshots[i].area = made.area,
                 \A j \in 1..Len(tx.snapshots) : tx.snapshots[j].area = made.area => j <= i
          PROVE  tx.snapshots[i].hash # made.hash
      <4>1. i \in Own /\ \A j \in Own : j <= i
        BY <1>3, <3>1 DEF Own
      <4>2. \A k \in Own : (\A j \in Own : j <= k) => k = i
        BY <1>5, <4>1 DEF Own
      <4>3. (CHOOSE k \in Own : \A j \in Own : j <= k) = i
        BY <4>1, <4>2
      <4>4. QED
        BY <1>3, <1>6, <2>2, <4>1, <4>3 DEF RepeatsLatest
    <3>2. Changing(tx.snapshots)
      BY <1>1 DEF OwnerInv, Sound
    <3>3. QED
      BY <1>2, <1>3, <1>4, <2>2, <3>1, <3>2, ChangeAppended
  <2>3. QED
    BY <1>6, <2>1, <2>2
<1>14. Sound(db)' /\ Sound(tx)'
  BY <1>1, <1>7, <1>11, <1>12, <1>13 DEF Inv, Sound
<1>15. Grown(db, tx)'
  <2>1. /\ Continues(db.raws, tx.raws) /\ Continues(db.snapshots, tx.snapshots)
        /\ Continues(db.runs, tx.runs) /\ GapsKept(db.gaps, tx.gaps)
        /\ Len(db.raws) \in Nat /\ Len(db.snapshots) \in Nat
    BY <1>1, <1>2 DEF OwnerInv, Grown
  <2>2. Continues(db.raws, AddRaw) /\ Continues(db.snapshots, AddSnapshot)
    BY <1>2, <1>3, <1>4, <2>1, AppendContinues
  <2>3. QED
    BY <1>1, <1>6, <1>7, <2>1, <2>2 DEF Grown
<1>16. QED
  BY <1>1, <1>7, <1>8, <1>9, <1>10, <1>14, <1>15 DEF Inv, OwnerInv, HealthInv

(***************************************************************************)
(* The health command.                                                     *)
(***************************************************************************)
LEMMA StartHealthKeeps == ASSUME Inv, StartHealth PROVE Inv'
<1>1. now' \in Nat /\ commands' \in 0..MaxCommands
  BY SeoulAssumption DEF Inv, TypeOK, StartHealth, Advance
<1>2. health' \in Health /\ health'.phase = "read"
  BY <1>1 DEF StartHealth, Health, Inv, TypeOK
<1>3. TypeOK'
  BY <1>1, <1>2 DEF Inv, TypeOK, StartHealth, run
<1>4. QED
  BY <1>2, <1>3 DEF Inv, StartHealth, run, Phases, Sound, OwnerInv, HealthInv, IsStored

LEMMA CheckAreaKeeps == ASSUME Inv, CheckArea PROVE Inv'
<1>1. UNCHANGED <<db, tx, owner, waiting, files, now, run, commands>>
      /\ health \in Health /\ db \in Database
  BY DEF CheckArea, Inv, TypeOK
<1>2. PICK a \in health.todo :
         \/ health' = [health EXCEPT !.todo = @ \ {a}]
         \/ /\ MayWrite
            /\ health' = [health EXCEPT !.phase = "write", !.todo = @ \ {a},
                                        !.view = detect_gaps(@, {a}, health.at)]
  <2>1. (CHOOSE b \in health.todo : TRUE) \in health.todo
    BY DEF CheckArea
  <2>2. QED
    BY <2>1 DEF CheckArea
<1>3. CASE health' = [health EXCEPT !.todo = @ \ {a}]
  <2>1. health' \in Health /\ health'.phase = health.phase /\ health'.view = health.view
    BY <1>1, <1>3 DEF Health
  <2>2. TypeOK'
    BY <1>1, <2>1 DEF Inv, TypeOK, run
  <2>3. QED
    BY <1>1, <2>1, <2>2 DEF Inv, run, Phases, Sound, OwnerInv, HealthInv, IsStored
<1>4. CASE /\ MayWrite
           /\ health' = [health EXCEPT !.phase = "write", !.todo = @ \ {a},
                                       !.view = detect_gaps(@, {a}, health.at)]
  <2> DEFINE view == detect_gaps(health.view, {a}, health.at)
  <2>1. health.view \in Database /\ health.at \in Nat /\ {a} \in SUBSET Area
    BY <1>1 DEF Health
  <2>2. /\ view \in Database /\ view.runs = health.view.runs /\ view.raws = health.view.raws
        /\ view.snapshots = health.view.snapshots /\ GapsKept(health.view.gaps, view.gaps)
    BY <2>1, DetectGapsFacts
  <2>3. health' = [health EXCEPT !.phase = "write", !.todo = @ \ {a}, !.view = view]
    BY <1>4
  <2> HIDE DEF view
  <2>4. health' \in Health /\ health'.phase = "write" /\ health'.view = view
    BY <1>1, <2>2, <2>3 DEF Health
  <2>5. /\ owner = None /\ GapsKept(db.gaps, health.view.gaps)
        /\ health.view.runs = db.runs /\ health.view.raws = db.raws
        /\ health.view.snapshots = db.snapshots
    BY <1>4 DEF MayWrite, Inv, HealthInv, GapsKept
  <2>6. GapsKept(db.gaps, view.gaps)
    <3>1. \A g \in db.gaps : [[g EXCEPT !.resolved = TRUE] EXCEPT !.resolved = TRUE]
                                = [g EXCEPT !.resolved = TRUE]
      BY <1>1 DEF Database, GapRow
    <3>2. QED
      BY <2>2, <2>5, <3>1 DEF GapsKept
  <2>7. TypeOK'
    BY <1>1, <2>4 DEF Inv, TypeOK, run
  <2>8. QED
    BY <1>1, <2>2, <2>4, <2>5, <2>6, <2>7 DEF Inv, run, Phases, Sound, OwnerInv, HealthInv, IsStored
<1>5. QED
  BY <1>2, <1>3, <1>4

LEMMA CommitHealthKeeps == ASSUME Inv, CommitHealth PROVE Inv'
<1>1. /\ UNCHANGED <<tx, owner, waiting, files, now, run, commands>>
      /\ health' = NoHealth /\ health \in Health
  BY DEF CommitHealth, Inv, TypeOK
<1>2. CASE db' = db
  <2>1. TypeOK'
    BY <1>1, <1>2, NoHealthFacts DEF Inv, TypeOK, run
  <2>2. QED
    BY <1>1, <1>2, <2>1, NoHealthFacts
       DEF Inv, run, Phases, Sound, OwnerInv, HealthInv, IsStored
<1>3. CASE health.phase = "write" /\ db' = health.view
  <2>1. owner = None /\ phase = "idle" /\ db' \in Database
    BY <1>1, <1>3 DEF Inv, HealthInv, Phases, Health
  <2>2. TypeOK'
    BY <1>1, <2>1, NoHealthFacts DEF Inv, TypeOK, run
  <2>3. Sound(db)'
    BY <1>1, <1>3 DEF Inv, HealthInv, Sound
  <2>4. QED
    BY <1>1, <2>1, <2>2, <2>3, NoHealthFacts DEF Inv, run, Phases, OwnerInv, HealthInv, IsStored
<1>4. QED
  BY <1>2, <1>3 DEF CommitHealth

LEMMA FailHealthKeeps == ASSUME Inv, FailHealth PROVE Inv'
<1>1. TypeOK'
  BY NoHealthFacts DEF FailHealth, Inv, TypeOK, run
<1>2. QED
  BY <1>1, NoHealthFacts
     DEF FailHealth, Inv, run, Phases, Sound, OwnerInv, HealthInv, IsStored

(***************************************************************************)
(* The theorems.                                                           *)
(***************************************************************************)
LEMMA NextInv == ASSUME Inv, [Next]_vars PROVE Inv'
<1>1. CASE \E p \in Process : Start(p) \/ Waits(p)
  BY <1>1, StartKeeps, AcquireKeeps, BusyKeeps DEF Waits
<1>2. CASE RunStep
  BY <1>2, AnswerKeeps, AreaFailsKeeps, FileKeeps, InsertRowsKeeps, FinishKeeps, CommitKeeps,
     RollBackKeeps DEF RunStep
<1>3. CASE StartHealth \/ HealthStep
  BY <1>3, StartHealthKeeps, CheckAreaKeeps, CommitHealthKeeps, FailHealthKeeps DEF HealthStep
<1>4. CASE UNCHANGED vars
  <2>1. TypeOK'
    BY <1>4 DEF vars, run, Inv, TypeOK
  <2>2. QED
    BY <1>4, <2>1 DEF vars, run, Inv, Phases, Sound, OwnerInv, HealthInv, IsStored
<1>5. QED
  BY <1>1, <1>2, <1>3, <1>4 DEF Next

LEMMA SpecInv == Spec => []Inv
<1>1. QED
  BY InitInv, NextInv, PTL DEF Spec

\* The rows, the files, the run in memory and the health command are well typed
\* for any processes, areas and answers.
THEOREM TypeCorrect == Spec => []TypeOK
<1>1. Inv => TypeOK
  BY DEF Inv
<1>2. QED
  BY <1>1, SpecInv, PTL

\* Whoever dies while it writes a raw file: a committed row names a complete one,
\* and a snapshot the row it was made from.
THEOREM RowsNameFiles == Spec => []RowsHaveFiles
<1>1. Inv => RowsHaveFiles
  BY DEF Inv, Sound, OnDisk, Linked, RowsHaveFiles
<1>2. QED
  BY <1>1, SpecInv, PTL

\* Two snapshots of an area that follow one another differ, for any answers and
\* however many runs are rolled back between them.
THEOREM SnapshotsChange == Spec => []SnapshotsAreChanges
<1>1. Inv => SnapshotsAreChanges
  BY DEF Inv, Sound, Changing, SnapshotsAreChanges
<1>2. QED
  BY <1>1, SpecInv, PTL

LEMMA ContinuesIsPrefix ==
    ASSUME NEW S, NEW s \in Seq(S), NEW t \in Seq(S), Continues(s, t) PROVE IsPrefix(s, t)
<1>1. Len(s) \in Nat /\ Len(t) \in Nat /\ Len(s) <= Len(t)
  BY DEF Continues
<1>2. SubSeq(s, 1, Len(s)) = [i \in 1..Len(s) |-> s[i]]
  BY <1>1
<1>3. SubSeq(t, 1, Len(s)) = [i \in 1..Len(s) |-> t[i]]
  BY <1>1
<1>4. QED
  BY <1>1, <1>2, <1>3 DEF Continues, IsPrefix

LEMMA StepGrows == ASSUME Inv, [Next]_vars PROVE db' = db \/ Grown(db, db')
<1>1. CASE Commit
  BY <1>1 DEF Commit, Inv, OwnerInv
<1>2. CASE CommitHealth
  <2>1. CASE db' = db
    BY <2>1
  <2>2. CASE health.phase = "write" /\ db' = health.view
    <3>1. \A S : \A s \in Seq(S) : Continues(s, s)
      BY DEF Continues
    <3>2. db.runs \in Seq(RunRow) /\ db.raws \in Seq(RawRow) /\ db.snapshots \in Seq(Snapshot)
      BY DEF Inv, TypeOK, Database
    <3>3. QED
      BY <2>2, <3>1, <3>2 DEF Inv, HealthInv, Grown
  <2>3. QED
    BY <1>2, <2>1, <2>2 DEF CommitHealth
<1>3. CASE UNCHANGED db
  BY <1>3
<1>4. QED
  BY <1>1, <1>2, <1>3
     DEF Next, Start, Waits, Acquire, Busy, RunStep, Answer, AreaFails, OpenFile, WriteFile,
         InsertRows, Finish, RollBack, StartHealth, HealthStep, CheckArea, FailHealth, vars

\* Whatever is read before the lock is held: a commit of a collector or of the
\* health command adds to what was committed, and resolves gaps.
THEOREM CommitsAdd == Spec => NothingUndone
<1>1. Inv /\ Inv' /\ [Next]_vars =>
         [/\ IsPrefix(db.runs, db'.runs) /\ IsPrefix(db.raws, db'.raws)
          /\ IsPrefix(db.snapshots, db'.snapshots)
          /\ \A g \in db.gaps : g \in db'.gaps \/ [g EXCEPT !.resolved = TRUE] \in db'.gaps]_db
  <2> SUFFICES ASSUME Inv, Inv', [Next]_vars, db' # db
               PROVE  /\ IsPrefix(db.runs, db'.runs) /\ IsPrefix(db.raws, db'.raws)
                      /\ IsPrefix(db.snapshots, db'.snapshots)
                      /\ \A g \in db.gaps : g \in db'.gaps \/ [g EXCEPT !.resolved = TRUE] \in db'.gaps
    OBVIOUS
  <2>1. Grown(db, db')
    BY StepGrows
  <2>2. db \in Database /\ db' \in Database
    BY DEF Inv, TypeOK
  <2>3. /\ db.runs \in Seq(RunRow) /\ db'.runs \in Seq(RunRow)
        /\ db.raws \in Seq(RawRow) /\ db'.raws \in Seq(RawRow)
        /\ db.snapshots \in Seq(Snapshot) /\ db'.snapshots \in Seq(Snapshot)
    BY <2>2 DEF Database
  <2>4. QED
    BY <2>1, <2>3, ContinuesIsPrefix DEF Grown, GapsKept
<1>2. QED
  BY <1>1, SpecInv, PTL DEF Spec, NothingUndone

(***************************************************************************)
(* Gaps.  What detect_gaps keeps between two checks: a gap was expected    *)
(* before the last check, a resolved one has a later row of its area, and  *)
(* an area has one open gap at most.                                       *)
(***************************************************************************)
Stale(d, a, t) ==
    \A i \in 1..Len(d.raws) : d.raws[i].area = a => 2 * (t - d.raws[i].at) > 5 * CadenceSeconds

\* At t, nothing in d lies ahead.
Timely(d, t) == d.checked <= t /\ \A i \in 1..Len(d.raws) : d.raws[i].at <= t

SeenSince(d, g) == \E i \in 1..Len(d.raws) : d.raws[i].area = g.area /\ 2 * d.raws[i].at >= g.expected

GapsSane(d) ==
    /\ \A g \in d.gaps : /\ g.expected <= 2 * d.checked - 5 * CadenceSeconds
                         /\ g.resolved => SeenSince(d, g)
    /\ \A g, h \in d.gaps : g.area = h.area /\ ~g.resolved /\ ~h.resolved => g = h

\* An area has an open gap exactly when it was stale at t.
Settled(d, a, t) == HasOpenGap(d, a) <=> Stale(d, a, t)

GapsInv ==
    /\ Timely(db, now) /\ GapsSane(db)
    /\ db.checked > 0 => \A a \in Area : Settled(db, a, db.checked)
    /\ phase # "idle" => Timely(tx, now) /\ GapsSane(tx)
    /\ phase = "commit" => \A a \in Area : Settled(tx, a, tx.checked)
    /\ health.phase # "idle" =>
          /\ Timely(health.view, health.at) /\ GapsSane(health.view) /\ health.at <= now
          /\ \A a \in Area \ health.todo : Settled(health.view, a, health.at)
    /\ health.phase = "write" => health.view.checked = health.at

\* Of numbers up to n one is the greatest.
LEMMA GreatestExists ==
    ASSUME NEW n \in Nat, NEW S \in SUBSET (0..n), S # {} PROVE \E m \in S : \A k \in S : k <= m
<1> DEFINE T    == {n - k : k \in S}
           Less == {ss \in Nat \X Nat : ss[1] < ss[2]}
<1>1. IsWellFoundedOn(Less, Nat)
  <2>1. OpToRel(<, Nat) = Less
    BY DEF OpToRel
  <2> HIDE DEF Less
  <2>2. QED
    BY <2>1, NatLessThanWellFounded
<1>2. T \subseteq Nat /\ T # {}
  <2>1. \A k \in S : n - k \in Nat
    OBVIOUS
  <2>2. PICK k \in S : TRUE
    OBVIOUS
  <2>3. n - k \in T
    OBVIOUS
  <2>4. QED
    BY <2>1, <2>3
<1>3. PICK x \in T : \A y \in T : <<y, x>> \notin Less
  <2> HIDE DEF T, Less
  <2>1. QED
    BY <1>1, <1>2, WFMin
<1>4. PICK m \in S : x = n - m
  OBVIOUS
<1>5. ASSUME NEW k \in S PROVE k <= m
  <2>1. <<n - k, x>> \notin Less
    BY <1>3
  <2>2. QED
    BY <1>4, <2>1
<1>6. QED
  BY <1>5

\* Fresh looks at the last row of the area, which is as good as looking at all.
LEMMA FreshIs ==
    ASSUME NEW d \in Database, NEW a \in Area, NEW t \in Nat, Timely(d, t)
    PROVE  Fresh(d, a, t) <=> ~Stale(d, a, t)
<1> DEFINE rows == {j \in 1..Len(d.raws) : d.raws[j].area = a}
           seen == {d.raws[i].at : i \in rows}
<1>1. LastSeen(d, a) = IF seen = {} THEN None ELSE CHOOSE u \in seen : \A v \in seen : v <= u
  BY DEF LastSeen
<1>2. seen \in SUBSET (0..t)
  <2>1. d.raws \in Seq(RawRow)
    BY DEF Database
  <2>2. \A i \in 1..Len(d.raws) : d.raws[i].at \in Nat /\ d.raws[i].at <= t
    <3> SUFFICES ASSUME NEW i \in 1..Len(d.raws) PROVE d.raws[i].at \in Nat /\ d.raws[i].at <= t
      OBVIOUS
    <3>1. d.raws[i] \in RawRow
      BY <2>1
    <3>2. QED
      BY <3>1 DEF RawRow, Timely
  <2>3. QED
    BY <2>2
<1>3. \A u \in seen : \E i \in 1..Len(d.raws) : d.raws[i].area = a /\ d.raws[i].at = u
  OBVIOUS
<1>4. \A i \in 1..Len(d.raws) : d.raws[i].area = a => d.raws[i].at \in seen
  OBVIOUS
<1>5. CadenceSeconds \in Nat
  BY SeoulAssumption
<1> HIDE DEF seen, rows
<1>6. CASE seen = {}
  <2>1. LastSeen(d, a) = None /\ Stale(d, a, t)
    BY <1>1, <1>4, <1>6 DEF Stale
  <2>2. QED
    BY <2>1 DEF Fresh
<1>7. CASE seen # {}
  <2>1. PICK m \in seen : \A k \in seen : k <= m
    BY <1>2, <1>7, GreatestExists
  <2>2. LastSeen(d, a) \in seen /\ \A k \in seen : k <= LastSeen(d, a)
    BY <1>1, <1>7, <2>1
  <2> DEFINE last == LastSeen(d, a)
  <2>3. last \in Nat /\ last # None
    <3>1. \A u \in seen : u \in Nat
      BY <1>2
    <3>2. last \in Nat
      BY <2>2, <3>1
    <3>3. QED
      BY <3>2, NoneIsNoTime
  <2>4. PICK i \in 1..Len(d.raws) : d.raws[i].area = a /\ d.raws[i].at = last
    BY <1>3, <2>2
  <2>5. Fresh(d, a, t) <=> ~(2 * (t - last) > 5 * CadenceSeconds)
    BY <2>3 DEF Fresh, PastGapThreshold
  <2> HIDE DEF last
  <2>6. (2 * (t - last) > 5 * CadenceSeconds) => Stale(d, a, t)
    <3> SUFFICES ASSUME 2 * (t - last) > 5 * CadenceSeconds, NEW j \in 1..Len(d.raws), d.raws[j].area = a
                 PROVE  2 * (t - d.raws[j].at) > 5 * CadenceSeconds
      BY DEF Stale
    <3>1. d.raws[j].at \in seen
      BY <1>4
    <3>2. d.raws[j].at \in Nat /\ d.raws[j].at <= last
      <4>1. \A u \in seen : u \in Nat
        BY <1>2
      <4>2. QED
        BY <2>2, <3>1, <4>1 DEF last
    <3>3. QED
      BY <1>5, <2>3, <3>2
  <2>7. Stale(d, a, t) => 2 * (t - last) > 5 * CadenceSeconds
    BY <2>4 DEF Stale
  <2>8. QED
    BY <2>5, <2>6, <2>7
<1>8. QED
  BY <1>6, <1>7

(***************************************************************************)
(* detect_gaps between two checks.                                         *)
(***************************************************************************)
\* What detect_gaps leaves of a gap, and the gap it opens.
Left(d, areas, t, g) == [g EXCEPT !.resolved = @ \/ (g.area \in areas /\ Fresh(d, g.area, t))]

NewGap(a, t) == [area |-> a, expected |-> 2 * t - 5 * CadenceSeconds, resolved |-> FALSE]

LEMMA LeftFacts ==
    ASSUME NEW d, NEW areas, NEW t, NEW g \in GapRow
    PROVE  /\ Left(d, areas, t, g).area = g.area /\ Left(d, areas, t, g).expected = g.expected
           /\ Left(d, areas, t, g).resolved <=> (g.resolved \/ (g.area \in areas /\ Fresh(d, g.area, t)))
  BY DEF Left, GapRow

\* In a sane table the gap that INSERT OR IGNORE would ignore is not there: the new
\* one is opened for every stale area without an open gap.
LEMMA DetectGapsOpens ==
    ASSUME NEW d \in Database, NEW areas \in SUBSET Area, NEW t \in Nat,
           GapsSane(d), Timely(d, t)
    PROVE  detect_gaps(d, areas, t).gaps =
              {Left(d, areas, t, g) : g \in d.gaps} \cup
              {NewGap(a, t) : a \in {b \in areas : Stale(d, b, t) /\ ~HasOpenGap(d, b)}}
<1> DEFINE expected   == 2 * t - 5 * CadenceSeconds
           ignored(a) == \E g \in d.gaps : g.area = a /\ g.expected = expected
           opened     == {a \in areas : ~Fresh(d, a, t) /\ ~HasOpenGap(d, a) /\ ~ignored(a)}
           stale      == {b \in areas : Stale(d, b, t) /\ ~HasOpenGap(d, b)}
<1>1. detect_gaps(d, areas, t).gaps =
         {Left(d, areas, t, g) : g \in d.gaps} \cup {NewGap(a, t) : a \in opened}
  BY DEF detect_gaps, Left, NewGap, Database
<1>2. ASSUME NEW a \in areas PROVE a \in opened <=> a \in stale
  <2>1. Fresh(d, a, t) <=> ~Stale(d, a, t)
    BY FreshIs
  <2>2. CASE Stale(d, a, t) /\ ~HasOpenGap(d, a)
    <3>1. SUFFICES ASSUME NEW g \in d.gaps, g.area = a, g.expected = expected PROVE FALSE
      BY <2>1, <2>2
    <3>2. g.resolved
      BY <2>2, <3>1 DEF HasOpenGap
    <3>3. PICK i \in 1..Len(d.raws) : d.raws[i].area = a /\ 2 * d.raws[i].at >= expected
      BY <3>1, <3>2 DEF GapsSane, SeenSince
    <3>4. 2 * (t - d.raws[i].at) > 5 * CadenceSeconds
      BY <2>2, <3>3 DEF Stale
    <3>5. d.raws[i].at \in Nat /\ CadenceSeconds \in Nat
      <4>1. d.raws \in Seq(RawRow)
        BY DEF Database
      <4>2. d.raws[i] \in RawRow
        BY <4>1
      <4>3. QED
        BY <4>2, SeoulAssumption DEF RawRow
    <3>6. QED
      BY <3>3, <3>4, <3>5
  <2>3. CASE ~(Stale(d, a, t) /\ ~HasOpenGap(d, a))
    BY <2>1, <2>3
  <2>4. QED
    BY <2>2, <2>3
<1>3. opened = stale
  BY <1>2
<1> HIDE DEF opened
<1>4. QED
  BY <1>1, <1>3

\* What a check at t leaves: a sane table that tells, of the areas it was asked for,
\* which were stale at t, and says of the others what it said before.
LEMMA DetectGapsSettles ==
    ASSUME NEW d \in Database, NEW areas \in SUBSET Area, NEW t \in Nat,
           GapsSane(d), Timely(d, t)
    PROVE  LET e == detect_gaps(d, areas, t)
           IN /\ Timely(e, t) /\ GapsSane(e) /\ e.checked = t
              /\ \A a \in areas : Settled(e, a, t)
              /\ \A a \in Area \ areas : Settled(d, a, t) => Settled(e, a, t)
<1> DEFINE e     == detect_gaps(d, areas, t)
           stale == {b \in areas : Stale(d, b, t) /\ ~HasOpenGap(d, b)}
           left(g) == Left(d, areas, t, g)
<1>1. /\ e \in Database /\ e.raws = d.raws
      /\ e.gaps = {left(g) : g \in d.gaps} \cup {NewGap(a, t) : a \in stale}
  BY DetectGapsFacts, DetectGapsOpens
<1>2. e.checked = t
  BY DEF detect_gaps, Database
<1>3. ASSUME NEW g \in d.gaps
      PROVE  /\ g \in GapRow /\ left(g) \in e.gaps /\ left(g).area = g.area /\ left(g).expected = g.expected
             /\ left(g).resolved <=> (g.resolved \/ (g.area \in areas /\ ~Stale(d, g.area, t)))
  <2>1. g \in GapRow /\ g.area \in Area
    BY DEF Database, GapRow
  <2>2. Fresh(d, g.area, t) <=> ~Stale(d, g.area, t)
    BY <2>1, FreshIs
  <2>3. left(g) \in e.gaps
    BY <1>1
  <2>4. QED
    BY <2>1, <2>2, <2>3, LeftFacts
<1>4. ASSUME NEW h \in e.gaps
      PROVE  (\E g \in d.gaps : h = left(g)) \/ (\E a \in stale : h = NewGap(a, t))
  BY <1>1
<1>5. \A a \in stale : NewGap(a, t) \in e.gaps
  BY <1>1
<1>6. \A a : NewGap(a, t).area = a /\ ~NewGap(a, t).resolved
             /\ NewGap(a, t).expected = 2 * t - 5 * CadenceSeconds
  BY DEF NewGap
<1>7. /\ d.raws \in Seq(RawRow) /\ CadenceSeconds \in Nat
      /\ d.checked \in Nat /\ d.checked <= t
  BY SeoulAssumption DEF Database, Timely
<1>8. \A i \in 1..Len(d.raws) : d.raws[i].at \in Nat
  <2> SUFFICES ASSUME NEW i \in 1..Len(d.raws) PROVE d.raws[i].at \in Nat
    OBVIOUS
  <2>1. d.raws[i] \in RawRow
    BY <1>7
  <2>2. QED
    BY <2>1 DEF RawRow
<1> HIDE DEF e, left
<1>9. ASSUME NEW h \in e.gaps
      PROVE  /\ h.expected <= 2 * t - 5 * CadenceSeconds
             /\ h.resolved => SeenSince(e, h)
  <2>1. CASE \E a \in stale : h = NewGap(a, t)
    BY <1>6, <1>7, <2>1
  <2>2. CASE \E g \in d.gaps : h = left(g)
    <3>1. PICK g \in d.gaps : h = left(g)
      BY <2>2
    <3>2. g.expected \in Int /\ g.expected <= 2 * d.checked - 5 * CadenceSeconds
      BY <1>3 DEF GapRow, GapsSane
    <3>3. h.expected <= 2 * t - 5 * CadenceSeconds
      <4> DEFINE bound == 5 * CadenceSeconds
      <4>1. h.expected = g.expected
        BY <1>3, <3>1
      <4>2. bound \in Int /\ d.checked \in Nat /\ d.checked <= t
        BY <1>7
      <4>3. g.expected \in Int /\ g.expected <= 2 * d.checked - bound
        BY <3>2
      <4> HIDE DEF bound
      <4>4. h.expected <= 2 * t - bound
        BY <4>1, <4>2, <4>3
      <4>5. QED
        BY <4>4 DEF bound
    <3>4. CASE g.resolved
      <4>1. SeenSince(d, g)
        BY <3>4 DEF GapsSane
      <4>2. QED
        BY <1>1, <1>3, <3>1, <3>3, <4>1 DEF SeenSince
    <3>5. CASE ~g.resolved /\ h.resolved
      <4>1. ~Stale(d, g.area, t)
        BY <1>3, <3>1, <3>5
      <4>2. PICK i \in 1..Len(d.raws) : d.raws[i].area = g.area
                                         /\ ~(2 * (t - d.raws[i].at) > 5 * CadenceSeconds)
        BY <4>1 DEF Stale
      <4>3. 2 * d.raws[i].at >= g.expected
        <5> DEFINE at == d.raws[i].at
        <5>1. at \in Nat /\ CadenceSeconds \in Nat /\ d.checked \in Nat
          BY <1>7, <1>8
        <5>2. 2 * (t - at) <= 5 * CadenceSeconds
          <6>1. ~(2 * (t - at) > 5 * CadenceSeconds)
            BY <4>2
          <6> HIDE DEF at
          <6>2. QED
            BY <5>1, <6>1
        <5> HIDE DEF at
        <5>3. g.expected <= 2 * at
          BY <1>7, <3>2, <5>1, <5>2
        <5>4. QED
          BY <3>2, <5>1, <5>3 DEF at
      <4>4. SeenSince(e, h)
        BY <1>1, <1>3, <3>1, <4>2, <4>3 DEF SeenSince
      <4>5. QED
        BY <3>3, <4>4
    <3>6. QED
      BY <3>3, <3>4, <3>5
  <2>3. QED
    BY <1>4, <2>1, <2>2
<1>10. ASSUME NEW g \in e.gaps, NEW h \in e.gaps, g.area = h.area, ~g.resolved, ~h.resolved
       PROVE  g = h
  <2>1. CASE \E a \in stale : g = NewGap(a, t)
    <3>1. PICK a \in stale : g = NewGap(a, t)
      BY <2>1
    <3>2. ~\E k \in d.gaps : h = left(k)
      <4>1. SUFFICES ASSUME NEW k \in d.gaps, h = left(k) PROVE FALSE
        OBVIOUS
      <4>2. k.area = a /\ ~k.resolved
        BY <1>3, <1>6, <1>10, <3>1, <4>1
      <4>3. QED
        BY <4>2 DEF HasOpenGap
    <3>3. PICK b \in stale : h = NewGap(b, t)
      BY <1>4, <3>2
    <3>4. QED
      BY <1>6, <1>10, <3>1, <3>3
  <2>2. CASE \E k \in d.gaps : g = left(k)
    <3>1. PICK k \in d.gaps : g = left(k)
      BY <2>2
    <3>2. k.area = h.area /\ ~k.resolved
      BY <1>3, <1>10, <3>1
    <3>3. ~\E a \in stale : h = NewGap(a, t)
      BY <1>6, <3>2 DEF HasOpenGap
    <3>4. PICK l \in d.gaps : h = left(l)
      BY <1>4, <3>3
    <3>5. l.area = h.area /\ ~l.resolved
      BY <1>3, <1>10, <3>4
    <3>6. k = l
      BY <3>2, <3>5 DEF GapsSane
    <3>7. QED
      BY <3>1, <3>4, <3>6
  <2>3. QED
    BY <1>4, <2>1, <2>2
<1>11. \A a, u : Stale(e, a, u) <=> Stale(d, a, u)
  BY <1>1 DEF Stale
<1>12. ASSUME NEW a \in areas PROVE Settled(e, a, t)
  <2>1. CASE ~Stale(d, a, t)
    <3>1. ~HasOpenGap(e, a)
      <4>1. SUFFICES ASSUME NEW h \in e.gaps, h.area = a, ~h.resolved PROVE FALSE
        BY DEF HasOpenGap
      <4>2. CASE \E g \in d.gaps : h = left(g)
        BY <1>3, <2>1, <4>1, <4>2
      <4>3. CASE \E b \in stale : h = NewGap(b, t)
        BY <1>6, <2>1, <4>1, <4>3
      <4>4. QED
        BY <1>4, <4>2, <4>3
    <3>2. QED
      BY <1>11, <2>1, <3>1 DEF Settled
  <2>2. CASE Stale(d, a, t) /\ HasOpenGap(d, a)
    <3>1. PICK g \in d.gaps : g.area = a /\ ~g.resolved
      BY <2>2 DEF HasOpenGap
    <3>2. left(g) \in e.gaps /\ left(g).area = a /\ ~left(g).resolved
      BY <1>3, <2>2, <3>1
    <3>3. QED
      BY <1>11, <2>2, <3>2 DEF Settled, HasOpenGap
  <2>3. CASE Stale(d, a, t) /\ ~HasOpenGap(d, a)
    <3>1. NewGap(a, t) \in e.gaps
      BY <1>5, <2>3
    <3>2. QED
      BY <1>6, <1>11, <2>3, <3>1 DEF Settled, HasOpenGap
  <2>4. QED
    BY <2>1, <2>2, <2>3
<1>13. ASSUME NEW a \in Area \ areas PROVE HasOpenGap(e, a) <=> HasOpenGap(d, a)
  <2>1. ASSUME NEW g \in d.gaps, g.area = a, ~g.resolved PROVE HasOpenGap(e, a)
    <3>1. left(g) \in e.gaps /\ left(g).area = a /\ ~left(g).resolved
      BY <1>3, <2>1
    <3>2. QED
      BY <3>1 DEF HasOpenGap
  <2>2. ASSUME NEW h \in e.gaps, h.area = a, ~h.resolved PROVE HasOpenGap(d, a)
    <3>1. ~\E b \in stale : h = NewGap(b, t)
      BY <1>6, <2>2
    <3>2. PICK g \in d.gaps : h = left(g)
      BY <1>4, <3>1
    <3>3. g.area = a /\ ~g.resolved
      BY <1>3, <2>2, <3>2
    <3>4. QED
      BY <3>3 DEF HasOpenGap
  <2>3. QED
    BY <2>1, <2>2 DEF HasOpenGap
<1>14. Timely(e, t)
  BY <1>1, <1>2 DEF Timely
<1>15. GapsSane(e)
  BY <1>2, <1>9, <1>10 DEF GapsSane
<1>16. QED
  BY <1>2, <1>11, <1>12, <1>13, <1>14, <1>15 DEF Settled, e

(***************************************************************************)
(* The steps and the gaps.                                                 *)
(***************************************************************************)
LEMMA TimelyLater ==
    ASSUME NEW d \in Database, NEW t \in Nat, NEW u \in Nat, Timely(d, t), t <= u
    PROVE  Timely(d, u)
<1>1. d.raws \in Seq(RawRow) /\ d.checked \in Nat
  BY DEF Database
<1>2. ASSUME NEW i \in 1..Len(d.raws) PROVE d.raws[i].at <= u
  <2>1. d.raws[i] \in RawRow
    BY <1>1
  <2>2. d.raws[i].at \in Nat /\ d.raws[i].at <= t
    BY <2>1 DEF RawRow, Timely
  <2>3. QED
    BY <2>2
<1>3. QED
  BY <1>1, <1>2 DEF Timely

\* The same rows, gaps and last check: nothing that GapsInv says of d is lost.
LEMMA SameGaps ==
    ASSUME NEW d, NEW e, e.raws = d.raws, e.gaps = d.gaps, e.checked = d.checked
    PROVE  /\ \A t : Timely(d, t) => Timely(e, t)
           /\ GapsSane(d) => GapsSane(e)
           /\ \A a, t : Settled(d, a, t) => Settled(e, a, t)
  BY DEF Timely, GapsSane, SeenSince, Settled, HasOpenGap, Stale

LEMMA GapsInit == ASSUME Init PROVE GapsInv
<1>1. EmptyDb.raws = <<>> /\ EmptyDb.gaps = {} /\ EmptyDb.checked = 0
  BY DEF EmptyDb
<1>2. Timely(db, now) /\ GapsSane(db) /\ db.checked = 0
  BY <1>1 DEF Init, Timely, GapsSane
<1>3. QED
  BY <1>2, NoHealthFacts DEF Init, GapsInv

LEMMA TimeKeepsGaps ==
    ASSUME Inv, GapsInv, Advance, UNCHANGED <<db, tx, phase>>
    PROVE  /\ now' \in Nat /\ now <= now'
           /\ Timely(db, now') /\ (phase # "idle" => Timely(tx, now'))
<1>1. now' \in Nat /\ now <= now' /\ now \in Nat /\ db \in Database /\ tx \in Database
  BY SeoulAssumption DEF Inv, TypeOK, Advance
<1>2. QED
  BY <1>1, TimelyLater DEF GapsInv

LEMMA StartKeepsGaps == ASSUME Inv, GapsInv, NEW p \in Process, Start(p) PROVE GapsInv'
<1>1. /\ now' \in Nat /\ now <= now' /\ Timely(db, now') /\ (phase # "idle" => Timely(tx, now'))
      /\ UNCHANGED <<db, tx, phase, health>>
  BY TimeKeepsGaps DEF Start, run
<1>2. health.phase # "idle" => health.at <= now'
  BY <1>1 DEF GapsInv, Inv, TypeOK, Health
<1>3. QED
  BY <1>1, <1>2 DEF GapsInv

LEMMA AcquireKeepsGaps == ASSUME Inv, GapsInv, NEW p \in Process, Acquire(p) PROVE GapsInv'
<1> DEFINE runs == Append(db.runs, [status |-> "RUNNING", requested |-> 0, received |-> 0,
                                    inserted |-> 0, duplicates |-> 0, errors |-> 0])
<1>1. /\ tx' = [db EXCEPT !.runs = runs] /\ phase' = "ask" /\ db \in Database
      /\ UNCHANGED <<db, now, health>>
  BY DEF Acquire, Inv, TypeOK
<1> HIDE DEF runs
<1>2. tx'.raws = db.raws /\ tx'.gaps = db.gaps /\ tx'.checked = db.checked
  BY <1>1 DEF Database
<1>3. Timely(tx', now) /\ GapsSane(tx')
  BY <1>2, SameGaps DEF GapsInv
<1>4. QED
  BY <1>1, <1>3 DEF GapsInv

LEMMA InsertRowsKeepsGaps == ASSUME Inv, GapsInv, InsertRows PROVE GapsInv'
<1>1. /\ phase = "rows" /\ phase' = "ask" /\ UNCHANGED <<db, now, health>>
      /\ tx \in Database /\ now \in Nat /\ Timely(tx, now) /\ GapsSane(tx)
  BY DEF InsertRows, NextArea, Inv, TypeOK, GapsInv
<1> DEFINE n   == Len(tx.raws)
           row == [area |-> area, hash |-> body, at |-> now, run |-> Len(tx.runs)]
<1>2. /\ tx.raws \in Seq(RawRow) /\ n \in Nat /\ row \in RawRow
  <2>1. tx.raws \in Seq(RawRow) /\ tx.runs \in Seq(RunRow)
    BY <1>1 DEF Database
  <2>2. area \in Area /\ body \in Body
    BY <1>1, AreaType DEF Inv, Phases
  <2>3. QED
    BY <1>1, <2>1, <2>2 DEF RawRow
<1>3. /\ Len(AddRaw) = n + 1 /\ AddRaw[n + 1] = row /\ \A i \in 1..n : AddRaw[i] = tx.raws[i]
  BY <1>2, AppendFacts DEF AddRaw
<1>4. tx'.raws = AddRaw /\ tx'.gaps = tx.gaps /\ tx'.checked = tx.checked
  BY <1>1 DEF InsertRows, Database
<1>5. row.at = now
  OBVIOUS
<1> HIDE DEF row
<1>6. Timely(tx', now)
  <2>1. \A i \in 1..(n + 1) : i \in 1..n \/ i = n + 1
    BY <1>2
  <2>2. QED
    BY <1>1, <1>3, <1>4, <1>5, <2>1 DEF Timely
<1>7. GapsSane(tx')
  <2>1. ASSUME NEW g, SeenSince(tx, g) PROVE SeenSince(tx', g)
    <3>1. PICK i \in 1..n : tx.raws[i].area = g.area /\ 2 * tx.raws[i].at >= g.expected
      BY <2>1 DEF SeenSince
    <3>2. i \in 1..(n + 1) /\ AddRaw[i] = tx.raws[i]
      BY <1>2, <1>3
    <3>3. QED
      BY <1>3, <1>4, <3>1, <3>2 DEF SeenSince
  <2>2. QED
    BY <1>1, <1>4, <2>1 DEF GapsSane
<1>8. QED
  BY <1>1, <1>6, <1>7 DEF GapsInv

LEMMA ExceptInSeq ==
    ASSUME NEW S, NEW s \in Seq(S), NEW i \in Nat, NEW x \in S PROVE [s EXCEPT ![i] = x] \in Seq(S)
<1>1. s \in [1..Len(s) -> S] /\ Len(s) \in Nat
  OBVIOUS
<1>2. [s EXCEPT ![i] = x] \in [1..Len(s) -> S]
  BY <1>1
<1>3. QED
  BY <1>1, <1>2, SeqDef

LEMMA FinishKeepsGaps == ASSUME Inv, GapsInv, Finish PROVE GapsInv'
<1> DEFINE n      == Len(tx.runs)
           closed == [tx EXCEPT !.runs[n] = RunSummary]
<1>1. /\ phase = "ask" /\ phase' = "commit" /\ tx' = detect_gaps(closed, Area, now)
      /\ UNCHANGED <<db, now, health>> /\ tx \in Database /\ now \in Nat
      /\ Timely(tx, now) /\ GapsSane(tx)
  BY DEF Finish, Inv, TypeOK, GapsInv
<1>2. [tx.runs EXCEPT ![n] = RunSummary] \in Seq(RunRow)
  <2>1. tx.runs \in Seq(RunRow) /\ RunSummary \in RunRow
    BY <1>1, RunSummaryType DEF Inv, Database
  <2>2. n \in Nat
    BY <2>1
  <2>3. QED
    BY <2>1, <2>2, ExceptInSeq
<1>3. /\ closed \in Database
      /\ closed.raws = tx.raws /\ closed.gaps = tx.gaps /\ closed.checked = tx.checked
  BY <1>1, <1>2 DEF Database
<1> HIDE DEF closed
<1>4. Timely(closed, now) /\ GapsSane(closed)
  BY <1>1, <1>3, SameGaps
<1>5. /\ Timely(tx', now) /\ GapsSane(tx') /\ tx'.checked = now
      /\ \A a \in Area : Settled(tx', a, now)
  BY <1>1, <1>3, <1>4, DetectGapsSettles
<1>6. QED
  BY <1>1, <1>5 DEF GapsInv

LEMMA CheckAreaKeepsGaps == ASSUME Inv, GapsInv, CheckArea PROVE GapsInv'
<1> DEFINE a == CHOOSE b \in health.todo : TRUE
           v == health.view
           t == health.at
           w == detect_gaps(v, {a}, t)
<1>1. /\ health.phase # "idle" /\ health \in Health /\ UNCHANGED <<db, tx, now, phase>>
      /\ v \in Database /\ t \in Nat /\ a \in health.todo /\ a \in Area
      /\ Timely(v, t) /\ GapsSane(v) /\ t <= now
      /\ \A b \in Area \ health.todo : Settled(v, b, t)
  <2>1. a \in health.todo
    BY DEF CheckArea
  <2>2. QED
    BY <2>1 DEF CheckArea, Inv, TypeOK, GapsInv, run, Health
<1>2. \/ /\ HasOpenGap(v, a) /\ ~Fresh(v, a, t)
         /\ health' = [health EXCEPT !.todo = @ \ {a}]
      \/ health' = [health EXCEPT !.phase = "write", !.todo = @ \ {a}, !.view = w]
  BY DEF CheckArea
<1> HIDE DEF a, w
<1>3. CASE /\ HasOpenGap(v, a) /\ ~Fresh(v, a, t)
           /\ health' = [health EXCEPT !.todo = @ \ {a}]
  <2>1. /\ health'.phase = health.phase /\ health'.view = v /\ health'.at = t
        /\ health'.todo = health.todo \ {a}
    BY <1>1, <1>3 DEF Health
  <2>2. Settled(v, a, t)
    BY <1>1, <1>3, FreshIs DEF Settled
  <2>3. QED
    BY <1>1, <2>1, <2>2 DEF GapsInv
<1>4. CASE health' = [health EXCEPT !.phase = "write", !.todo = @ \ {a}, !.view = w]
  <2>1. /\ health'.phase = "write" /\ health'.view = w /\ health'.at = t
        /\ health'.todo = health.todo \ {a}
    BY <1>1, <1>4 DEF Health
  <2>2. /\ Timely(w, t) /\ GapsSane(w) /\ w.checked = t
        /\ \A b \in {a} : Settled(w, b, t)
        /\ \A b \in Area \ {a} : Settled(v, b, t) => Settled(w, b, t)
    <3>1. {a} \in SUBSET Area
      BY <1>1
    <3> HIDE DEF v, t
    <3>2. QED
      BY <1>1, <3>1, DetectGapsSettles DEF w
  <2>3. \A b \in Area \ (health.todo \ {a}) : Settled(w, b, t)
    BY <1>1, <2>2
  <2>4. QED
    BY <1>1, <2>1, <2>2, <2>3 DEF GapsInv
<1>5. QED
  BY <1>2, <1>3, <1>4

LEMMA StartHealthKeepsGaps == ASSUME Inv, GapsInv, StartHealth PROVE GapsInv'
<1>1. /\ now' \in Nat /\ now <= now' /\ Timely(db, now') /\ (phase # "idle" => Timely(tx, now'))
      /\ UNCHANGED <<db, tx, phase>>
      /\ health' = [phase |-> "read", todo |-> Area, at |-> now', view |-> db]
  BY TimeKeepsGaps DEF StartHealth, run
<1>2. /\ health'.phase = "read" /\ health'.todo = Area /\ health'.at = now' /\ health'.view = db
  BY <1>1
<1>3. QED
  BY <1>1, <1>2 DEF GapsInv

LEMMA CommitHealthKeepsGaps == ASSUME Inv, GapsInv, CommitHealth PROVE GapsInv'
<1>1. /\ UNCHANGED <<tx, now, phase>> /\ health' = NoHealth /\ health.phase # "idle" /\ health.todo = {}
      /\ db' = IF health.phase = "write" THEN health.view ELSE db
  BY DEF CommitHealth, run
<1>2. CASE db' = db
  BY <1>1, <1>2, NoHealthFacts DEF GapsInv
<1>3. CASE health.phase = "write" /\ db' = health.view
  <2>1. health.view \in Database /\ health.at \in Nat /\ now \in Nat
    BY DEF Inv, TypeOK, Health
  <2>2. Timely(health.view, now)
    BY <1>3, <2>1, TimelyLater DEF GapsInv
  <2>3. \A a \in Area : Settled(health.view, a, health.view.checked)
    BY <1>1, <1>3 DEF GapsInv
  <2>4. QED
    BY <1>1, <1>3, <2>2, <2>3, NoHealthFacts DEF GapsInv
<1>4. QED
  BY <1>1, <1>2, <1>3

LEMMA NextGaps == ASSUME Inv, GapsInv, [Next]_vars PROVE GapsInv'
<1>1. CASE \E p \in Process : Start(p) \/ Waits(p)
  <2>1. ASSUME NEW p \in Process, Busy(p) PROVE GapsInv'
    BY <2>1 DEF Busy, run, GapsInv
  <2>2. QED
    BY <1>1, <2>1, StartKeepsGaps, AcquireKeepsGaps DEF Waits
<1>2. CASE Answer \/ AreaFails \/ OpenFile \/ WriteFile
  <2>1. /\ UNCHANGED <<db, tx, now, health>> /\ phase # "idle" /\ phase' # "idle" /\ phase' # "commit"
    BY <1>2 DEF Answer, AreaFails, NextArea, OpenFile, WriteFile
  <2>2. QED
    BY <2>1 DEF GapsInv
<1>3. CASE Commit
  <2>1. db' = tx /\ phase' = "idle" /\ UNCHANGED <<now, health>> /\ phase = "commit"
    BY <1>3 DEF Commit, Close
  <2>2. QED
    BY <2>1 DEF GapsInv
<1>4. CASE RollBack
  <2>1. UNCHANGED <<db, now, health>> /\ phase' = "idle"
    BY <1>4 DEF RollBack, Close
  <2>2. QED
    BY <2>1 DEF GapsInv
<1>5. CASE FailHealth
  <2>1. UNCHANGED <<db, tx, now, phase>> /\ health' = NoHealth
    BY <1>5 DEF FailHealth, run
  <2>2. QED
    BY <2>1, NoHealthFacts DEF GapsInv
<1>6. CASE UNCHANGED vars
  BY <1>6 DEF vars, run, GapsInv
<1>7. QED
  BY <1>1, <1>2, <1>3, <1>4, <1>5, <1>6, InsertRowsKeepsGaps, FinishKeepsGaps, StartHealthKeepsGaps,
     CheckAreaKeepsGaps, CommitHealthKeepsGaps DEF Next, RunStep, HealthStep

\* However many collectors, samples, lost runs and health commands: at the last check
\* no area had two open gaps, none observed with success within two and a half
\* cadences had one, and each without any answer in that time had one.
THEOREM GapsTell == Spec => []GapsMatchObservations
<1>1. Inv /\ GapsInv => GapsMatchObservations
  <2> SUFFICES ASSUME Inv, GapsInv, NEW a \in Area
               PROVE  LET open == {g \in db.gaps : g.area = a /\ ~g.resolved}
                          rows == {i \in 1..Len(db.raws) : db.raws[i].area = a}
                          old(i) == 2 * (db.checked - db.raws[i].at) > 5 * CadenceSeconds
                      IN /\ Cardinality(open) <= 1
                         /\ db.checked > 0 => (open # {} <=> \A i \in rows : old(i))
    BY Zenon DEF GapsMatchObservations
  <2> DEFINE open == {g \in db.gaps : g.area = a /\ ~g.resolved}
             rows == {i \in 1..Len(db.raws) : db.raws[i].area = a}
             old(i) == 2 * (db.checked - db.raws[i].at) > 5 * CadenceSeconds
  <2>1. \A g, h \in open : g = h
    BY DEF GapsInv, GapsSane
  <2>2. Cardinality(open) <= 1
    <3>1. CASE open = {}
      BY <3>1, FS_EmptySet
    <3>2. CASE open # {}
      <4>1. PICK g \in open : open = {g}
        BY <2>1, <3>2
      <4> HIDE DEF open
      <4>2. Cardinality({g}) = 1
        BY FS_Singleton
      <4>3. QED
        BY <4>1, <4>2
    <3>3. QED
      BY <3>1, <3>2
  <2>3. open # {} <=> HasOpenGap(db, a)
    BY DEF HasOpenGap
  <2>4. (\A i \in rows : old(i)) <=> Stale(db, a, db.checked)
    BY DEF Stale
  <2>5. db.checked > 0 => Settled(db, a, db.checked)
    BY DEF GapsInv
  <2>6. QED
    BY <2>2, <2>3, <2>4, <2>5 DEF Settled
<1>2. Init => GapsInv
  BY GapsInit
<1>3. Inv /\ GapsInv /\ [Next]_vars => GapsInv'
  BY NextGaps
<1>4. QED
  BY <1>1, <1>2, <1>3, SpecInv, PTL DEF Spec

(***************************************************************************)
(* The accounts of the runs: what the run in progress has counted so far   *)
(* is what it has inserted.                                                *)
(***************************************************************************)
OwnRows(d, r) == {i \in 1..Len(d.raws) : d.raws[i].run = r}
Made(d, r)    == {i \in 1..Len(d.snapshots) : d.snapshots[i].raw \in OwnRows(d, r)}

Accounted(d, r) ==
    LET row == d.runs[r]
    IN /\ row.status # "RUNNING" /\ row.requested = row.received + row.errors
       /\ row.inserted + row.duplicates = row.received
       /\ Cardinality(Made(d, r)) = row.inserted
       /\ row.received <= Cardinality(OwnRows(d, r))
       /\ Cardinality(OwnRows(d, r)) <= row.requested

RunsNamed(d) == \A i \in 1..Len(d.raws) : d.raws[i].run \in 1..Len(d.runs)

CountIn(s, verdicts) == Cardinality({i \in DOMAIN s : s[i] \in verdicts})

Answered == {"OK", "PARTIAL", "DUPLICATE"}
Changed  == {"OK", "PARTIAL"}

\* What s counts of n areas, and what the run r of d has inserted, agree.
Balanced(s, d, r) ==
    /\ CountIn(s, Answered) + CountIn(s, {"ERROR"}) = Len(s)
    /\ CountIn(s, Changed) + CountIn(s, {"DUPLICATE"}) = CountIn(s, Answered)
    /\ Cardinality(Made(d, r)) = CountIn(s, Changed)
    /\ CountIn(s, Answered) <= Cardinality(OwnRows(d, r))
    /\ Cardinality(OwnRows(d, r)) <= Len(s)

Progress ==
    /\ Len(results) = pos - 1 /\ pos - 1 <= Len(places)
    /\ Balanced(results, tx, Len(tx.runs))

AccountsInv ==
    /\ RunsNamed(db) /\ \A r \in 1..Len(db.runs) : Accounted(db, r)
    /\ phase = "idle" => pos = 1 /\ results = <<>>
    /\ phase # "idle" =>
          /\ RunsNamed(tx) /\ Len(tx.runs) > 0
          /\ \A r \in 1..Len(tx.runs) : phase = "commit" \/ r < Len(tx.runs) => Accounted(tx, r)
    /\ phase \notin {"idle", "commit"} => Progress

LEMMA IndexSetGrows ==
    ASSUME NEW n \in Nat, NEW S \in SUBSET (1..n)
    PROVE  /\ IsFiniteSet(S) /\ Cardinality(S) \in Nat
           /\ IsFiniteSet(S \cup {n + 1}) /\ Cardinality(S \cup {n + 1}) = Cardinality(S) + 1
<1>1. IsFiniteSet(1..n)
  BY FS_Interval
<1>2. IsFiniteSet(S)
  BY <1>1, FS_Subset
<1>3. n + 1 \notin S
  OBVIOUS
<1>4. QED
  BY <1>2, <1>3, FS_AddElement, FS_CardinalityType

LEMMA CountInType ==
    ASSUME NEW s \in Seq(Verdicts), NEW V PROVE CountIn(s, V) \in Nat
<1>1. Len(s) \in Nat /\ {i \in DOMAIN s : s[i] \in V} \in SUBSET (1..Len(s))
  OBVIOUS
<1>2. QED
  BY <1>1, IndexSetGrows DEF CountIn

LEMMA CountInAppend ==
    ASSUME NEW s \in Seq(Verdicts), NEW v \in Verdicts, NEW V
    PROVE  CountIn(Append(s, v), V) = CountIn(s, V) + IF v \in V THEN 1 ELSE 0
<1> DEFINE n == Len(s)
           u == Append(s, v)
           S == {i \in 1..n : s[i] \in V}
           T == {i \in 1..(n + 1) : u[i] \in V}
<1>1. /\ n \in Nat /\ DOMAIN s = 1..n /\ DOMAIN u = 1..(n + 1)
      /\ u[n + 1] = v /\ \A i \in 1..n : u[i] = s[i]
  OBVIOUS
<1>2. CountIn(s, V) = Cardinality(S) /\ CountIn(u, V) = Cardinality(T)
  BY <1>1 DEF CountIn
<1> HIDE DEF u
<1>3. T = IF v \in V THEN S \cup {n + 1} ELSE S
  <2>1. \A i : i \in 1..(n + 1) <=> i \in 1..n \/ i = n + 1
    BY <1>1
  <2>2. n + 1 \notin 1..n
    BY <1>1
  <2>3. QED
    BY <1>1, <2>1, <2>2
<1>4. S \in SUBSET (1..n)
  OBVIOUS
<1> HIDE DEF S, T
<1>5. Cardinality(S) \in Nat /\ Cardinality(S \cup {n + 1}) = Cardinality(S) + 1
  BY <1>1, <1>4, IndexSetGrows
<1>6. QED
  BY <1>2, <1>3, <1>5 DEF u

LEMMA SameAccount ==
    ASSUME NEW d, NEW e, NEW r, e.runs[r] = d.runs[r], OwnRows(e, r) = OwnRows(d, r),
           Made(e, r) = Made(d, r), Accounted(d, r)
    PROVE  Accounted(e, r)
  BY DEF Accounted

LEMMA SameRows ==
    ASSUME NEW d, NEW e, e.raws = d.raws, e.snapshots = d.snapshots
    PROVE  \A r : OwnRows(e, r) = OwnRows(d, r) /\ Made(e, r) = Made(d, r)
  BY DEF OwnRows, Made

LEMMA AccountsInit == ASSUME Init PROVE AccountsInv
  BY EmptyDbFacts DEF Init, AccountsInv, RunsNamed

LEMMA AcquireKeepsAccounts == ASSUME Inv, AccountsInv, NEW p \in Process, Acquire(p) PROVE AccountsInv'
<1> DEFINE row  == [status |-> "RUNNING", requested |-> 0, received |-> 0, inserted |-> 0,
                    duplicates |-> 0, errors |-> 0]
           runs == Append(db.runs, row)
           n    == Len(db.runs)
<1>1. /\ tx' = [db EXCEPT !.runs = runs] /\ phase' = "ask" /\ db \in Database
      /\ db' = db /\ pos' = pos /\ results' = results /\ places' \in Places
      /\ owner = None /\ row \in RunRow
  BY DEF Acquire, LockFree, Inv, TypeOK, RunRow, Overall
<1>2. db.runs \in Seq(RunRow)
  BY <1>1 DEF Database
<1>3. pos = 1 /\ results = <<>>
  BY <1>1 DEF Inv, Phases, AccountsInv
<1> HIDE DEF row
<1>4. n \in Nat /\ Len(runs) = n + 1 /\ \A i \in 1..n : runs[i] = db.runs[i]
  BY <1>1, <1>2, AppendFacts
<1> HIDE DEF runs
<1>5. tx'.runs = runs /\ tx'.raws = db.raws /\ tx'.snapshots = db.snapshots
  BY <1>1 DEF Database
<1>6. \A r : OwnRows(tx', r) = OwnRows(db, r) /\ Made(tx', r) = Made(db, r)
  BY <1>5, SameRows
<1>7. RunsNamed(db) /\ \A r \in 1..n : Accounted(db, r)
  BY DEF AccountsInv
<1>8. RunsNamed(tx')
  <2>1. \A k \in 1..n : k \in 1..(n + 1)
    BY <1>4
  <2>2. QED
    BY <1>4, <1>5, <1>7, <2>1 DEF RunsNamed
<1>9. ASSUME NEW r \in 1..(n + 1), r < n + 1 PROVE Accounted(tx', r)
  <2>1. r \in 1..n
    BY <1>4, <1>9
  <2>2. Accounted(db, r) /\ tx'.runs[r] = db.runs[r]
    BY <1>4, <1>5, <1>7, <2>1
  <2>3. QED
    BY <1>6, <2>2, SameAccount
<1>10. Progress'
  <2>1. OwnRows(tx', n + 1) = {} /\ Made(tx', n + 1) = {}
    <3>1. n + 1 \notin 1..n
      BY <1>4
    <3>2. OwnRows(db, n + 1) = {}
      BY <1>7, <3>1 DEF RunsNamed, OwnRows
    <3>3. Made(db, n + 1) = {}
      BY <3>2 DEF Made
    <3>4. QED
      BY <1>6, <3>2, <3>3
  <2>2. \A V : CountIn(<<>>, V) = 0
    <3>1. \A V : {i \in DOMAIN <<>> : <<>>[i] \in V} = {}
      OBVIOUS
    <3>2. QED
      BY <3>1, FS_EmptySet DEF CountIn
  <2>3. Len(places') \in Nat
    BY <1>1, SeoulAssumption
  <2>4. Balanced(<<>>, tx', n + 1)
    <3>1. /\ CountIn(<<>>, Answered) = 0 /\ CountIn(<<>>, {"ERROR"}) = 0
          /\ CountIn(<<>>, Changed) = 0 /\ CountIn(<<>>, {"DUPLICATE"}) = 0
      BY <2>2
    <3>2. Cardinality(OwnRows(tx', n + 1)) = 0 /\ Cardinality(Made(tx', n + 1)) = 0
      BY <2>1, FS_EmptySet
    <3>3. Len(<<>>) = 0
      OBVIOUS
    <3>4. QED
      BY <3>1, <3>2, <3>3 DEF Balanced
  <2>5. QED
    BY <1>1, <1>3, <1>4, <1>5, <2>3, <2>4 DEF Progress
<1>11. QED
  BY <1>1, <1>4, <1>5, <1>7, <1>8, <1>9, <1>10 DEF AccountsInv

\* A verdict of an area without rows.
LEMMA AreaFailsKeepsAccounts == ASSUME Inv, AccountsInv, AreaFails PROVE AccountsInv'
<1>1. /\ phase \notin {"idle", "commit"} /\ phase' = "ask" /\ pos <= Len(places)
      /\ results' = Append(results, "ERROR") /\ pos' = pos + 1
      /\ UNCHANGED <<db, tx, places>>
  BY DEF AreaFails, NextArea, Inv, Phases
<1>2. results \in Seq(Verdicts) /\ "ERROR" \in Verdicts /\ pos \in Nat /\ places \in Seq(Area)
  BY DEF Inv, TypeOK, Verdicts
<1>3. Progress
  BY <1>1 DEF AccountsInv
<1>4. /\ CountIn(results', Answered) = CountIn(results, Answered)
      /\ CountIn(results', Changed) = CountIn(results, Changed)
      /\ CountIn(results', {"DUPLICATE"}) = CountIn(results, {"DUPLICATE"})
      /\ CountIn(results', {"ERROR"}) = CountIn(results, {"ERROR"}) + 1
  <2>1. /\ CountIn(results, Answered) \in Nat /\ CountIn(results, Changed) \in Nat
        /\ CountIn(results, {"DUPLICATE"}) \in Nat
    BY <1>2, CountInType
  <2>2. "ERROR" \notin Answered /\ "ERROR" \notin Changed /\ "ERROR" \notin {"DUPLICATE"}
    BY DEF Answered, Changed
  <2>3. /\ CountIn(results', Answered) = CountIn(results, Answered) + 0
        /\ CountIn(results', Changed) = CountIn(results, Changed) + 0
        /\ CountIn(results', {"DUPLICATE"}) = CountIn(results, {"DUPLICATE"}) + 0
        /\ CountIn(results', {"ERROR"}) = CountIn(results, {"ERROR"}) + 1
    BY <1>1, <1>2, <2>2, CountInAppend
  <2>4. QED
    BY <2>1, <2>3
<1>5. Len(results') = Len(results) + 1 /\ Len(results) \in Nat /\ Len(places) \in Nat
  BY <1>1, <1>2
<1>6. /\ CountIn(results, Answered) \in Nat /\ CountIn(results, {"ERROR"}) \in Nat
      /\ Cardinality(OwnRows(tx, Len(tx.runs))) \in Nat
  <2>1. tx.raws \in Seq(RawRow)
    BY DEF Inv, TypeOK, Database
  <2>2. OwnRows(tx, Len(tx.runs)) \in SUBSET (1..Len(tx.raws)) /\ Len(tx.raws) \in Nat
    BY <2>1 DEF OwnRows
  <2>3. QED
    BY <1>2, <2>2, CountInType, IndexSetGrows
<1>7. Balanced(results', tx, Len(tx.runs))
  BY <1>3, <1>4, <1>5, <1>6 DEF Progress, Balanced
<1>8. Progress'
  BY <1>1, <1>2, <1>3, <1>5, <1>7 DEF Progress
<1>9. QED
  BY <1>1, <1>8 DEF AccountsInv

\* What the counts of a verdict change.
LEMMA VerdictCounts ==
    ASSUME NEW s \in Seq(Verdicts), NEW v \in Verdicts
    PROVE  LET u == Append(s, v)
           IN /\ Len(u) = Len(s) + 1 /\ Len(s) \in Nat
              /\ \A V \in {Answered, Changed, {"ERROR"}, {"DUPLICATE"}} :
                    CountIn(s, V) \in Nat /\ CountIn(u, V) = IF v \in V THEN CountIn(s, V) + 1 ELSE CountIn(s, V)
<1>1. \A V : CountIn(s, V) \in Nat
  BY CountInType
<1>2. \A V : CountIn(Append(s, v), V) = CountIn(s, V) + IF v \in V THEN 1 ELSE 0
  BY CountInAppend
<1>3. ASSUME NEW V PROVE CountIn(s, V) \in Nat
                         /\ CountIn(Append(s, v), V) = IF v \in V THEN CountIn(s, V) + 1 ELSE CountIn(s, V)
  <2>1. CountIn(s, V) \in Nat /\ CountIn(Append(s, v), V) = CountIn(s, V) + IF v \in V THEN 1 ELSE 0
    BY <1>1, <1>2
  <2>2. QED
    BY <2>1
<1>4. Len(Append(s, v)) = Len(s) + 1 /\ Len(s) \in Nat
  OBVIOUS
<1>5. QED
  BY <1>3, <1>4

\* e is d with a raw row of run r, and perhaps the snapshot made from it.
WithAnswer(d, e, r) ==
    /\ d.raws \in Seq(RawRow) /\ d.snapshots \in Seq(Snapshot) /\ Linked(d.snapshots, d.raws)
    /\ e.raws \in Seq(RawRow) /\ e.snapshots \in Seq(Snapshot)
    /\ Len(e.raws) = Len(d.raws) + 1 /\ e.raws[Len(d.raws) + 1].run = r
    /\ \A i \in 1..Len(d.raws) : e.raws[i] = d.raws[i]
    /\ \/ e.snapshots = d.snapshots
       \/ /\ Len(e.snapshots) = Len(d.snapshots) + 1
          /\ e.snapshots[Len(d.snapshots) + 1].raw = Len(d.raws) + 1
          /\ \A i \in 1..Len(d.snapshots) : e.snapshots[i] = d.snapshots[i]

LEMMA RowsAfterAnswer ==
    ASSUME NEW d, NEW e, NEW r, WithAnswer(d, e, r)
    PROVE  /\ OwnRows(e, r) = OwnRows(d, r) \cup {Len(d.raws) + 1}
           /\ Made(e, r) = Made(d, r) \cup ((Len(d.snapshots) + 1)..Len(e.snapshots))
           /\ \A s : s # r => OwnRows(e, s) = OwnRows(d, s) /\ Made(e, s) = Made(d, s)
<1> DEFINE n == Len(d.raws)
           m == Len(d.snapshots)
<1>0. /\ d.raws \in Seq(RawRow) /\ d.snapshots \in Seq(Snapshot) /\ Linked(d.snapshots, d.raws)
      /\ e.raws \in Seq(RawRow) /\ e.snapshots \in Seq(Snapshot)
      /\ Len(e.raws) = n + 1 /\ e.raws[n + 1].run = r
      /\ \A i \in 1..n : e.raws[i] = d.raws[i]
      /\ \/ e.snapshots = d.snapshots
         \/ /\ Len(e.snapshots) = m + 1 /\ e.snapshots[m + 1].raw = n + 1
            /\ \A i \in 1..m : e.snapshots[i] = d.snapshots[i]
  BY DEF WithAnswer
<1>1. n \in Nat /\ m \in Nat /\ \A i : i \in 1..(n + 1) <=> i \in 1..n \/ i = n + 1
  BY <1>0
<1>2. n + 1 \notin 1..n /\ m + 1 \notin 1..m
  BY <1>1
<1>3. \A s : OwnRows(e, s) = IF s = r THEN OwnRows(d, s) \cup {n + 1} ELSE OwnRows(d, s)
  BY <1>0, <1>1, <1>2 DEF OwnRows
<1>4. ASSUME NEW i \in 1..m PROVE d.snapshots[i].raw # n + 1 /\ i \in 1..Len(e.snapshots)
                                  /\ e.snapshots[i] = d.snapshots[i]
  <2>1. d.snapshots[i].raw \in 1..n
    BY <1>0 DEF Linked
  <2>2. i \in 1..Len(e.snapshots) /\ e.snapshots[i] = d.snapshots[i]
    BY <1>0, <1>1
  <2>3. QED
    BY <1>2, <2>1, <2>2
<1>5. ASSUME NEW s, NEW i \in 1..m PROVE i \in Made(e, s) <=> i \in Made(d, s)
  BY <1>3, <1>4 DEF Made
<1>6. CASE e.snapshots = d.snapshots
  <2>1. \A s : Made(e, s) = Made(d, s)
    BY <1>5, <1>6 DEF Made
  <2>2. (m + 1)..Len(e.snapshots) = {}
    BY <1>1, <1>6
  <2>3. QED
    BY <1>3, <2>1, <2>2
<1>7. CASE /\ Len(e.snapshots) = m + 1 /\ e.snapshots[m + 1].raw = n + 1
           /\ \A i \in 1..m : e.snapshots[i] = d.snapshots[i]
  <2>1. \A i : i \in 1..(m + 1) <=> i \in 1..m \/ i = m + 1
    BY <1>1
  <2>2. (m + 1)..Len(e.snapshots) = {m + 1}
    BY <1>1, <1>7
  <2>3. \A s : m + 1 \in Made(e, s) <=> s = r
    <3>1. \A s : n + 1 \in OwnRows(e, s) <=> s = r
      BY <1>2, <1>3 DEF OwnRows
    <3>2. QED
      BY <1>7, <2>1, <3>1 DEF Made
  <2>4. \A s : Made(e, s) \subseteq 1..(m + 1) /\ Made(d, s) \subseteq 1..m
    BY <1>7 DEF Made
  <2>5. \A s : Made(e, s) = IF s = r THEN Made(d, s) \cup {m + 1} ELSE Made(d, s)
    <3> SUFFICES ASSUME NEW s
                 PROVE  Made(e, s) = IF s = r THEN Made(d, s) \cup {m + 1} ELSE Made(d, s)
      OBVIOUS
    <3>1. \A i \in 1..m : i \in Made(e, s) <=> i \in Made(d, s)
      BY <1>5
    <3>2. m + 1 \in Made(e, s) <=> s = r
      BY <2>3
    <3>3. Made(e, s) \subseteq 1..(m + 1) /\ Made(d, s) \subseteq 1..m
      BY <2>4
    <3>4. \A i : i \in Made(e, s) <=> (i \in Made(d, s) \/ (i = m + 1 /\ s = r))
      <4> HIDE DEF m
      <4>1. QED
        BY <1>2, <2>1, <3>1, <3>2, <3>3
    <3>5. CASE s = r
      BY <3>4, <3>5
    <3>6. CASE s # r
      BY <3>4, <3>6
    <3>7. QED
      BY <3>5, <3>6
  <2>6. QED
    BY <1>3, <2>2, <2>5
<1>8. QED
  BY <1>0, <1>6, <1>7

LEMMA InsertRowsKeepsAccounts == ASSUME Inv, AccountsInv, InsertRows PROVE AccountsInv'
<1> DEFINE R == Len(tx.runs)
           n == Len(tx.raws)
           m == Len(tx.snapshots)
           raw  == [area |-> area, hash |-> body, at |-> now, run |-> R]
           made == [area |-> area, hash |-> body, at |-> now, raw |-> n + 1,
                    quality |-> IF body \in Lacking THEN "PARTIAL" ELSE "OK"]
<1>1. /\ phase = "rows" /\ pos <= Len(places) /\ area \in Area /\ body \in Body
      /\ UNCHANGED <<db, places>> /\ tx \in Database /\ now \in Nat
      /\ results \in Seq(Verdicts) /\ pos \in Nat /\ places \in Seq(Area)
      /\ Linked(tx.snapshots, tx.raws) /\ Progress
  BY AreaType DEF InsertRows, Inv, Phases, TypeOK, OwnerInv, Sound, AccountsInv
<1>2. /\ tx.raws \in Seq(RawRow) /\ tx.snapshots \in Seq(Snapshot) /\ tx.runs \in Seq(RunRow)
      /\ n \in Nat /\ m \in Nat /\ R \in Nat
  BY <1>1 DEF Database
<1>3. raw \in RawRow /\ raw.run = R /\ made \in Snapshot /\ made.raw = n + 1
  BY <1>1, <1>2 DEF RawRow, Snapshot
<1>4. AddRaw = Append(tx.raws, raw) /\ AddSnapshot = Append(tx.snapshots, made)
  BY DEF AddRaw, AddSnapshot
<1> HIDE DEF raw, made
<1>5. /\ AddRaw \in Seq(RawRow) /\ Len(AddRaw) = n + 1
      /\ AddRaw[n + 1].run = R /\ \A i \in 1..n : AddRaw[i] = tx.raws[i]
      /\ AddSnapshot \in Seq(Snapshot) /\ Len(AddSnapshot) = m + 1 /\ AddSnapshot[m + 1].raw = n + 1
      /\ \A i \in 1..m : AddSnapshot[i] = tx.snapshots[i]
  BY <1>2, <1>3, <1>4, AppendFacts
<1>6. PICK snapshots \in {tx.snapshots, AddSnapshot}, verdict \in Verdicts :
         /\ tx' = [tx EXCEPT !.raws = AddRaw, !.snapshots = snapshots] /\ NextArea(verdict)
         /\ \/ snapshots = tx.snapshots /\ verdict \in {"DUPLICATE", "ERROR"}
            \/ snapshots = AddSnapshot /\ verdict \in Changed
  <2>1. CASE RepeatsLatest \/ BreaksUnique
    <3>1. PICK verdict \in {"DUPLICATE", "ERROR"} : tx' = [tx EXCEPT !.raws = AddRaw] /\ NextArea(verdict)
      BY <2>1 DEF InsertRows
    <3>2. [tx EXCEPT !.raws = AddRaw] = [tx EXCEPT !.raws = AddRaw, !.snapshots = tx.snapshots]
      BY <1>1 DEF Database
    <3>3. QED
      BY <3>1, <3>2 DEF Verdicts
  <2>2. CASE ~RepeatsLatest /\ ~BreaksUnique
    BY <2>2 DEF InsertRows, Verdicts, Changed
  <2>3. QED
    BY <2>1, <2>2
<1>7. tx'.raws = AddRaw /\ tx'.snapshots = snapshots /\ tx'.runs = tx.runs
  BY <1>1, <1>6 DEF Database
<1>8. phase' = "ask" /\ pos' = pos + 1 /\ results' = Append(results, verdict)
  BY <1>6 DEF NextArea
<1>9. /\ OwnRows(tx', R) = OwnRows(tx, R) \cup {n + 1}
      /\ Made(tx', R) = Made(tx, R) \cup ((m + 1)..Len(snapshots))
      /\ \A s : s # R => OwnRows(tx', s) = OwnRows(tx, s) /\ Made(tx', s) = Made(tx, s)
  <2>1. /\ tx'.raws \in Seq(RawRow) /\ tx'.snapshots \in Seq(Snapshot)
        /\ Len(tx'.raws) = n + 1 /\ tx'.raws[n + 1].run = R
        /\ \A i \in 1..n : tx'.raws[i] = tx.raws[i]
    BY <1>2, <1>5, <1>6, <1>7
  <2>2. \/ tx'.snapshots = tx.snapshots
        \/ /\ Len(tx'.snapshots) = m + 1 /\ tx'.snapshots[m + 1].raw = n + 1
           /\ \A i \in 1..m : tx'.snapshots[i] = tx.snapshots[i]
    BY <1>5, <1>6, <1>7
  <2>3. tx.raws \in Seq(RawRow) /\ tx.snapshots \in Seq(Snapshot) /\ Linked(tx.snapshots, tx.raws)
    BY <1>1, <1>2
  <2>4. WithAnswer(tx, tx', R)
    BY <2>1, <2>2, <2>3 DEF WithAnswer
  <2>5. /\ OwnRows(tx', R) = OwnRows(tx, R) \cup {n + 1}
        /\ Made(tx', R) = Made(tx, R) \cup ((m + 1)..Len(tx'.snapshots))
        /\ \A s : s # R => OwnRows(tx', s) = OwnRows(tx, s) /\ Made(tx', s) = Made(tx, s)
    BY <2>4, RowsAfterAnswer
  <2>6. QED
    BY <1>7, <2>5
<1>10. /\ Cardinality(OwnRows(tx, R)) \in Nat
       /\ Cardinality(OwnRows(tx', R)) = Cardinality(OwnRows(tx, R)) + 1
  <2>1. OwnRows(tx, R) \in SUBSET (1..n)
    BY DEF OwnRows
  <2>2. QED
    BY <1>2, <1>9, <2>1, IndexSetGrows
<1>11. /\ Cardinality(Made(tx, R)) \in Nat
       /\ Cardinality(Made(tx', R)) = IF verdict \in Changed THEN Cardinality(Made(tx, R)) + 1
                                      ELSE Cardinality(Made(tx, R))
  <2>1. Made(tx, R) \in SUBSET (1..m)
    BY DEF Made
  <2>2. CASE verdict \in Changed
    <3>1. (m + 1)..Len(snapshots) = {m + 1}
      BY <1>2, <1>5, <1>6, <2>2 DEF Changed
    <3>2. Made(tx', R) = Made(tx, R) \cup {m + 1}
      BY <1>9, <3>1
    <3>3. /\ Cardinality(Made(tx, R)) \in Nat
          /\ Cardinality(Made(tx, R) \cup {m + 1}) = Cardinality(Made(tx, R)) + 1
      BY <1>2, <2>1, IndexSetGrows
    <3>4. QED
      BY <2>2, <3>2, <3>3
  <2>3. CASE verdict \notin Changed
    <3>1. (m + 1)..Len(snapshots) = {}
      BY <1>2, <1>6, <2>3
    <3>2. Made(tx', R) = Made(tx, R)
      BY <1>9, <3>1
    <3>3. QED
      BY <1>2, <2>1, <2>3, <3>2, IndexSetGrows
  <2>4. QED
    BY <2>2, <2>3
<1>12. /\ Len(results') = Len(results) + 1 /\ Len(results) \in Nat
       /\ \A V \in {Answered, Changed, {"ERROR"}, {"DUPLICATE"}} :
             CountIn(results, V) \in Nat
             /\ CountIn(results', V) = IF verdict \in V THEN CountIn(results, V) + 1 ELSE CountIn(results, V)
  BY <1>1, <1>8, VerdictCounts
<1>13. Balanced(results', tx', R)
  <2>1. Balanced(results, tx, R)
    BY <1>1 DEF Progress
  <2>2. /\ verdict \in Answered <=> verdict # "ERROR"
        /\ verdict \in Changed <=> verdict \notin {"ERROR", "DUPLICATE"}
    BY DEF Verdicts, Answered, Changed
  <2> DEFINE A == CountIn(results, Answered)
             C == CountIn(results, Changed)
             E == CountIn(results, {"ERROR"})
             D == CountIn(results, {"DUPLICATE"})
  <2>3. A \in Nat /\ C \in Nat /\ E \in Nat /\ D \in Nat
    BY <1>12
  <2>4. /\ CountIn(results', Answered) = IF verdict = "ERROR" THEN A ELSE A + 1
        /\ CountIn(results', Changed) = IF verdict \in {"ERROR", "DUPLICATE"} THEN C ELSE C + 1
        /\ CountIn(results', {"ERROR"}) = IF verdict = "ERROR" THEN E + 1 ELSE E
        /\ CountIn(results', {"DUPLICATE"}) = IF verdict = "DUPLICATE" THEN D + 1 ELSE D
    BY <1>12, <2>2
  <2>5. A + E = Len(results) /\ C + D = A /\ Cardinality(Made(tx, R)) = C
        /\ A <= Cardinality(OwnRows(tx, R)) /\ Cardinality(OwnRows(tx, R)) <= Len(results)
    BY <2>1 DEF Balanced
  <2>6. Cardinality(Made(tx', R)) = IF verdict \in {"ERROR", "DUPLICATE"} THEN C ELSE C + 1
    BY <1>11, <2>2, <2>5
  <2> DEFINE own  == Cardinality(OwnRows(tx, R))
             own2 == Cardinality(OwnRows(tx', R))
             len  == Len(results)
             len2 == Len(results')
             A2   == CountIn(results', Answered)
             C2   == CountIn(results', Changed)
             E2   == CountIn(results', {"ERROR"})
             D2   == CountIn(results', {"DUPLICATE"})
             M2   == Cardinality(Made(tx', R))
  <2>7. own \in Nat /\ own2 = own + 1 /\ len \in Nat /\ len2 = len + 1
    BY <1>10, <1>12
  <2>8. A2 + E2 = len2 /\ C2 + D2 = A2 /\ M2 = C2 /\ A2 <= own2 /\ own2 <= len2
    <3>1. A + E = len /\ C + D = A /\ A <= own /\ own <= len
      BY <2>5
    <3>2. /\ A2 = IF verdict = "ERROR" THEN A ELSE A + 1
          /\ C2 = IF verdict \in {"ERROR", "DUPLICATE"} THEN C ELSE C + 1
          /\ E2 = IF verdict = "ERROR" THEN E + 1 ELSE E
          /\ D2 = IF verdict = "DUPLICATE" THEN D + 1 ELSE D
          /\ M2 = IF verdict \in {"ERROR", "DUPLICATE"} THEN C ELSE C + 1
      BY <2>4, <2>6
    <3> HIDE DEF A, C, D, E, A2, C2, D2, E2, M2, own, own2, len, len2
    <3>3. QED
      BY <2>3, <2>7, <3>1, <3>2
  <2>9. QED
    BY <2>8 DEF Balanced
<1>14. Progress'
  <2>1. pos' - 1 = (pos - 1) + 1 /\ pos' - 1 <= Len(places) /\ Len(results) = pos - 1
    BY <1>1, <1>8 DEF Progress
  <2>2. QED
    BY <1>1, <1>7, <1>12, <1>13, <2>1 DEF Progress
<1>15. RunsNamed(tx') /\ Len(tx'.runs) > 0
  <2>1. RunsNamed(tx) /\ R > 0
    BY <1>1 DEF AccountsInv
  <2>2. R \in 1..R /\ \A i : i \in 1..(n + 1) <=> i \in 1..n \/ i = n + 1
    BY <1>2, <2>1
  <2>3. QED
    BY <1>5, <1>7, <2>1, <2>2 DEF RunsNamed
<1>16. ASSUME NEW r \in 1..R, r < R PROVE Accounted(tx', r)
  <2>1. Accounted(tx, r) /\ r # R
    BY <1>1, <1>2, <1>16 DEF AccountsInv
  <2>2. QED
    BY <1>7, <1>9, <2>1, SameAccount
<1>17. QED
  BY <1>1, <1>7, <1>8, <1>14, <1>15, <1>16 DEF AccountsInv

LEMMA FinishKeepsAccounts == ASSUME Inv, AccountsInv, Finish PROVE AccountsInv'
<1> DEFINE R      == Len(tx.runs)
           runs   == [tx.runs EXCEPT ![R] = RunSummary]
           closed == [tx EXCEPT !.runs = runs]
<1>1. /\ phase = "ask" /\ pos > Len(places) /\ phase' = "commit" /\ UNCHANGED <<db, results>>
      /\ tx \in Database /\ now \in Nat /\ Progress /\ R > 0 /\ RunsNamed(tx)
      /\ \A r \in 1..R : r < R => Accounted(tx, r)
      /\ tx' = detect_gaps(closed, Area, now)
      /\ results \in Seq(Verdicts) /\ places \in Seq(Area) /\ pos \in Nat
  BY DEF Finish, Inv, TypeOK, AccountsInv
<1>2. tx.runs \in Seq(RunRow) /\ RunSummary \in RunRow /\ R \in Nat
  BY <1>1, RunSummaryType DEF Inv, Database
<1>3. runs \in Seq(RunRow)
  BY <1>2, ExceptInSeq
<1>4. Len(runs) = R /\ runs[R] = RunSummary /\ \A r \in 1..R : r # R => runs[r] = tx.runs[r]
  BY <1>1, <1>2
<1> HIDE DEF runs
<1>5. /\ closed \in Database /\ closed.runs = runs
      /\ closed.raws = tx.raws /\ closed.snapshots = tx.snapshots
  BY <1>1, <1>3 DEF Database
<1> HIDE DEF closed
<1>6. tx'.runs = runs /\ tx'.raws = tx.raws /\ tx'.snapshots = tx.snapshots
  BY <1>1, <1>5, DetectGapsFacts
<1>7. \A r : OwnRows(tx', r) = OwnRows(tx, r) /\ Made(tx', r) = Made(tx, r)
  BY <1>6, SameRows
<1>8. Accounted(tx', R)
  <2>1. /\ RunSummary.status # "RUNNING" /\ RunSummary.requested = Len(places)
        /\ RunSummary.received = CountIn(results, Answered)
        /\ RunSummary.inserted = CountIn(results, Changed)
        /\ RunSummary.duplicates = CountIn(results, {"DUPLICATE"})
        /\ RunSummary.errors = CountIn(results, {"ERROR"})
    BY DEF RunSummary, Count, CountIn, Answered, Changed
  <2>2. Len(results) = Len(places) /\ Balanced(results, tx, R)
    BY <1>1 DEF Progress
  <2>3. QED
    BY <1>4, <1>6, <1>7, <2>1, <2>2 DEF Accounted, Balanced
<1>9. ASSUME NEW r \in 1..R PROVE Accounted(tx', r)
  <2>1. CASE r # R
    <3>1. r < R
      BY <1>2, <2>1
    <3>2. QED
      BY <1>1, <1>4, <1>6, <1>7, <2>1, <3>1, SameAccount
  <2>2. QED
    BY <1>8, <2>1
<1>10. RunsNamed(tx')
  BY <1>1, <1>4, <1>6 DEF RunsNamed
<1>11. QED
  BY <1>1, <1>4, <1>6, <1>9, <1>10 DEF AccountsInv

LEMMA CommitHealthKeepsAccounts == ASSUME Inv, AccountsInv, CommitHealth PROVE AccountsInv'
<1>1. /\ UNCHANGED <<tx, phase, places, pos, results>> 
      /\ db' = IF health.phase = "write" THEN health.view ELSE db
  BY DEF CommitHealth, run
<1>2. CASE health.phase = "write"
  <2>1. db' = health.view /\ db'.runs = db.runs /\ db'.raws = db.raws /\ db'.snapshots = db.snapshots
    BY <1>1, <1>2 DEF Inv, HealthInv
  <2>2. \A r : OwnRows(db', r) = OwnRows(db, r) /\ Made(db', r) = Made(db, r)
    BY <2>1, SameRows
  <2>3. ASSUME NEW r \in 1..Len(db.runs) PROVE Accounted(db', r)
    <3>1. Accounted(db, r)
      BY DEF AccountsInv
    <3>2. QED
      BY <2>1, <2>2, <3>1, SameAccount
  <2>4. RunsNamed(db')
    BY <2>1 DEF AccountsInv, RunsNamed
  <2>5. QED
    BY <1>1, <2>1, <2>3, <2>4 DEF AccountsInv, Progress
<1>3. CASE health.phase # "write"
  BY <1>1, <1>3 DEF AccountsInv, Progress
<1>4. QED
  BY <1>2, <1>3

LEMMA NextAccounts == ASSUME Inv, AccountsInv, [Next]_vars PROVE AccountsInv'
<1>1. CASE \E p \in Process : Start(p) \/ Waits(p)
  <2>1. ASSUME NEW p \in Process, Start(p) \/ Busy(p) PROVE AccountsInv'
    <3>1. UNCHANGED <<db, tx, phase, places, pos, results>>
      BY <2>1 DEF Start, Busy, run
    <3>2. QED
      BY <3>1 DEF AccountsInv, Progress
  <2>2. QED
    BY <1>1, <2>1, AcquireKeepsAccounts DEF Waits
<1>2. CASE Answer \/ OpenFile \/ WriteFile
  <2>1. /\ UNCHANGED <<db, tx, places, pos, results>>
        /\ phase \notin {"idle", "commit"} /\ phase' \notin {"idle", "commit"}
    BY <1>2 DEF Answer, OpenFile, WriteFile
  <2>2. QED
    BY <2>1 DEF AccountsInv, Progress
<1>3. CASE Commit
  <2>1. db' = tx /\ phase' = "idle" /\ pos' = 1 /\ results' = <<>> /\ phase = "commit"
    BY <1>3 DEF Commit, Close
  <2>2. QED
    BY <2>1 DEF AccountsInv
<1>4. CASE RollBack
  <2>1. UNCHANGED db /\ phase' = "idle" /\ pos' = 1 /\ results' = <<>>
    BY <1>4 DEF RollBack, Close
  <2>2. QED
    BY <2>1 DEF AccountsInv
<1>5. CASE StartHealth \/ CheckArea \/ FailHealth \/ UNCHANGED vars
  <2>1. UNCHANGED <<db, tx, phase, places, pos, results>>
    BY <1>5 DEF StartHealth, CheckArea, FailHealth, run, vars
  <2>2. QED
    BY <2>1 DEF AccountsInv, Progress
<1>6. QED
  BY <1>1, <1>2, <1>3, <1>4, <1>5, AreaFailsKeepsAccounts, InsertRowsKeepsAccounts, FinishKeepsAccounts,
     CommitHealthKeepsAccounts DEF Next, RunStep, HealthStep

\* Whatever fails in a run and whoever dies: the counts of a committed run are those of
\* the rows it left, for any lists of areas and answers.
THEOREM RunsAreAccounted == Spec => []RunsAccounted
<1>1. AccountsInv => RunsAccounted
  BY DEF AccountsInv, Accounted, OwnRows, Made, RunsAccounted
<1>2. Init => AccountsInv
  BY AccountsInit
<1>3. Inv /\ AccountsInv /\ [Next]_vars => AccountsInv'
  BY NextAccounts
<1>4. QED
  BY <1>1, <1>2, <1>3, SpecInv, PTL DEF Spec
=============================================================================
