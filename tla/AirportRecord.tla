---------------------------- MODULE AirportRecord ----------------------------
(***************************************************************************)
(* normalize_records: the record a manifest holds of each airport.  It is  *)
(* a function of the payloads the run parsed, of the observations and of   *)
(* the clock, so it is an operator on a manifest and no state of its own.  *)
(*                                                                         *)
(* A body stands for the provider's tables at the time of the answer; what *)
(* an answer holds of them depends on the request.  Minutes are the unit   *)
(* of time; a run starts on a full minute.                                 *)
(***************************************************************************)
EXTENDS AirportFriction, FiniteSetsExt

CONSTANTS
    Airport,
    Components,  \* the components of a record that have a source
    SourceOf,    \* component_sources, by component and airport
    Tables,      \* what the provider knows, by body
    Epoch        \* the local time when now is 0

AllComponents == {"process_time", "congestion", "parking", "parking_congestion",
                  "flight_status", "flight_schedule", "weather", "weather_warning"}

Minutes == 24 * 60

Lot       == [airport : Airport, capacity : Nat \cup {None}, occupied : Nat \cup {None}]
Flight    == [scheduled : Nat, remark : {"none", "delayed", "cancelled"}]
Departure == [from : Nat, to : Nat, weekdays : SUBSET (0..6), minute : 0..(Minutes - 1)]
Table     == [named : SUBSET Airport, lots : Seq(Lot), flights : Seq(Flight),
              timetable : Seq(Departure)]

ASSUME RecordAssumption ==
    /\ Components \subseteq AllComponents
    /\ SourceOf \in [Components -> [Airport -> Source]]
    \* kma_ sources, and kma_ sources only, stand for the weather
    /\ \A c \in Components \ {"weather", "weather_warning"} : \A a \in Airport :
          SourceOf[c][a] \notin Weather
    /\ Tables \in [Body -> Table] /\ Epoch \in Nat

-----------------------------------------------------------------------------
(* The local clock and the windows.                                         *)

LocalDay(local) == local \div Minutes
MinuteOf(local) == local % Minutes

\* Mutant: the window runs past midnight, to the small hours of the same day.
_request_window_wrapped(local) ==
    [from |-> (MinuteOf(local) + Minutes - 60) % Minutes, to |-> (MinuteOf(local) + 60) % Minutes]

\* from_time to to_time of a flight request, clamped to the local day.
_request_window(local) ==
    LET start == MinuteOf(local) - 60
        end   == MinuteOf(local) + 60
    IN [from |-> IF start < 0 THEN 0 ELSE start,
        to   |-> IF end > Minutes - 1 THEN Minutes - 1 ELSE end]

InNextHalfHour(at, local) == local <= at /\ at <= local + 30

\* The day and hour a row of the timetable leaves on this local day, if at all.
_schedule_departure_at(row, local) ==
    IF /\ row.from <= LocalDay(local) /\ LocalDay(local) <= row.to
       /\ LocalDay(local) % 7 \in row.weekdays
    THEN LocalDay(local) * Minutes + row.minute ELSE None

-----------------------------------------------------------------------------
(* The payloads that were parsed.                                           *)

\* parsed_payloads: of an answer accepted in this run.  An operation of KAC
\* names the airports it serves only, which are those of component_sources.
Parsed(o) == IF o.status \in Success THEN o.content ELSE <<>>

\* The rows of the merged pages, each at its place: a page and an index in it.
Rows(o, field) ==
    UNION {{k} \X DOMAIN Tables[Parsed(o)[k]][field] : k \in DOMAIN Parsed(o)}

RowAt(o, field, place) == Tables[Parsed(o)[place[1]]][field][place[2]]

LotsOf(o, a) == {p \in Rows(o, "lots") : RowAt(o, "lots", p).airport = a}

\* The answer to a flight request holds the flights of its day and window.
Requested(f, local) ==
    LET window == _request_window(local)
    IN /\ LocalDay(f.scheduled) = LocalDay(local)
       /\ window.from <= MinuteOf(f.scheduled)
       /\ MinuteOf(f.scheduled) <= window.to

Upcoming(o, local) ==
    {p \in Rows(o, "flights") : /\ Requested(RowAt(o, "flights", p), local)
                                /\ InNextHalfHour(RowAt(o, "flights", p).scheduled, local)}

TimetableUpcoming(o, local) ==
    LET at(p) == _schedule_departure_at(RowAt(o, "timetable", p), local)
    IN {p \in Rows(o, "timetable") : at(p) # None /\ InNextHalfHour(at(p), local)}

Names(o, a) == \E k \in DOMAIN Parsed(o) : a \in Tables[Parsed(o)[k]].named

\* The sum over the lots that give a number for the field, None if none does.
Total(o, lots, field) ==
    LET number(p) == RowAt(o, "lots", p)[field]
        given == {p \in lots : number(p) # None}
    IN IF given = {} THEN None ELSE MapThenSumSet(number, given)

-----------------------------------------------------------------------------
(* The record of an airport.                                                *)

\* Mutant: only an error is missing.
FlaggedErrors(status) == status = "ERROR"

Flagged(status) == status \in {"ERROR", "PARTIAL"}

\* Mutant: an answer is a value.
HasValueIfAnswered(c, o, a) == o.status = "SKIPPED_NOT_DUE" \/ Parsed(o) # <<>>

\* The components that count as missing without a value, whatever their source
\* said; the weather and the parking lots only when they were asked.
HasValue(c, o, a) ==
    CASE c \in {"process_time", "congestion"}    -> Names(o, a)
      [] c \in {"parking", "parking_congestion"} ->
            o.status = "SKIPPED_NOT_DUE" \/ LotsOf(o, a) # {}
      [] c = "weather" -> o.status = "SKIPPED_NOT_DUE" \/ Parsed(o) # <<>>
      [] OTHER -> TRUE

Record(observations, a, local) ==
    LET o        == [c \in Components |-> observations[SourceOf[c][a]]]
        total(f) == IF "parking" \in Components
                    THEN Total(o["parking"], LotsOf(o["parking"], a), f) ELSE None
        capacity == total("capacity")
        occupied == total("occupied")
        upcoming == IF "flight_status" \in Components
                    THEN Upcoming(o["flight_status"], local) ELSE {}
        planned  == IF "flight_schedule" \in Components
                    THEN TimetableUpcoming(o["flight_schedule"], local) ELSE {}
        remarked(r) == {p \in upcoming : RowAt(o["flight_status"], "flights", p).remark = r}
        missing  == {c \in Components : Flagged(o[c].status)}
        valueless == {c \in Components : ~HasValue(c, o[c], a)}
    IN [capacity   |-> capacity,
        occupied   |-> occupied,
        available  |-> IF None \in {capacity, occupied} THEN None
                       ELSE IF capacity > occupied THEN capacity - occupied ELSE 0,
        departures |-> Cardinality(upcoming),
        delayed    |-> Cardinality(remarked("delayed")),
        cancelled  |-> Cardinality(remarked("cancelled")),
        timetable  |-> Cardinality(planned),
        difference |-> Cardinality(planned) - Cardinality(upcoming),
        status     |-> [c \in Components |-> o[c].status],
        missing    |-> missing,
        valueless  |-> valueless,
        quality    |-> IF missing \cup valueless = {} THEN "OK" ELSE "PARTIAL"]

normalize_records(observations, t) ==
    [a \in Airport |-> Record(observations, a, Epoch + t)]

\* The records of a manifest.
records(m) == normalize_records(m.obs, m.collected_at)

-----------------------------------------------------------------------------
(***************************************************************************)
(* Safety, of the newest manifest: no manifest is ever altered.            *)
(***************************************************************************)

\* The quality of a record can be relied on: it is OK exactly when every
\* component of the airport was not due or was answered in this run, by pages
\* with all their fields, that name the airport where a value is read off them.
\* A duplicate may be OK, and what happened to another airport's sources does
\* not matter.
RecordsTellGaps ==
    run > 0 /\ manifests[run] # None =>
       \A a \in Airport :
          records(manifests[run])[a].quality = "OK" <=>
             \A c \in Components :
                LET s == SourceOf[c][a]
                    o == manifests[run].obs[s]
                IN \/ o.cause = "none" /\ o.status = "SKIPPED_NOT_DUE" /\ s \in Weather
                   \/ /\ o.status \in Success /\ ~_missing_fields(s, o.content)
                      /\ c \in {"process_time", "congestion"} =>
                            \E k \in DOMAIN o.content : a \in Tables[o.content[k]].named
                      /\ c \in {"parking", "parking_congestion"} =>
                            \E k \in DOMAIN o.content : \E i \in DOMAIN Tables[o.content[k]].lots :
                               Tables[o.content[k]].lots[i].airport = a

\* The departures of a record are those of the next half hour, none cut off by
\* the window that was asked for, with their delays: all of them while the half
\* hour stays in the day, and no fewer than the day's where it does not (see
\* DeparturesOfHalfHour).  Where the timetable and the flights have as many
\* departures at each minute of the day that is left in it, the record finds no
\* difference; and without an answer the zero is no count: the record is PARTIAL.
DeparturesExact ==
    run > 0 /\ manifests[run] # None /\ {"flight_status", "flight_schedule"} \subseteq Components =>
       \A a \in Airport :
          LET m     == manifests[run]
              rec   == records(m)[a]
              live  == m.obs[SourceOf["flight_status"][a]]
              plan  == m.obs[SourceOf["flight_schedule"][a]]
              local == Epoch + m.collected_at
              flight(p)  == RowAt(live, "flights", p)
              leaving    == {p \in Rows(live, "flights") : InNextHalfHour(flight(p).scheduled, local)}
              today      == {p \in leaving : LocalDay(flight(p).scheduled) = LocalDay(local)}
              irregular(flights) == {p \in flights : flight(p).remark # "none"}
              planned(at) == {p \in Rows(plan, "timetable") :
                                _schedule_departure_at(RowAt(plan, "timetable", p), local) = at}
          IN /\ live.status \in Success =>
                   /\ rec.departures \in Cardinality(today)..Cardinality(leaving)
                   /\ rec.delayed + rec.cancelled \in
                         Cardinality(irregular(today))..Cardinality(irregular(leaving))
             /\ (\A at \in local..(local + 30) : LocalDay(at) = LocalDay(local) =>
                    Cardinality(planned(at)) =
                       Cardinality({p \in today : flight(p).scheduled = at}))
                   => rec.difference = 0
             /\ live.status \notin Success => rec.departures = 0 /\ rec.quality = "PARTIAL"

(***************************************************************************)
(* A statement of the documentation the code does not keep.                *)
(***************************************************************************)

\* "departures whose scheduled time is inside [observed_at, observed_at + 30m]":
\* the departures of an answered record are all of them, also at midnight.
DeparturesOfHalfHour ==
    run > 0 /\ manifests[run] # None /\ "flight_status" \in Components =>
       \A a \in Airport :
          LET m    == manifests[run]
              live == m.obs[SourceOf["flight_status"][a]]
          IN live.status \in Success =>
                records(m)[a].departures =
                   Cardinality({p \in Rows(live, "flights") :
                                  InNextHalfHour(RowAt(live, "flights", p).scheduled,
                                                 Epoch + m.collected_at)})
=============================================================================
