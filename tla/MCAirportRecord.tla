--------------------------- MODULE MCAirportRecord ---------------------------
(***************************************************************************)
(* One airport.  Its timetable has departures around ten o'clock and       *)
(* around midnight, every day.  The provider's tables of body a are those  *)
(* of the timetable, one flight late and one cancelled; those of body b    *)
(* name no airport and know one flight less; the others are empty.         *)
(***************************************************************************)
EXTENDS MCAirportFriction, AirportRecord

OneAirport == {"gimpo"}

DailyMinutes == <<600, 630, 631, 1425, 1439, 0, 5>>

Daily == [i \in DOMAIN DailyMinutes |->
            [from |-> 0, to |-> 9, weekdays |-> 0..6, minute |-> DailyMinutes[i]]]

Remark(minute) ==
    IF minute = 630 THEN "delayed" ELSE IF minute = 1439 THEN "cancelled" ELSE "none"

FlightsOn(day) == [i \in DOMAIN DailyMinutes |->
    [scheduled |-> day * Minutes + DailyMinutes[i], remark |-> Remark(DailyMinutes[i])]]

Empty == [named |-> {}, lots |-> <<>>, flights |-> <<>>, timetable |-> <<>>]

TablesOf == [body \in {"a", "b", "p", "m", "x", "n", "f"} |->
    CASE body = "a" -> [named |-> {"gimpo"}, flights |-> FlightsOn(0) \o FlightsOn(1),
                        timetable |-> Daily,
                        lots |-> << [airport |-> "gimpo", capacity |-> 5, occupied |-> 3] >>]
      [] body = "b" -> [Empty EXCEPT !.flights = Tail(FlightsOn(0)) \o Tail(FlightsOn(1)),
                                      !.timetable = Tail(Daily)]
      [] OTHER -> Empty]

CircuitSources ==
    [c \in {"process_time", "parking", "flight_status", "flight_schedule", "weather"} |->
       [a \in OneAirport |->
          CASE c = "process_time"    -> "process"
            [] c = "parking"         -> "parking"
            [] c = "flight_status"   -> "flights"
            [] c = "flight_schedule" -> "schedule"
            [] c = "weather"         -> "metar"]]

WithOrWithoutWeather == {FiveSources, FiveKac}

ArchiveSources ==
    [c \in {"flight_schedule", "weather"} |->
       [a \in OneAirport |-> IF c = "weather" THEN "metar" ELSE "schedule"]]
=============================================================================
