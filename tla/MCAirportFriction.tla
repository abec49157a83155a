-------------------------- MODULE MCAirportFriction --------------------------
(***************************************************************************)
(* Small instances of the Airport Friction collector.  Minutes are the     *)
(* unit of time: a cadence of 15, 30 for the weather, a slack of 1.        *)
(***************************************************************************)
EXTENDS AirportFriction

\* A KAC source, paginated in the second pair, and a weather source.
TwoSources == {"kac", "metar"}
TwoSpecs   == <<"kac", "metar">>
PagedSources == {"schedule", "metar"}
PagedSpecs   == <<"schedule", "metar">>

\* Four KAC sources and a weather source, in the order they are asked: room for
\* two failures that follow one another, a reset between them, and sources
\* behind the open circuit.
FiveSources == {"process", "parking", "flights", "schedule", "metar"}
FiveSpecs   == <<"process", "parking", "flights", "schedule", "metar">>
FiveKac     == FiveSources \ {"metar"}

\* Bodies: a and b are complete single pages; p lacks a field; m announces two
\* pages and x three; n cannot be normalized; f is the fixture's.
PagesOf == [body \in {"a", "b", "p", "m", "x", "n", "f"} |->
              IF body = "m" THEN 2 ELSE IF body = "x" THEN 3 ELSE 1]

FixtureNone == [s \in {} |-> "f"]
FixtureWeather == [s \in {"metar"} |-> "f"]
=============================================================================
