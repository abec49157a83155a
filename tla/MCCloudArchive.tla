--------------------------- MODULE MCCloudArchive ---------------------------
(***************************************************************************)
(* A small instance of the Seoul collector.  Minutes are the unit of time. *)
(***************************************************************************)
EXTENDS CloudArchive

TwoAreas  == {"gwanghwamun", "gangnam"}
TwoPlaces == <<"gwanghwamun", "gangnam">>

\* A complete body and one that lacks sections, the same in both formats where
\* the server answers JSON requests with XML; e carries an API error code.
AnswersOf == [k \in {"json", "xml"} |-> IF k = "json" THEN {"a", "e"} ELSE {"p"}]
=============================================================================
