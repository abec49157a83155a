----------------------------- MODULE MCSeoulCity -----------------------------
(***************************************************************************)
(* A small instance of the Seoul database collector: two overlapping       *)
(* processes, an area whose answer may change and change back, and one     *)
(* that always sends the same.  Minutes are the unit of time.              *)
(***************************************************************************)
EXTENDS SeoulCity

TwoAreas    == {"gwanghwamun", "gangnam"}
AllOrSample == {<<"gwanghwamun", "gangnam">>, <<"gwanghwamun">>}
SampleOnly  == {<<"gwanghwamun">>}
AnswersOf   == [x \in TwoAreas |-> IF x = "gwanghwamun" THEN {"a", "p"} ELSE {"c"}]
=============================================================================
