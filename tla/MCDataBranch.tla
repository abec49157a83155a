---------------------------- MODULE MCDataBranch ----------------------------
(***************************************************************************)
(* A small instance of the data branch: both workflows, with room for one  *)
(* run to be replaced, another to be rejected until it gives up.           *)
(***************************************************************************)
EXTENDS DataBranch

BothWorkflows == {"seoul", "airport"}
RunsOf == [w \in BothWorkflows |-> IF w = "seoul" THEN 1 ELSE 3]
=============================================================================
