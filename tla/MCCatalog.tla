------------------------------ MODULE MCCatalog ------------------------------
(***************************************************************************)
(* A small instance of the catalogue: one planned dataset and two open     *)
(* ones, the second of them the better match, and one of the seed file.    *)
(* Records change in rights, in status, in their seed score and in a field *)
(* no event reports; one batch names a dataset twice and one breaks off at *)
(* a record that cannot be hashed.  The seed scores lie at the threshold   *)
(* and below it, and overrides move them to either side.                   *)
(***************************************************************************)
EXTENDS Catalog, TLC

\* Three money terms make a score of exactly 75.00, two one of 71.80.
Scored(money) ==
    [cadence |-> "realtime", history |-> "none", access |-> "api", money |-> money, join |-> 0,
     outcome |-> 1, storage |-> "medium", usage |-> "low", upcoming |-> FALSE]

Rec(status, rights, modified) ==
    [status |-> status, rights |-> rights, cost |-> "FREE", features |-> Scored(3),
     modified |-> modified]

Datasets == {"plan", "near", "nearer", "shop"}

Bad     == [Rec("OPEN", "ALLOW", "m9") EXCEPT !.cost = "UNKNOWN"]
OldShop == [Rec("OPEN", "ALLOW", "m1") EXCEPT !.features = Scored(2)]
NewShop == [Rec("OPEN", "UNKNOWN", "m2") EXCEPT !.features = Scored(2)]

Of(id, record) == [id |-> id, record |-> record]

PlannedFeed  == {<<Of("plan", Rec("PLANNED", "UNKNOWN", m))>> : m \in {"m1", "m2"}}

RegistryFeed ==
    {<<Of("near", Rec("OPEN", "RESTRICTED", "m1")), Of("nearer", Rec("OPEN", "ALLOW", "m1"))>>,
     <<Of("near", Rec("PLANNED", "RESTRICTED", "m2")), Of("nearer", Bad)>>,
     <<Of("near", Rec("OPEN", "ALLOW", "m1")), Of("near", Rec("OPEN", "ALLOW", "m2")),
       Of("shop", NewShop)>>}

Noticed(stage, terms) ==
    [notice |-> [stage |-> stage, money |-> 0, join |-> 1, data |-> TRUE], terms |-> terms]

NoticeFeed ==
    {<<Of("notice", Noticed("prespecification", {"retail"}))>>,
     <<Of("notice", Noticed("bid", {"traffic"})), Of("seeded", Noticed("other", {"retail"}))>>}

FeedsOf == [s \in Source |-> CASE s = "data_go_planned" -> PlannedFeed
                               [] s = "data_go_registry" -> RegistryFeed
                               [] OTHER -> NoticeFeed]

BadRecords == {Bad}

Similar == [p \in Datasets \X Datasets |->
    CASE p = <<"plan", "near">> -> 70
      [] p = <<"plan", "nearer">> -> 80
      [] OTHER -> 0]

TermsOf == [d \in Datasets |-> CASE d = "shop" -> {"retail"} [] d = "near" -> {"retail", "traffic"}
                                 [] OTHER -> {}]

InitialRows    == <<Of("shop", OldShop)>>
InitialSignals == <<Of("seeded", Noticed("prespecification", {}))>>

Judged(id, rating, type) ==
    [id |-> id, dimension |-> "direct_money_link", rating |-> rating, type |-> type,
     rationale |-> "review"]

\* The second override names a dataset the first bootstrap does not find.
InitialOverrides == {Judged("shop", 800, "HUMAN"), Judged("nearer", 500, "HUMAN")}
Reviews          == {Judged("shop", 100, "AI"), Judged("nearer", 900, "HUMAN")}

Symmetry == Permutations(Process)
=============================================================================
