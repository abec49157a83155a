------------------------------- MODULE Scoring -------------------------------
(***************************************************************************)
(* The rules of scoring.py: dimensions rated from metadata, weighted       *)
(* totals, and the accumulation gate.                                      *)
(*                                                                         *)
(* Ratings and scores are in hundredths (1000 is a rating of 10, 7500 a    *)
(* score of 75).  Metadata is reduced to what the rules read: the cadence  *)
(* and history classes, the best access path, the numbers of distinct      *)
(* money, join and outcome terms, the class of the storage estimate and of *)
(* the usage count.  Where a total lies halfway between two hundredths     *)
(* the binary representation decides in Python; the model rounds up.       *)
(***************************************************************************)
EXTENDS Integers, FiniteSetsExt

PRA_WEIGHTS ==
    [existing_payment_evidence |-> 20, cost_substitution |-> 15, join_amplification |-> 15,
     release_probability |-> 10, lead_time |-> 10, data_time |-> 10, distribution_payer |-> 10,
     machine_processability |-> 5, non_obviousness |-> 5]

SEED_WEIGHTS ==
    [past_reconstruction_impossibility |-> 25, direct_money_link |-> 20,
     multi_source_join_value |-> 15, automated_collection |-> 15, update_frequency |-> 10,
     ground_truth_possible |-> 10, storage_operations_cost |-> 5]

EPHEMERAL_WEIGHTS ==
    [overwrite_risk |-> 30, historical_absence |-> 25, refresh_velocity |-> 15,
     economic_state |-> 20, machine_capture |-> 10]

SeedDimension == DOMAIN SEED_WEIGHTS
Rating        == 0..1000
ScoreValue    == 0..10000

Features == [cadence : {"realtime", "daily", "weekly", "monthly", "yearly", "other"},
             history : {"none", "limited", "available", "unknown"},
             access : {"api", "file", "manual"}, money : Nat, join : Nat, outcome : Nat,
             storage : {"small", "medium", "large", "unknown"},
             usage : {"low", "medium", "high"}, upcoming : BOOLEAN]

Notice == [stage : {"prespecification", "bid", "other"}, money : Nat, join : Nat,
           data : BOOLEAN]

-----------------------------------------------------------------------------
_bounded(value) == IF value < 0 THEN 0 ELSE IF value > 1000 THEN 1000 ELSE value

_frequency_rating(cadence) ==
    [realtime |-> 1000, daily |-> 800, weekly |-> 600, monthly |-> 400, yearly |-> 100,
     other |-> 400][cadence]

HistoryRating(f) ==
    CASE f.history = "none"      -> 1000
      [] f.history = "limited"   -> 700
      [] f.history = "available" -> 100
      [] OTHER -> IF _frequency_rating(f.cadence) >= 800 THEN 700 ELSE 400

MachineRating(f) == [api |-> 1000, file |-> 700, manual |-> 200][f.access]

ephemeral_dimensions(f) ==
    [overwrite_risk     |-> _bounded((_frequency_rating(f.cadence) + HistoryRating(f)) \div 2),
     historical_absence |-> HistoryRating(f),
     refresh_velocity   |-> _frequency_rating(f.cadence),
     economic_state     |-> _bounded(200 + 160 * f.money),
     machine_capture    |-> MachineRating(f)]

StorageRating(f) ==
    CASE f.storage = "small"  -> 1000
      [] f.storage = "medium" -> 800
      [] f.storage = "large"  -> 400
      [] OTHER -> IF MachineRating(f) >= 700 THEN 900 ELSE 500

seed_dimensions(f) ==
    [past_reconstruction_impossibility |-> HistoryRating(f),
     direct_money_link       |-> _bounded(200 + 160 * f.money),
     multi_source_join_value |-> _bounded(200 + 125 * f.join),
     automated_collection    |-> MachineRating(f),
     update_frequency        |-> _frequency_rating(f.cadence),
     ground_truth_possible   |-> _bounded(300 + 140 * f.outcome),
     storage_operations_cost |-> StorageRating(f)]

\* The sum of rating * weight over the dimensions.
Weighted(weights, rating) ==
    MapThenSumSet(LAMBDA d : rating[d] * weights[d], DOMAIN weights)

\* round(total, 2) where a dimension has rating * weight / 10 points.
Total(weights, rating) == (Weighted(weights, rating) + 5) \div 10

pra_dimensions_dataset(status, f) ==
    [existing_payment_evidence |-> _bounded(200 + 140 * f.money),
     cost_substitution      |-> _bounded(200 + (35 * MachineRating(f)) \div 100 + 70 * f.money),
     join_amplification     |-> _bounded(200 + 125 * f.join),
     release_probability    |-> CASE status = "OPEN" -> 1000
                                  [] status = "OPEN_LINKED" -> 700
                                  [] OTHER -> 400,
     lead_time              |-> IF status = "OPEN" THEN 200 ELSE IF f.upcoming THEN 800 ELSE 500,
     data_time              |-> (Weighted(EPHEMERAL_WEIGHTS, ephemeral_dimensions(f)) + 50) \div 100,
     distribution_payer     |-> _bounded(200 + 125 * f.money),
     machine_processability |-> MachineRating(f),
     non_obviousness        |-> [low |-> 800, medium |-> 600, high |-> 300][f.usage]]

pra_dimensions_signal(n) ==
    [existing_payment_evidence |-> _bounded(300 + 100 * n.money),
     cost_substitution      |-> _bounded(300 + 80 * n.money),
     join_amplification     |-> _bounded(300 + 125 * n.join),
     release_probability    |-> [prespecification |-> 800, bid |-> 700, other |-> 400][n.stage],
     lead_time              |-> IF n.stage = "prespecification" THEN 800 ELSE 600,
     data_time              |-> IF n.data THEN 500 ELSE 300,
     distribution_payer     |-> _bounded(300 + 100 * n.money),
     machine_processability |-> 300,
     non_obviousness        |-> 800]

-----------------------------------------------------------------------------
Decisions       == {"COLLECT_NOW", "METADATA_ONLY", "REVIEW_RIGHTS_COST", "HOLD"}
Recommendations == {"DEEP_REVIEW", "MONITOR", "HOLD"}

rights_gate(rights) ==
    CASE rights = "ALLOW" -> "PASS" [] rights = "RESTRICTED" -> "FAIL" [] OTHER -> "REVIEW"

cost_gate(cost) ==
    CASE cost \in {"FREE", "NEAR_ZERO"} -> "PASS" [] cost = "PAID" -> "FAIL" [] OTHER -> "REVIEW"

\* Mutant: the threshold itself is not enough.
DecisionAbove(seed, rights, cost) ==
    CASE seed > 7500 /\ rights_gate(rights) = "PASS" /\ cost_gate(cost) = "PASS" -> "COLLECT_NOW"
      [] rights_gate(rights) = "FAIL" -> "METADATA_ONLY"
      [] OTHER -> "HOLD"

\* The accumulation gate of score_dataset.
Decision(seed, rights, cost) ==
    CASE seed >= 7500 /\ rights_gate(rights) = "PASS" /\ cost_gate(cost) = "PASS" -> "COLLECT_NOW"
      [] rights_gate(rights) = "FAIL" -> "METADATA_ONLY"
      [] seed >= 7500 /\ rights_gate(rights) # "FAIL"
            /\ "REVIEW" \in {rights_gate(rights), cost_gate(cost)} -> "REVIEW_RIGHTS_COST"
      [] OTHER -> "HOLD"

\* recommendation of score_signal.
Recommendation(pra) == IF pra >= 7000 THEN "DEEP_REVIEW" ELSE IF pra >= 4500 THEN "MONITOR" ELSE "HOLD"
=============================================================================
