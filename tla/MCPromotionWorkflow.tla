------------------------ MODULE MCPromotionWorkflow ------------------------
(* Values of PromotionWorkflow's constants for TLC. *)
EXTENDS PromotionWorkflow, TLC

CONSTANTS s1, l0, l1

\* All promotions compete for one selector and propose one locator.
OneSelector == [p \in Promotion |-> s1]
OneProposal == [p \in Promotion |-> l1]
SeededRecord == [s \in {s1} |-> [version |-> 1, locator |-> l0, confidence |-> "seeded"]]

Interchangeable == Permutations(Reviewer) \cup Permutations(Promotion)
=============================================================================
