------------------------------ MODULE RunBudget ------------------------------
(***************************************************************************)
(* The failure-storm budget of a context: how much healing and how many    *)
(* artifacts the failures of one run may cost                              *)
(* (consumeSelfHealingRunBudget, createSelfHealingRunBudgetController).    *)
(***************************************************************************)
EXTENDS Naturals

\* The counters of a controller, and whether it has warned.
Budget  == [healing : Nat, artifacts : Nat, warned : BOOLEAN]
NoFailures == [healing |-> 0, artifacts |-> 0, warned |-> FALSE]

Downgrade == {"none", "capture_only", "original_error_only"}

\* A failure in mode off asks no controller.
ConsumesBudget(config) == config.mode # "off"

\* The counters once one more failure is counted.
Consumed(b, config) ==
    LET healing == b.healing + 1  artifacts == b.artifacts + 1
    IN  [healing   |-> healing,
         artifacts |-> artifacts,
         warned    |-> b.warned \/ healing > config.maxHealing \/ artifacts > config.maxArtifacts]

\* What the failure that brought the counters to b may do.
Decision(b, config) ==
    IF config.budget = "warning_only" THEN "none"
    ELSE IF b.artifacts > config.maxArtifacts THEN "original_error_only"
    ELSE IF b.healing > config.maxHealing THEN "capture_only"
    ELSE "none"
=============================================================================
