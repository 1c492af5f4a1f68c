---------------------------- MODULE MCPageActions ----------------------------
(* Values of PageActions' constants for TLC. *)
EXTENDS PageActions

Guarded == [mode |-> "guarded", budget |-> "enforce", maxHealing |-> 1, maxArtifacts |-> 2,
            screenshot |-> TRUE, sat |-> TRUE, registry |-> "write_pending", runtime |-> TRUE,
            allowed |-> {"click", "type", "read", "wait"}, restricted |-> FALSE,
            broken |-> "none"]

\* Budgets of either order, an allow-list, no registry, suggestions only,
\* healing off, and settings that cannot be resolved.
SomeConfigs == {
    Guarded,
    [Guarded EXCEPT !.maxHealing = 2, !.maxArtifacts = 1, !.screenshot = FALSE,
                    !.registry = "read", !.restricted = TRUE],
    [Guarded EXCEPT !.budget = "warning_only", !.runtime = FALSE, !.sat = FALSE],
    [Guarded EXCEPT !.mode = "suggest", !.maxHealing = 0, !.maxArtifacts = 1],
    [Guarded EXCEPT !.mode = "off"],
    [Guarded EXCEPT !.broken = "registry"],
    [Guarded EXCEPT !.broken = "config"]}

SomeOperations == {"open", "getTitle", "click"}
=============================================================================
