---------------------------- MODULE AtLeastOnceCall ----------------------------
(***************************************************************************)
(* What a client of the store may count on: an operation takes effect any  *)
(* number of times while it is under way and never after it has answered,  *)
(* and it answers "ok" only if it took effect (executeWithRetry in         *)
(* redisClient.ts, as its callers see it).                                 *)
(***************************************************************************)
EXTENDS Naturals

CONSTANT Caller

VARIABLES
    stage,       \* "idle", "running", "ok" or "failed"
    effects      \* how often the operation took effect

vars == <<stage, effects>>

Init ==
    /\ stage = [c \in Caller |-> "idle"]
    /\ effects = [c \in Caller |-> 0]

Begin(c) ==
    /\ stage[c] = "idle"
    /\ stage' \in {[stage EXCEPT ![c] = "running"], [stage EXCEPT ![c] = "failed"]}
    /\ effects' = effects

\* The effect and the answer may be one step; only "ok" needs an effect.
Run(c) ==
    /\ stage[c] = "running"
    /\ effects' \in {effects, [effects EXCEPT ![c] = @ + 1]}
    /\ \E next \in {"running", "ok", "failed"} :
          /\ next = "ok" => effects'[c] > 0
          /\ stage' = [stage EXCEPT ![c] = next]

Next == \E c \in Caller : Begin(c) \/ Run(c)

Spec == Init /\ [][Next]_vars
=============================================================================
