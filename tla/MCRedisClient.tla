----------------------------- MODULE MCRedisClient -----------------------------
(* Values of RedisClient's constants for TLC. *)
EXTENDS RedisClient, TLC

CONSTANTS c1, c2, c3

SomeKinds == (c1 :> {"connect", "command"}) @@ (c2 :> {"scan"}) @@ (c3 :> {"disconnect"})

\* Telemetry on, with errors forgiven (a sink that does nothing takes its place,
\* as when telemetry is off) or not.
Switched == {[enabled |-> TRUE, strict |-> FALSE], [enabled |-> TRUE, strict |-> TRUE]}
=============================================================================
