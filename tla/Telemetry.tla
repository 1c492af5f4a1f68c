------------------------------- MODULE Telemetry -------------------------------
(***************************************************************************)
(* The process-wide telemetry sink (telemetry.ts) and the shutdown of an   *)
(* OpenTelemetry sink (otelTelemetry.ts).  initializeTelemetry and         *)
(* getTelemetry are synchronous; shutdownTelemetry awaits the sink and     *)
(* then forgets whatever sink is current by then.                          *)
(***************************************************************************)
EXTENDS Naturals

CONSTANTS
    MaxSinks,        \* bound on the OpenTelemetry SDKs the process starts
    Closer,          \* calls of shutdownTelemetry
    Settings         \* the environments to consider: AURORAFLOW_OBSERVABILITY_ENABLED, _STRICT

ASSUME TelemetryAssumption ==
    /\ MaxSinks \in Nat
    /\ Settings \subseteq [enabled : BOOLEAN, strict : BOOLEAN]

Sink   == 1 .. MaxSinks
NoSink == 0                \* currentTelemetry is null; no sink, for an exception
Noop   == MaxSinks + 1     \* the sink that records nothing

VARIABLES
    config,          \* what resolveTelemetryConfig reads from the environment
    current,         \* currentTelemetry
    sink,            \* sink[s]: what the SDK of s is doing
    closer,          \* closer[t]: the frame of a call of shutdownTelemetry
    \* observation only
    dropped,         \* <<s, t>>: when t returned, s was current and not shut down
    raced            \* shutdowns during which another one or an initialization began

telemetryVars == <<config, current, sink, closer, dropped, raced>>

Closing == {t \in Closer : closer[t].pc = "shutting"}

TelemetryInit ==
    /\ config \in Settings
    /\ current = NoSink
    /\ sink = [s \in Sink |-> "unused"]
    /\ closer = [t \in Closer |-> [pc |-> "idle", sink |-> NoSink]]
    /\ dropped = {}
    /\ raced = {}

-----------------------------------------------------------------------------

\* What initializeTelemetry may return, NoSink if it throws: with Strict it does
\* when the SDK does not start, without it falls back to a sink that does nothing.
CanInitialize(got) ==
    \/ got = Noop   /\ ~(config.enabled /\ config.strict)
    \/ got = NoSink /\ config.enabled /\ config.strict
    \/ /\ config.enabled
       /\ got \in Sink /\ sink[got] = "unused"
       /\ \A s \in Sink : s < got => sink[s] # "unused"

\* What getTelemetry may return.
CanGet(got) == IF current # NoSink THEN got = current ELSE CanInitialize(got)

\* getTelemetry returns `got`, or throws if that is NoSink.
GetTelemetry(got) ==
    /\ CanGet(got)
    /\ current' = got
    /\ sink' = [s \in Sink |-> IF s = got /\ s # current THEN "recording" ELSE sink[s]]
    /\ raced' = IF current = NoSink THEN raced \cup Closing ELSE raced
    /\ UNCHANGED <<config, dropped>>

\* initializeTelemetry called by the consumer: a sink that was current is just
\* replaced.
Initialize ==
    /\ \E got \in Sink \cup {Noop, NoSink} :
          /\ CanInitialize(got)
          /\ current' = IF got = NoSink THEN current ELSE got
          /\ sink' = [s \in Sink |-> IF s = got THEN "recording" ELSE sink[s]]
    /\ raced' = raced \cup Closing
    /\ UNCHANGED <<config, closer, dropped>>

\* shutdownTelemetry up to its await.  Without a current sink it makes one.
Shutdown(t) ==
    /\ closer[t].pc = "idle"
    /\ \E got \in Sink \cup {Noop, NoSink} :
          /\ CanGet(got)
          /\ current' = got
          /\ sink' = [s \in Sink |-> IF s = got /\ sink[s] \in {"unused", "recording"}
                                         THEN "flushing" ELSE sink[s]]
          /\ closer' = [closer EXCEPT ![t] =
                IF got = NoSink THEN [pc |-> "failed", sink |-> NoSink]
                                ELSE [pc |-> "shutting", sink |-> got]]
    /\ raced' = IF Closing = {} THEN raced ELSE raced \cup Closing \cup {t}
    /\ UNCHANGED <<config, dropped>>

\* The SDK has exported what it held, whether or not anybody still waits for it.
Flushed(s) ==
    /\ sink[s] = "flushing"
    /\ sink' = [sink EXCEPT ![s] = "down"]
    /\ UNCHANGED <<config, current, closer, dropped, raced>>

\* The await of shutdownTelemetry ends: the sink is down, or the time-out or an
\* error of the exporter came first, which is an error of the call under Strict.
ShutdownSettles(t, failed) ==
    /\ closer[t].pc = "shutting"
    /\ IF failed THEN closer[t].sink # Noop
                 ELSE closer[t].sink \in Sink => sink[closer[t].sink] = "down"
    /\ closer' = [closer EXCEPT ![t].pc = IF failed /\ config.strict THEN "failed" ELSE "returned"]
    /\ dropped' = IF current \in Sink /\ sink[current] = "recording"
                      THEN dropped \cup {<<current, t>>} ELSE dropped
    /\ UNCHANGED <<config, sink, raced>>

\* Mutant of ShutdownReturns: a shutdown that fails leaves its sink current.
ShutdownReturns_Bug(t) ==
    \E failed \in BOOLEAN :
        ShutdownSettles(t, failed) /\ current' = IF failed THEN current ELSE NoSink

\* `finally` sets currentTelemetry to null, failed or not.
ShutdownReturns(t) ==
    \E failed \in BOOLEAN : ShutdownSettles(t, failed) /\ current' = NoSink

-----------------------------------------------------------------------------

(***************************************************************************)
(* getTelemetry hands out no sink that was shut down, except while the     *)
(* shutdown is still returning; and a shutdown that nothing raced forgets  *)
(* no sink that was still recording, so a consumer that shuts telemetry    *)
(* down once, at the end, loses nothing.                                   *)
(***************************************************************************)
SinksAreAccountedFor ==
    /\ current \in Sink /\ sink[current] = "down" => Closing # {}
    /\ \A d \in dropped : d[2] \in raced
    /\ \A s \in Sink : sink[s] = "flushing" /\ s = current => Closing # {}
=============================================================================
