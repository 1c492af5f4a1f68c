------------------------------ MODULE RedisClient ------------------------------
(***************************************************************************)
(* One RedisClient of a process (redisClient.ts): the driver it holds, the *)
(* connection attempt its callers share, the loop that repeats an          *)
(* operation, and disconnects that arrive in the middle.                   *)
(*                                                                         *)
(* Every operation asks for the telemetry sink before its first attempt,   *)
(* so an operation may start telemetry, and fail if that throws.  Callers  *)
(* are asynchronous functions of one event loop: an action is a stretch    *)
(* between two awaits, and a promise reaction runs before any input or     *)
(* timer (Quiet).                                                          *)
(***************************************************************************)
EXTENDS Telemetry

CONSTANTS
    Caller,          \* calls into the client, one each
    Kinds,           \* Kinds[c]: what the call of c may be
    RetryLimits,     \* the values of AURORAFLOW_REDIS_MAX_RETRIES to consider
    MaxDrivers,      \* bound on the drivers created
    MaxFaults        \* bound on connections refused, lost or given up and lost replies

ASSUME RedisClientAssumption ==
    /\ RetryLimits \cup {MaxDrivers, MaxFaults} \subseteq Nat
    /\ Kinds \in [Caller -> SUBSET {"connect", "command", "scan", "disconnect"}]

Driver   == 1 .. MaxDrivers
NoDriver == 0

VARIABLES
    maxRetries,      \* of the configuration the client was made with
    client,          \* the driver this.client names
    driver,          \* driver[d]: the connection of a node-redis client
    dial,            \* connectPromise and the loop behind it
    call,            \* call[c]: the frame of a call
    \* bounds and observation only
    faults,
    effects,         \* effects[c]: how often the operation of c reached the server
    upset            \* calls during which a disconnect began, their driver or telemetry failed

redisVars == <<maxRetries, client, driver, dial, call, faults, effects, upset>>
vars == <<redisVars, telemetryVars>>

Idle == [kind |-> "none", pc |-> "idle", driver |-> NoDriver, attempt |-> 0, sent |-> FALSE]
NoDial == [pc |-> "none", owner |-> {}, attempt |-> 0]

Init ==
    /\ maxRetries \in RetryLimits
    /\ client = NoDriver
    /\ driver = [d \in Driver |-> "unused"]
    /\ dial = NoDial
    /\ call = [c \in Caller |-> Idle]
    /\ faults = 0
    /\ effects = [c \in Caller |-> 0]
    /\ upset = {}
    /\ TelemetryInit

IsOpen(d) == d # NoDriver /\ driver[d] \in {"dialling", "open"}
Settled   == {"ok", "connectionError", "unavailable", "operationError",
              "telemetryError", "scanError", "quitError"}
Running   == {c \in Caller : call[c].pc \notin Settled \cup {"idle"}}

\* No promise reaction is waiting to run.
Quiet == \A c \in Caller : call[c].pc \notin {"connected", "refused"}
Fault == faults < MaxFaults /\ faults' = faults + 1

-----------------------------------------------------------------------------
\* The retry loop of a command (executeWithRetry).

\* Its start, on the driver the caller resolved: `retry` keeps that driver.
StartOperation(c, frame, d) ==
    \E got \in Sink \cup {Noop, NoSink} :
        /\ GetTelemetry(got)
        /\ call' = [call EXCEPT ![c] =
              IF got = NoSink THEN [frame EXCEPT !.pc = "telemetryError"]
              ELSE [frame EXCEPT !.pc = "attempt", !.driver = d, !.attempt = 1,
                                 !.sent = IsOpen(d)]]
        /\ upset' = IF got = NoSink THEN upset \cup {c} ELSE upset
        /\ UNCHANGED closer

\* Mutants of Failed: one attempt too few, and no end to them.
Failed_Bug(frame) ==
    IF frame.attempt >= maxRetries THEN [frame EXCEPT !.pc = "operationError"]
                                   ELSE [frame EXCEPT !.pc = "backoff"]
Failed_Bug2(frame) ==
    [frame EXCEPT !.pc = "backoff", !.attempt = IF @ > maxRetries THEN maxRetries ELSE @]

\* An attempt failed.
Failed(frame) ==
    IF frame.attempt > maxRetries THEN [frame EXCEPT !.pc = "operationError"]
                                  ELSE [frame EXCEPT !.pc = "backoff"]

\* The driver runs what it was sent before it closed.
Reachable(c) == call[c].sent /\ driver[call[c].driver] \in {"open", "closing"}

AttemptSucceeds(c) ==
    /\ Quiet
    /\ call[c].pc = "attempt" /\ Reachable(c)
    /\ effects' = [effects EXCEPT ![c] = @ + 1]
    /\ call' = [call EXCEPT ![c].pc = IF call[c].kind = "scan" THEN "scanning" ELSE "ok"]
    /\ UNCHANGED <<client, driver, dial, faults, upset, telemetryVars>>

\* The server ran it and the reply was lost, or it never got there.
AttemptFails(c) ==
    /\ Quiet
    /\ call[c].pc = "attempt"
    /\ \/ /\ Reachable(c) /\ Fault
          /\ effects' \in {effects, [effects EXCEPT ![c] = @ + 1]}
       \/ /\ driver[call[c].driver] = "closed" \/ ~call[c].sent
          /\ UNCHANGED <<faults, effects>>
    /\ call' = [call EXCEPT ![c] = Failed(call[c])]
    /\ UNCHANGED <<client, driver, dial, upset, telemetryVars>>

\* The sleep is over: the same driver again.
AttemptAgain(c) ==
    /\ Quiet
    /\ call[c].pc = "backoff"
    /\ call' = [call EXCEPT ![c].pc = "attempt", ![c].attempt = @ + 1,
                            ![c].sent = IsOpen(call[c].driver)]
    /\ UNCHANGED <<client, driver, dial, faults, effects, upset, telemetryVars>>

\* The pages of a scan are read outside the loop: the first that fails ends it.
ScanEnds(c) ==
    /\ Quiet
    /\ call[c].pc = "scanning"
    /\ \/ /\ driver[call[c].driver] \in {"open", "closing"}
          /\ call' = [call EXCEPT ![c].pc = "ok"]
          /\ UNCHANGED <<faults, upset>>
       \/ /\ IF driver[call[c].driver] = "closed" THEN UNCHANGED faults ELSE Fault
          /\ call' = [call EXCEPT ![c].pc = "scanError"]
          /\ upset' = upset \cup {c}
    /\ UNCHANGED <<client, driver, dial, effects, telemetryVars>>

-----------------------------------------------------------------------------
\* connect.

\* connect of a client that is not open: it joins the attempt under way, or makes
\* a driver and starts one, which fails at once if telemetry throws.
Connect(c, frame) ==
    \/ /\ dial.pc # "none"
       /\ call' = [call EXCEPT ![c] = [frame EXCEPT !.pc =
                      CASE dial.pc = "ok"     -> "connected"
                        [] dial.pc = "failed" -> "refused"
                        [] OTHER              -> "connecting"]]
       /\ upset' = IF dial.attempt = 0 \/ client = NoDriver THEN upset \cup {c} ELSE upset
       /\ UNCHANGED <<client, driver, dial, config, current, sink, dropped, raced>>
    \/ /\ dial.pc = "none"
       /\ \E d \in Driver, got \in Sink \cup {Noop, NoSink} :
             /\ driver[d] = "unused" /\ \A e \in Driver : e < d => driver[e] # "unused"
             /\ GetTelemetry(got)
             /\ \/ /\ got = NoSink
                   /\ client' = NoDriver
                   /\ driver' = [driver EXCEPT ![d] = "closed"]
                   /\ dial' = [pc |-> "failed", owner |-> {c}, attempt |-> 0]
                   /\ call' = [call EXCEPT ![c] = [frame EXCEPT !.pc = "refused"]]
                   /\ upset' = upset \cup {c}
                \/ /\ got # NoSink
                   /\ client' = d
                   /\ driver' = [driver EXCEPT ![d] = "dialling"]
                   /\ dial' = [pc |-> "dialling", owner |-> {c}, attempt |-> 1]
                   /\ call' = [call EXCEPT ![c] = [frame EXCEPT !.pc = "connecting"]]
                   /\ UNCHANGED upset

\* The promise of the attempt settles: everybody who awaits it is woken.
DialSettles(outcome) ==
    /\ dial' = [dial EXCEPT !.pc = outcome]
    /\ call' = [c \in Caller |->
          IF call[c].pc = "connecting"
          THEN [call[c] EXCEPT !.pc = IF outcome = "ok" THEN "connected" ELSE "refused"]
          ELSE call[c]]

DialSucceeds ==
    /\ Quiet
    /\ dial.pc = "dialling"
    /\ driver' = [d \in Driver |-> IF driver[d] = "dialling" THEN "open" ELSE driver[d]]
    /\ DialSettles("ok")
    /\ UNCHANGED <<client, faults, effects, upset, telemetryVars>>

\* The connection is refused, or the driver was closed while it dialled.
DialFails ==
    /\ Quiet
    /\ dial.pc = "dialling"
    /\ IF \E d \in Driver : driver[d] = "dialling" THEN Fault ELSE UNCHANGED faults
    /\ driver' = [d \in Driver |-> IF driver[d] = "dialling" THEN "closed" ELSE driver[d]]
    /\ IF dial.attempt > maxRetries
       THEN /\ DialSettles("failed")
            /\ client' = NoDriver
       ELSE /\ dial' = [dial EXCEPT !.pc = "backoff"]
            /\ UNCHANGED <<call, client>>
    /\ upset' = upset \cup {c \in Running : call[c].driver # NoDriver}
    /\ UNCHANGED <<effects, telemetryVars>>

\* The sleep is over.  `this.client?.connect()`: if a disconnect took the client
\* away, there is nothing to connect and the attempt succeeds.
DialAgain ==
    /\ Quiet
    /\ dial.pc = "backoff"
    /\ \/ /\ client # NoDriver
          /\ driver' = [driver EXCEPT ![client] = "dialling"]
          /\ dial' = [dial EXCEPT !.pc = "dialling", !.attempt = @ + 1]
          /\ UNCHANGED call
       \/ /\ client = NoDriver
          /\ DialSettles("ok")
          /\ UNCHANGED driver
    /\ UNCHANGED <<client, faults, effects, upset, telemetryVars>>

\* Mutant of Resume: a command does not look whether there is a client.
Resume_Bug(c) ==
    /\ call[c].pc \in {"connected", "refused"}
    /\ dial.pc \in {"ok", "failed"} => c \in dial.owner
    /\ dial' = IF c \in dial.owner THEN NoDial ELSE dial
    /\ \/ /\ call[c].pc = "refused"
          /\ call' = [call EXCEPT ![c].pc = "connectionError"]
          /\ UNCHANGED <<upset, telemetryVars>>
       \/ /\ call[c].pc = "connected"
          /\ call[c].kind = "connect" \/ client = NoDriver
          /\ call' = [call EXCEPT ![c].pc = "ok"]
          /\ UNCHANGED <<upset, telemetryVars>>
       \/ /\ call[c].pc = "connected" /\ call[c].kind # "connect"
          /\ client # NoDriver
          /\ StartOperation(c, call[c], client)
    /\ UNCHANGED <<client, driver, faults, effects>>

\* A caller resumes after `await connectPromise`; the one that started the attempt
\* comes first and sets connectPromise to null.
Resume(c) ==
    /\ call[c].pc \in {"connected", "refused"}
    /\ dial.pc \in {"ok", "failed"} => c \in dial.owner
    /\ dial' = IF c \in dial.owner THEN NoDial ELSE dial
    /\ \/ /\ call[c].pc = "refused"
          /\ call' = [call EXCEPT ![c].pc = "connectionError"]
          /\ UNCHANGED <<upset, telemetryVars>>
       \/ /\ call[c].pc = "connected" /\ call[c].kind = "connect"
          /\ call' = [call EXCEPT ![c].pc = "ok"]
          /\ UNCHANGED <<upset, telemetryVars>>
       \/ /\ call[c].pc = "connected" /\ call[c].kind # "connect"
          /\ client = NoDriver
          /\ call' = [call EXCEPT ![c].pc = "unavailable"]
          /\ UNCHANGED <<upset, telemetryVars>>
       \/ /\ call[c].pc = "connected" /\ call[c].kind # "connect"
          /\ client # NoDriver
          /\ StartOperation(c, call[c], client)
    /\ UNCHANGED <<client, driver, faults, effects>>

-----------------------------------------------------------------------------
\* The calls.

Begin(c, kind) == call[c].pc = "idle" /\ kind \in Kinds[c]

\* connect, and executeCommand of a command or a scan.
BeginUse(c, kind) ==
    /\ Begin(c, kind) /\ kind # "disconnect"
    /\ LET frame == [call[c] EXCEPT !.kind = kind] IN
          \/ /\ IsOpen(client) /\ kind = "connect"
             /\ call' = [call EXCEPT ![c] = [frame EXCEPT !.pc = "ok"]]
             /\ UNCHANGED <<client, driver, dial, upset, telemetryVars>>
          \/ /\ IsOpen(client) /\ kind # "connect"
             /\ StartOperation(c, frame, client)
             /\ UNCHANGED <<client, driver, dial>>
          \/ /\ ~IsOpen(client)
             /\ Connect(c, frame)
             /\ UNCHANGED closer
    /\ UNCHANGED <<faults, effects>>

\* Mutant of Disconnect: a driver that is not ready is not told to quit.
Disconnect_Bug(c) ==
    /\ Begin(c, "disconnect")
    /\ LET frame == [call[c] EXCEPT !.kind = "disconnect", !.driver = client] IN
          IF IsOpen(client) /\ driver[client] = "open"
          THEN /\ driver' = [driver EXCEPT ![client] = "closing"]
               /\ call' = [call EXCEPT ![c] = [frame EXCEPT !.pc = "quitting"]]
          ELSE /\ call' = [call EXCEPT ![c] = [frame EXCEPT !.pc = "ok"]]
               /\ UNCHANGED driver
    /\ client' = NoDriver
    /\ upset' = IF client = NoDriver THEN upset ELSE upset \cup Running
    /\ UNCHANGED <<dial, faults, effects, telemetryVars>>

\* disconnect, up to its first await.
Disconnect(c) ==
    /\ Begin(c, "disconnect")
    /\ LET frame == [call[c] EXCEPT !.kind = "disconnect", !.driver = client] IN
          IF IsOpen(client)
          THEN /\ driver' = [driver EXCEPT ![client] = "closing"]
               /\ call' = [call EXCEPT ![c] = [frame EXCEPT !.pc = "quitting"]]
          ELSE /\ call' = [call EXCEPT ![c] = [frame EXCEPT !.pc = "ok"]]
               /\ UNCHANGED driver
    /\ client' = NoDriver
    /\ upset' = IF client = NoDriver THEN upset ELSE upset \cup Running
    /\ UNCHANGED <<dial, faults, effects, telemetryVars>>

\* quit answers, or fails and driver.disconnect() follows, which may throw as well.
QuitEnds(c) ==
    /\ Quiet
    /\ call[c].pc = "quitting"
    /\ driver' = [driver EXCEPT ![call[c].driver] = "closed"]
    /\ \/ call' = [call EXCEPT ![c].pc = "ok"] /\ UNCHANGED faults
       \/ call' = [call EXCEPT ![c].pc = "quitError"] /\ Fault
    /\ UNCHANGED <<client, dial, effects, upset, telemetryVars>>

\* The driver gives up reconnecting (reconnectStrategy returns false).
DriverDies(d) ==
    /\ Quiet
    /\ driver[d] = "open" /\ Fault
    /\ driver' = [driver EXCEPT ![d] = "closed"]
    /\ upset' = upset \cup {c \in Running : call[c].driver = d}
    /\ UNCHANGED <<client, dial, call, effects, telemetryVars>>

\* Telemetry, called by the consumer.
ConsumerTelemetry ==
    /\ \/ Initialize
       \/ \E t \in Closer : Shutdown(t)
    /\ UNCHANGED redisVars
TelemetryProgress ==
    /\ Quiet
    /\ \/ \E s \in Sink : Flushed(s)
       \/ \E t \in Closer : ShutdownReturns(t)
    /\ UNCHANGED redisVars

\* What goes on without anybody calling in: replies, timers and promise reactions.
CallProgress(c) ==
    /\ \/ AttemptSucceeds(c) \/ AttemptFails(c) \/ AttemptAgain(c) \/ ScanEnds(c)
       \/ Resume(c) \/ QuitEnds(c)
    /\ UNCHANGED maxRetries
DialProgress == (DialSucceeds \/ DialFails \/ DialAgain) /\ UNCHANGED maxRetries

Next ==
    \/ \E c \in Caller :
          \/ \E kind \in Kinds[c] : BeginUse(c, kind) /\ UNCHANGED maxRetries
          \/ Disconnect(c) /\ UNCHANGED maxRetries
          \/ CallProgress(c)
    \/ DialProgress
    \/ \E d \in Driver : DriverDies(d) /\ UNCHANGED maxRetries
    \/ ConsumerTelemetry
    \/ TelemetryProgress

Spec == Init /\ [][Next]_vars
FairSpec ==
    /\ Spec
    /\ \A c \in Caller : WF_vars(CallProgress(c))
    /\ WF_vars(DialProgress)
    /\ WF_vars(TelemetryProgress)

-----------------------------------------------------------------------------

(***************************************************************************)
(* The client holds the only driver that is connected or connecting,       *)
(* whatever calls overlap, so disconnect() closes all there is ("explicit  *)
(* connection lifecycle").                                                 *)
(***************************************************************************)
NoDriverLeaks == \A d \in Driver : IsOpen(d) => d = client

(***************************************************************************)
(* A call whose driver was not taken away (by a disconnect during it or    *)
(* during the connection attempt it joined, by dying, or by failing to     *)
(* connect while the call already used it) and that no telemetry error hit *)
(* fails only after more faults than there are retries, whoever else       *)
(* shares the connection attempt with it.                                  *)
(***************************************************************************)
RetriesMaskFaults ==
    \A c \in Caller \ upset :
        /\ call[c].pc \in {"connectionError", "unavailable", "operationError"}
              => faults > maxRetries
        /\ call[c].pc # "telemetryError"

(***************************************************************************)
(* Commands and scans are at-least-once operations: an answer "ok" has an  *)
(* effect behind it, and nothing takes effect after the answer.            *)
(***************************************************************************)
Operations == INSTANCE AtLeastOnceCall WITH
    stage <- [c \in Caller |->
        IF call[c].kind \notin {"command", "scan"} THEN "idle"
        ELSE IF call[c].pc = "ok" THEN "ok"
        ELSE IF call[c].pc \in Settled THEN "failed" ELSE "running"]
IsAtLeastOnce == Operations!Spec

(***************************************************************************)
(* Every call settles, and so does every shutdown of telemetry, whatever   *)
(* fails and whoever disconnects.                                          *)
(***************************************************************************)
CallsSettle ==
    /\ \A c \in Caller : c \in Running ~> call[c].pc \in Settled
    /\ \A t \in Closer : closer[t].pc = "shutting" ~> closer[t].pc \in {"returned", "failed"}
=============================================================================
