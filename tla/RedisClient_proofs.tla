-------------------------- MODULE RedisClient_proofs --------------------------
(***************************************************************************)
(* Proofs about RedisClient and the telemetry it uses, for any callers,    *)
(* retry limits, drivers, faults, sinks and shutdowns.                     *)
(***************************************************************************)
EXTENDS RedisClient, TLAPS

-----------------------------------------------------------------------------
(* Telemetry.                                                              *)

Closers == [pc : {"idle", "shutting", "returned", "failed"}, sink : Sink \cup {Noop, NoSink}]

TelemetryTypeOK ==
    /\ config \in Settings
    /\ current \in Sink \cup {Noop, NoSink}
    /\ sink \in [Sink -> {"unused", "recording", "flushing", "down"}]
    /\ closer \in [Closer -> Closers]

\* A shutdown that nothing raced is the only one, and closes what is current.
ClosesWhatIsCurrent ==
    \A t \in Closing \ raced :
        /\ Closing = {t}
        /\ current \in Sink => sink[current] \in {"flushing", "down"}

TelemetryInv == TelemetryTypeOK /\ ClosesWhatIsCurrent /\ SinksAreAccountedFor

\* What a step of the client or of a consumer may do to telemetry.
TelemetryStep ==
    \/ \E got \in Sink \cup {Noop, NoSink} : GetTelemetry(got) /\ UNCHANGED closer
    \/ Initialize
    \/ \E t \in Closer : Shutdown(t) \/ ShutdownReturns(t)
    \/ \E s \in Sink : Flushed(s)
    \/ UNCHANGED telemetryVars

LEMMA TelemetrySteps == [Next]_vars => TelemetryStep
<1>. SUFFICES ASSUME [Next]_vars PROVE TelemetryStep
  OBVIOUS
<1>1. ASSUME NEW c \in Caller, NEW kind \in Kinds[c], BeginUse(c, kind) PROVE TelemetryStep
  BY <1>1 DEF BeginUse, StartOperation, Connect, TelemetryStep, telemetryVars
<1>2. ASSUME NEW c \in Caller, Disconnect(c) PROVE TelemetryStep
  BY <1>2 DEF Disconnect, TelemetryStep
<1>3. ASSUME NEW c \in Caller, CallProgress(c) PROVE TelemetryStep
  <2>1. CASE Resume(c)
    BY <2>1 DEF Resume, StartOperation, TelemetryStep
  <2>2. CASE AttemptSucceeds(c) \/ AttemptFails(c) \/ AttemptAgain(c) \/ ScanEnds(c) \/ QuitEnds(c)
    BY <2>2 DEF AttemptSucceeds, AttemptFails, AttemptAgain, ScanEnds, QuitEnds, TelemetryStep
  <2>. QED BY <1>3, <2>1, <2>2 DEF CallProgress
<1>4. ASSUME DialProgress PROVE TelemetryStep
  BY <1>4 DEF DialProgress, DialSucceeds, DialFails, DialAgain, TelemetryStep
<1>5. ASSUME NEW d \in Driver, DriverDies(d) PROVE TelemetryStep
  BY <1>5 DEF DriverDies, TelemetryStep
<1>6. ASSUME ConsumerTelemetry \/ TelemetryProgress PROVE TelemetryStep
  BY <1>6 DEF ConsumerTelemetry, TelemetryProgress, TelemetryStep
<1>7. CASE UNCHANGED vars
  BY <1>7 DEF vars, TelemetryStep
<1>. QED BY <1>1, <1>2, <1>3, <1>4, <1>5, <1>6, <1>7 DEF Next

LEMMA SinkNames == NoSink \notin Sink /\ Noop \notin Sink /\ Noop # NoSink
BY TelemetryAssumption DEF Sink, NoSink, Noop

LEMMA TelemetryInvStep == TelemetryInv /\ TelemetryStep => TelemetryInv'
<1>. SUFFICES ASSUME TelemetryInv, TelemetryStep PROVE TelemetryInv'
  OBVIOUS
<1>. USE DEF TelemetryInv
<1>1. ASSUME NEW got \in Sink \cup {Noop, NoSink}, GetTelemetry(got), UNCHANGED closer
      PROVE  TelemetryInv'
  <2>1. TelemetryTypeOK'
    BY <1>1 DEF GetTelemetry, TelemetryTypeOK
  <2>2. Closing' = Closing
    BY <1>1 DEF Closing
  <2>3. CASE current = NoSink
    <3>1. got \in Sink => sink'[got] = "recording"
      BY <1>1, <2>3, SinkNames DEF GetTelemetry
    <3>2. current' = got /\ raced' = raced \cup Closing /\ dropped' = dropped
      BY <1>1, <2>3 DEF GetTelemetry
    <3>3. ClosesWhatIsCurrent'
      BY <2>2, <3>2 DEF ClosesWhatIsCurrent
    <3>4. SinksAreAccountedFor'
      BY <2>2, <3>1, <3>2 DEF SinksAreAccountedFor
    <3>. QED BY <2>1, <3>3, <3>4
  <2>4. CASE current # NoSink
    <3>1. got = current /\ current' = current /\ raced' = raced /\ dropped' = dropped
      BY <1>1, <2>4 DEF GetTelemetry, CanGet
    <3>2. sink' = sink
      BY <1>1, <3>1 DEF GetTelemetry, TelemetryTypeOK
    <3>3. ClosesWhatIsCurrent' /\ SinksAreAccountedFor'
      BY <2>2, <3>1, <3>2 DEF ClosesWhatIsCurrent, SinksAreAccountedFor
    <3>. QED BY <2>1, <3>3
  <2>. QED BY <2>3, <2>4
<1>2. ASSUME Initialize PROVE TelemetryInv'
  <2>1. PICK got \in Sink \cup {Noop, NoSink} :
          /\ CanInitialize(got)
          /\ current' = IF got = NoSink THEN current ELSE got
          /\ sink' = [s \in Sink |-> IF s = got THEN "recording" ELSE sink[s]]
    BY <1>2 DEF Initialize
  <2>2. raced' = raced \cup Closing /\ UNCHANGED <<config, closer, dropped>> /\ Closing' = Closing
    BY <1>2 DEF Initialize, Closing
  <2>3. TelemetryTypeOK'
    BY <2>1, <2>2 DEF TelemetryTypeOK
  <2>4. ClosesWhatIsCurrent'
    BY <2>2 DEF ClosesWhatIsCurrent
  <2>5. CASE got = NoSink
    <3>1. current' = current /\ sink' = sink
      BY <2>1, <2>5, SinkNames DEF TelemetryTypeOK
    <3>. QED BY <2>2, <2>3, <2>4, <3>1 DEF SinksAreAccountedFor
  <2>6. CASE got # NoSink
    <3>1. current' = got /\ (got \in Sink => sink'[got] = "recording")
      BY <2>1, <2>6
    <3>. QED BY <2>2, <2>3, <2>4, <3>1 DEF SinksAreAccountedFor
  <2>. QED BY <2>5, <2>6
<1>3. ASSUME NEW t \in Closer, Shutdown(t) PROVE TelemetryInv'
  <2>1. PICK got \in Sink \cup {Noop, NoSink} :
          /\ CanGet(got)
          /\ current' = got
          /\ sink' = [s \in Sink |-> IF s = got /\ sink[s] \in {"unused", "recording"}
                                         THEN "flushing" ELSE sink[s]]
          /\ closer' = [closer EXCEPT ![t] =
                IF got = NoSink THEN [pc |-> "failed", sink |-> NoSink]
                                ELSE [pc |-> "shutting", sink |-> got]]
    BY <1>3 DEF Shutdown
  <2>2. /\ closer[t].pc = "idle" /\ UNCHANGED <<config, dropped>>
        /\ raced' = IF Closing = {} THEN raced ELSE raced \cup Closing \cup {t}
    BY <1>3 DEF Shutdown
  <2>3. TelemetryTypeOK'
    <3>1. (IF got = NoSink THEN [pc |-> "failed", sink |-> NoSink]
                           ELSE [pc |-> "shutting", sink |-> got]) \in Closers
      BY DEF Closers
    <3>. QED BY <2>1, <2>2, <3>1 DEF TelemetryTypeOK
  <2>4. Closing' = IF got = NoSink THEN Closing ELSE Closing \cup {t}
    BY <2>1, <2>2 DEF Closing, TelemetryTypeOK
  <2>5. got \in Sink => sink'[got] \in {"flushing", "down"}
    BY <2>1 DEF TelemetryTypeOK
  <2>6. ClosesWhatIsCurrent'
    <3>1. CASE Closing = {}
      BY <2>1, <2>4, <2>5, <3>1 DEF ClosesWhatIsCurrent
    <3>2. CASE Closing # {}
      BY <2>2, <2>4, <3>2 DEF ClosesWhatIsCurrent
    <3>. QED BY <3>1, <3>2
  <2>7. SinksAreAccountedFor'
    <3>1. got \in Sink => Closing' # {}
      BY <2>4, SinkNames
    <3>2. \A d \in dropped' : d[2] \in raced'
      BY <2>2 DEF SinksAreAccountedFor
    <3>. QED BY <2>1, <3>1, <3>2 DEF SinksAreAccountedFor
  <2>. QED BY <2>3, <2>6, <2>7
<1>4. ASSUME NEW t \in Closer, ShutdownReturns(t) PROVE TelemetryInv'
  <2>1. PICK failed \in BOOLEAN : ShutdownSettles(t, failed) /\ current' = NoSink
    BY <1>4 DEF ShutdownReturns
  <2>2. /\ t \in Closing /\ UNCHANGED <<config, sink, raced>>
        /\ closer' = [closer EXCEPT ![t].pc = IF failed /\ config.strict THEN "failed" ELSE "returned"]
        /\ dropped' = IF current \in Sink /\ sink[current] = "recording"
                          THEN dropped \cup {<<current, t>>} ELSE dropped
    BY <2>1 DEF ShutdownSettles, Closing
  <2>3. TelemetryTypeOK'
    BY <2>1, <2>2 DEF TelemetryTypeOK, Closers
  <2>4. Closing' = Closing \ {t}
    BY <2>2 DEF Closing, TelemetryTypeOK, Closers
  <2>5. ClosesWhatIsCurrent'
    BY <2>2, <2>4 DEF ClosesWhatIsCurrent
  <2>6. \A d \in dropped' : d[2] \in raced'
    <3>1. CASE current \in Sink /\ sink[current] = "recording"
      <4>1. t \in raced
        BY <2>2, <3>1 DEF ClosesWhatIsCurrent
      <4>. QED BY <2>2, <3>1, <4>1 DEF SinksAreAccountedFor
    <3>2. CASE ~(current \in Sink /\ sink[current] = "recording")
      BY <2>2, <3>2 DEF SinksAreAccountedFor
    <3>. QED BY <3>1, <3>2
  <2>7. SinksAreAccountedFor'
    BY <2>1, <2>6, SinkNames DEF SinksAreAccountedFor
  <2>. QED BY <2>3, <2>5, <2>7
<1>5. ASSUME NEW s \in Sink, Flushed(s) PROVE TelemetryInv'
  <2>1. Closing' = Closing /\ UNCHANGED <<config, current, closer, dropped, raced>>
        /\ sink[s] = "flushing" /\ sink' = [sink EXCEPT ![s] = "down"]
    BY <1>5 DEF Flushed, Closing
  <2>2. TelemetryTypeOK'
    BY <2>1 DEF TelemetryTypeOK
  <2>3. ClosesWhatIsCurrent' /\ SinksAreAccountedFor'
    BY <2>1 DEF ClosesWhatIsCurrent, SinksAreAccountedFor, TelemetryTypeOK
  <2>. QED BY <2>2, <2>3
<1>6. CASE UNCHANGED telemetryVars
  BY <1>6 DEF telemetryVars, TelemetryTypeOK, ClosesWhatIsCurrent, SinksAreAccountedFor, Closing
<1>. QED BY <1>1, <1>2, <1>3, <1>4, <1>5, <1>6 DEF TelemetryStep

LEMMA InitialTelemetry == Init => TelemetryInv
<1>. SUFFICES ASSUME TelemetryInit PROVE TelemetryInv
  BY DEF Init
<1>1. [pc |-> "idle", sink |-> NoSink] \in Closers
  BY DEF Closers
<1>2. Closing = {}
  BY DEF TelemetryInit, Closing
<1>3. TelemetryTypeOK
  BY <1>1 DEF TelemetryInit, TelemetryTypeOK
<1>. QED BY <1>2, <1>3, SinkNames DEF TelemetryInv, ClosesWhatIsCurrent, SinksAreAccountedFor, TelemetryInit

\* No sink that was shut down is handed out once its shutdown has returned, and a
\* shutdown that nothing raced forgets no sink that was still recording.
THEOREM TelemetryLosesNothing == Spec => []SinksAreAccountedFor
<1>1. TelemetryInv /\ [Next]_vars => TelemetryInv'
  BY TelemetrySteps, TelemetryInvStep
<1>2. TelemetryInv => SinksAreAccountedFor
  BY DEF TelemetryInv
<1>. QED BY <1>1, <1>2, InitialTelemetry, PTL DEF Spec

-----------------------------------------------------------------------------
(* The client: its types, and what it keeps of calls, driver and dial.     *)

Pc    == {"idle", "connecting", "connected", "refused", "attempt", "backoff", "scanning",
          "quitting"} \cup Settled
Frame == [kind : {"none", "connect", "command", "scan", "disconnect"},
          pc : Pc, driver : Driver \cup {NoDriver}, attempt : Nat, sent : BOOLEAN]

ClientTypeOK ==
    /\ maxRetries \in Nat
    /\ client \in Driver \cup {NoDriver}
    /\ driver \in [Driver -> {"unused", "dialling", "open", "closing", "closed"}]
    /\ dial \in [pc : {"none", "dialling", "backoff", "ok", "failed"},
                 owner : SUBSET Caller, attempt : Nat]
    /\ call \in [Caller -> Frame]
    /\ faults \in Nat
    /\ effects \in [Caller -> Nat]
    /\ upset \in SUBSET Caller

\* While a connection attempt is under way nothing else is connected, whoever
\* started it still waits for it, and it fails no more often than connections do.
DialInv ==
    /\ dial.pc \in {"dialling", "backoff"} =>
          /\ \A d \in Driver : driver[d] # "open"
          /\ dial.owner # {} /\ \A c \in dial.owner : call[c].pc = "connecting"
    /\ dial.pc = "dialling" /\ client # NoDriver =>
          driver[client] = "dialling" /\ dial.attempt <= faults + 1
    /\ dial.pc = "backoff" /\ client # NoDriver =>
          driver[client] = "closed" /\ dial.attempt <= faults
    /\ dial.pc = "ok" =>
          /\ client # NoDriver => driver[client] = "open"
          /\ dial.owner # {} /\ \A c \in dial.owner : call[c].pc = "connected"
    /\ dial.pc = "failed" =>
          /\ client = NoDriver
          /\ dial.owner # {} /\ \A c \in dial.owner : call[c].pc = "refused"
    /\ dial.pc \notin {"dialling", "backoff"} => \A c \in Caller : call[c].pc # "connecting"

KindOK(f) ==
    /\ f.pc = "idle" => f.kind = "none"
    /\ f.pc \in {"connecting", "connected", "refused"} => f.kind \in {"connect", "command", "scan"}
    /\ f.pc \in {"attempt", "backoff"} => f.kind \in {"command", "scan"}
    /\ f.pc = "scanning" => f.kind = "scan"
    /\ f.pc = "quitting" => f.kind = "disconnect"

\* A driver that was told to quit is never the client's again.
QuitOK(f) ==
    f.pc = "quitting" => /\ f.driver \in Driver /\ f.driver # client
                         /\ driver[f.driver] \in {"closing", "closed"}

\* What a call that nothing upset may count on.
Undisturbed(f) ==
    /\ f.pc = "connecting" => client # NoDriver
    /\ f.pc = "connected" => client # NoDriver /\ driver[client] = "open"
    /\ f.pc = "refused" => maxRetries < faults
    /\ f.pc \in {"attempt", "backoff"} => f.driver = client /\ IsOpen(client)
    /\ f.pc = "attempt" => f.sent /\ f.attempt <= faults + 1
    /\ f.pc = "backoff" => f.attempt <= faults
    /\ f.pc \in {"connectionError", "unavailable", "operationError"} => maxRetries < faults
    /\ f.pc # "telemetryError"

Effective(f, n) == f.kind \in {"command", "scan"} /\ f.pc \in {"scanning", "ok"} => n > 0

CallsInv ==
    \A c \in Caller : /\ KindOK(call[c])
                      /\ QuitOK(call[c])
                      /\ c \notin upset => Undisturbed(call[c])
                      /\ Effective(call[c], effects[c])

ClientInv == ClientTypeOK /\ NoDriverLeaks /\ DialInv /\ CallsInv

-----------------------------------------------------------------------------

LEMMA Drivers == NoDriver \notin Driver
BY DEF Driver, NoDriver

LEMMA Kind ==
    ASSUME NEW c \in Caller, NEW kind \in Kinds[c]
    PROVE  kind \in {"connect", "command", "scan", "disconnect"}
BY RedisClientAssumption

LEMMA PcFrame ==
    ASSUME NEW f \in Frame, NEW pc \in Pc
    PROVE  /\ [f EXCEPT !.pc = pc] \in Frame
           /\ [f EXCEPT !.pc = pc].pc = pc /\ [f EXCEPT !.pc = pc].kind = f.kind
           /\ [f EXCEPT !.pc = pc].driver = f.driver /\ [f EXCEPT !.pc = pc].attempt = f.attempt
           /\ [f EXCEPT !.pc = pc].sent = f.sent
BY DEF Frame

LEMMA KindFrame ==
    ASSUME NEW f \in Frame, NEW kind \in {"connect", "command", "scan", "disconnect"}
    PROVE  /\ [f EXCEPT !.kind = kind] \in Frame
           /\ [f EXCEPT !.kind = kind].pc = f.pc /\ [f EXCEPT !.kind = kind].kind = kind
           /\ [f EXCEPT !.kind = kind].driver = f.driver
           /\ [f EXCEPT !.kind = kind].attempt = f.attempt
           /\ [f EXCEPT !.kind = kind].sent = f.sent
BY DEF Frame

LEMMA DriverFrame ==
    ASSUME NEW f \in Frame, NEW d \in Driver \cup {NoDriver}
    PROVE  /\ [f EXCEPT !.driver = d] \in Frame
           /\ [f EXCEPT !.driver = d].pc = f.pc /\ [f EXCEPT !.driver = d].kind = f.kind
           /\ [f EXCEPT !.driver = d].driver = d
           /\ [f EXCEPT !.driver = d].attempt = f.attempt
           /\ [f EXCEPT !.driver = d].sent = f.sent
BY DEF Frame

Attempting(f, n, sent) == [f EXCEPT !.pc = "attempt", !.attempt = n, !.sent = sent]

LEMMA AttemptFrame ==
    ASSUME NEW f \in Frame, NEW n \in Nat, NEW sent \in BOOLEAN
    PROVE  /\ Attempting(f, n, sent) \in Frame
           /\ Attempting(f, n, sent).pc = "attempt" /\ Attempting(f, n, sent).attempt = n
           /\ Attempting(f, n, sent).sent = sent
           /\ Attempting(f, n, sent).kind = f.kind /\ Attempting(f, n, sent).driver = f.driver
<1>. DEFINE h == [f EXCEPT !.pc = "attempt"]  k == [h EXCEPT !.attempt = n]
            g == [k EXCEPT !.sent = sent]
<1>1. "attempt" \in Pc
  BY DEF Pc
<1>2. h \in Frame /\ h.pc = "attempt" /\ h.kind = f.kind /\ h.driver = f.driver
  BY <1>1, PcFrame
<1>. HIDE DEF h
<1>3. k \in Frame /\ k.pc = "attempt" /\ k.kind = f.kind /\ k.driver = f.driver /\ k.attempt = n
  BY <1>2 DEF Frame
<1>. HIDE DEF k
<1>4. /\ g \in Frame /\ g.pc = "attempt" /\ g.kind = f.kind /\ g.driver = f.driver
      /\ g.attempt = n /\ g.sent = sent
  BY <1>3 DEF Frame
<1>5. g = Attempting(f, n, sent)
  BY DEF g, k, h, Attempting
<1>. QED BY <1>4, <1>5

QuittingOf(f, kind, d) == [f EXCEPT !.kind = kind, !.driver = d]

LEMMA KindAndDriver ==
    ASSUME NEW f \in Frame, NEW kind \in {"connect", "command", "scan", "disconnect"},
           NEW d \in Driver \cup {NoDriver}
    PROVE  /\ QuittingOf(f, kind, d) \in Frame /\ QuittingOf(f, kind, d).kind = kind
           /\ QuittingOf(f, kind, d).driver = d /\ QuittingOf(f, kind, d).pc = f.pc
<1>. DEFINE h == [f EXCEPT !.kind = kind]  g == [h EXCEPT !.driver = d]
<1>1. h \in Frame /\ h.kind = kind /\ h.pc = f.pc
  BY KindFrame
<1>. HIDE DEF h
<1>2. g \in Frame /\ g.kind = kind /\ g.pc = f.pc /\ g.driver = d
  BY <1>1, DriverFrame
<1>3. g = QuittingOf(f, kind, d)
  BY DEF g, h, QuittingOf
<1>. QED BY <1>2, <1>3

\* One call goes on and driver and client stay as they are.
LEMMA OneCallMoves ==
    ASSUME ClientInv, NEW c \in Caller, NEW g \in Frame, call' = [call EXCEPT ![c] = g],
           UNCHANGED <<maxRetries, client, driver>>,
           faults' \in Nat, faults <= faults', upset' \in SUBSET Caller, upset \subseteq upset',
           effects' \in {effects, [effects EXCEPT ![c] = @ + 1]},
           dial' \in {dial, NoDial}, dial' = NoDial => dial.pc \notin {"dialling", "backoff"},
           dial' = dial => dial.pc = "none" \/ c \notin dial.owner,
           g.pc = "connecting" => dial' = dial /\ dial.pc \in {"dialling", "backoff"},
           KindOK(g), QuitOK(g), c \notin upset' => Undisturbed(g)', Effective(g, effects'[c])
    PROVE  ClientInv'
<1>. USE DEF ClientInv
<1>1. /\ call' \in [Caller -> Frame] /\ call'[c] = g
      /\ \A e \in Caller : e # c => call'[e] = call[e]
  BY DEF ClientTypeOK
<1>2. effects' \in [Caller -> Nat] /\ \A e \in Caller : e # c => effects'[e] = effects[e]
  BY DEF ClientTypeOK
<1>3. NoDial.pc = "none" /\ NoDial \in [pc : {"none", "dialling", "backoff", "ok", "failed"},
                 owner : SUBSET Caller, attempt : Nat]
  BY DEF NoDial
<1>4. ClientTypeOK'
  BY <1>1, <1>2, <1>3 DEF ClientTypeOK
<1>5. NoDriverLeaks'
  BY DEF NoDriverLeaks, IsOpen
<1>6. faults \in Nat /\ dial.attempt \in Nat /\ dial.owner \subseteq Caller
  BY DEF ClientTypeOK
<1>7. DialInv'
  <2>1. CASE dial' = NoDial
    <3>1. \A e \in Caller : call'[e].pc # "connecting"
      BY <1>1, <1>3, <2>1 DEF DialInv
    <3>. QED BY <1>3, <2>1, <3>1 DEF DialInv
  <2>2. CASE dial' = dial /\ dial.pc = "none"
    BY <1>1, <2>2 DEF DialInv
  <2>3. CASE dial' = dial /\ dial.pc # "none" /\ c \notin dial.owner
    <3>1. \A e \in dial.owner : call'[e] = call[e]
      BY <1>1, <1>6, <2>3
    <3>2. /\ dial.pc \in {"dialling", "backoff"} =>
                /\ \A d \in Driver : driver'[d] # "open"
                /\ dial.owner # {} /\ \A e \in dial.owner : call'[e].pc = "connecting"
          /\ dial.pc = "ok" => dial.owner # {} /\ \A e \in dial.owner : call'[e].pc = "connected"
          /\ dial.pc = "failed" => dial.owner # {} /\ \A e \in dial.owner : call'[e].pc = "refused"
      BY <3>1 DEF DialInv
    <3>3. /\ dial.pc = "dialling" /\ client # NoDriver =>
                driver[client] = "dialling" /\ dial.attempt <= faults' + 1
          /\ dial.pc = "backoff" /\ client # NoDriver =>
                driver[client] = "closed" /\ dial.attempt <= faults'
      BY <1>6 DEF DialInv
    <3>4. dial.pc \notin {"dialling", "backoff"} => \A e \in Caller : call'[e].pc # "connecting"
      BY <1>1 DEF DialInv
    <3>. QED BY <2>3, <3>2, <3>3, <3>4 DEF DialInv
  <2>. QED BY <2>1, <2>2, <2>3
<1>8. CallsInv'
  <2>1. ASSUME NEW e \in Caller, e # c
        PROVE  /\ KindOK(call'[e]) /\ QuitOK(call[e])' /\ (e \notin upset' => Undisturbed(call[e])')
               /\ Effective(call'[e], effects'[e])
    <3>1. call'[e] = call[e] /\ effects'[e] = effects[e] /\ call[e].attempt \in Nat
      BY <1>1, <1>2, <2>1 DEF ClientTypeOK, Frame
    <3>2. KindOK(call'[e]) /\ Effective(call'[e], effects'[e])
      BY <3>1 DEF CallsInv
    <3>3. QuitOK(call[e])'
      BY <3>1 DEF CallsInv, QuitOK
    <3>4. ASSUME e \notin upset' PROVE Undisturbed(call[e])'
      <4>1. Undisturbed(call[e]) /\ maxRetries \in Nat
        BY <3>4 DEF CallsInv, ClientTypeOK
      <4>2. IsOpen(client)' <=> IsOpen(client)
        BY DEF IsOpen
      <4>. QED BY <1>6, <3>1, <4>1, <4>2 DEF Undisturbed
    <3>. QED BY <3>2, <3>3, <3>4
  <2>2. KindOK(call'[c]) /\ QuitOK(call[c])' /\ (c \notin upset' => Undisturbed(call[c])')
        /\ Effective(call'[c], effects'[c])
    BY <1>1 DEF QuitOK, Undisturbed, IsOpen
  <2>. QED BY <2>1, <2>2 DEF CallsInv, KindOK, Effective
<1>. QED BY <1>4, <1>5, <1>7, <1>8

\* What a call of the client keeps of its own.
LEMMA OwnFrame ==
    ASSUME ClientInv, NEW c \in Caller
    PROVE  /\ call[c] \in Frame /\ KindOK(call[c]) /\ QuitOK(call[c])
           /\ c \notin upset => Undisturbed(call[c])
           /\ Effective(call[c], effects[c])
           /\ effects[c] \in Nat /\ faults \in Nat /\ maxRetries \in Nat /\ call[c].attempt \in Nat
           /\ upset \in SUBSET Caller
           /\ call[c].pc \notin {"connecting", "connected", "refused"} =>
                 dial.pc = "none" \/ c \notin dial.owner
           /\ c \in Running <=> call[c].pc \notin Settled \cup {"idle"}
BY DEF ClientInv, ClientTypeOK, CallsInv, Frame, DialInv, Running

\* The start of the retry loop on the client's driver.
LEMMA OperationStarts ==
    ASSUME NEW c, NEW f \in Frame, NEW d \in Driver \cup {NoDriver}, StartOperation(c, f, d)
    PROVE  \E g \in Frame :
              /\ call' = [call EXCEPT ![c] = g] /\ g.kind = f.kind
              /\ \/ g.pc = "telemetryError" /\ upset' = upset \cup {c}
                 \/ /\ g.pc = "attempt" /\ g.driver = d /\ g.attempt = 1
                    /\ g.sent = IsOpen(d) /\ upset' = upset
<1>1. PICK got \in Sink \cup {Noop, NoSink} :
        /\ call' = [call EXCEPT ![c] =
              IF got = NoSink THEN [f EXCEPT !.pc = "telemetryError"]
              ELSE [f EXCEPT !.pc = "attempt", !.driver = d, !.attempt = 1, !.sent = IsOpen(d)]]
        /\ upset' = IF got = NoSink THEN upset \cup {c} ELSE upset
  BY DEF StartOperation
<1>2. CASE got = NoSink
  <2>1. "telemetryError" \in Pc
    BY DEF Pc, Settled
  <2>. DEFINE g == [f EXCEPT !.pc = "telemetryError"]
  <2>2. g \in Frame /\ g.pc = "telemetryError" /\ g.kind = f.kind
    BY <2>1, PcFrame
  <2>. HIDE DEF g
  <2>3. call' = [call EXCEPT ![c] = g] /\ upset' = upset \cup {c}
    BY <1>1, <1>2 DEF g
  <2>. QED BY <2>2, <2>3
<1>3. CASE got # NoSink
  <2>. DEFINE s == IsOpen(d)
              h == [f EXCEPT !.driver = d]
  <2>1. s \in BOOLEAN
    BY DEF IsOpen
  <2>. HIDE DEF s
  <2>2. h \in Frame /\ h.kind = f.kind /\ h.driver = d
    BY DriverFrame
  <2>. HIDE DEF h
  <2>. DEFINE g == Attempting(h, 1, s)
  <2>3. /\ g \in Frame /\ g.pc = "attempt" /\ g.attempt = 1 /\ g.sent = s
        /\ g.kind = h.kind /\ g.driver = h.driver
    BY <2>1, <2>2, AttemptFrame
  <2>4. g = [f EXCEPT !.pc = "attempt", !.driver = d, !.attempt = 1, !.sent = s]
    BY <2>2 DEF h, Frame, Attempting
  <2>. HIDE DEF g
  <2>5. call' = [call EXCEPT ![c] = g] /\ upset' = upset
    BY <1>1, <1>3, <2>4 DEF s
  <2>. QED BY <2>2, <2>3, <2>5 DEF s
<1>. QED BY <1>2, <1>3

LEMMA FailedFrame ==
    ASSUME NEW f \in Frame
    PROVE  /\ Failed(f) \in Frame /\ Failed(f).kind = f.kind /\ Failed(f).driver = f.driver
           /\ Failed(f).attempt = f.attempt
           /\ Failed(f).pc = IF f.attempt > maxRetries THEN "operationError" ELSE "backoff"
<1>1. "operationError" \in Pc /\ "backoff" \in Pc
  BY DEF Pc, Settled
<1>. QED BY <1>1, PcFrame DEF Failed

LEMMA AttemptSucceedsKeeps ==
    ASSUME ClientInv, NEW c \in Caller, AttemptSucceeds(c), maxRetries' = maxRetries
    PROVE  ClientInv'
<1>. DEFINE pc == IF call[c].kind = "scan" THEN "scanning" ELSE "ok"
            g == [call[c] EXCEPT !.pc = pc]
<1>1. /\ call' = [call EXCEPT ![c] = g] /\ call[c].pc = "attempt"
      /\ effects' = [effects EXCEPT ![c] = @ + 1]
      /\ UNCHANGED <<client, driver, dial, faults, upset>>
  BY DEF AttemptSucceeds
<1>2. pc \in Pc /\ pc \in {"scanning", "ok"} /\ (pc = "scanning" => call[c].kind = "scan")
  BY DEF Pc, Settled
<1>. HIDE DEF pc
<1>0. g \in Frame /\ g.pc = pc /\ g.kind = call[c].kind
  BY <1>2, OwnFrame, PcFrame
<1>. HIDE DEF g
<1>3. PICK h \in Frame : h = g /\ h.pc \in {"scanning", "ok"} /\ (h.pc = "scanning" => h.kind = "scan")
  BY <1>0, <1>2
<1>4. KindOK(h) /\ QuitOK(h) /\ Undisturbed(h)'
  BY <1>3 DEF KindOK, QuitOK, Undisturbed
<1>5. Effective(h, effects'[c]) /\ faults <= faults'
  BY <1>1, OwnFrame DEF Effective, ClientInv, ClientTypeOK
<1>6. faults' \in Nat /\ upset' \in SUBSET Caller /\ upset \subseteq upset' /\ (dial.pc = "none" \/ c \notin dial.owner)
  BY <1>1, OwnFrame
<1>7. h.pc # "connecting" /\ dial' = dial /\ (dial = NoDial => dial.pc \notin {"dialling", "backoff"})
  BY <1>1, <1>3 DEF NoDial
<1>. QED BY <1>1, <1>3, <1>4, <1>5, <1>6, <1>7, OneCallMoves

LEMMA AttemptFailsKeeps ==
    ASSUME ClientInv, NEW c \in Caller, AttemptFails(c), maxRetries' = maxRetries
    PROVE  ClientInv'
<1>. DEFINE f == call[c]  g == Failed(f)
<1>1. /\ call' = [call EXCEPT ![c] = g] /\ f.pc = "attempt"
      /\ UNCHANGED <<client, driver, dial, upset>>
  BY DEF AttemptFails
<1>2. effects' \in {effects, [effects EXCEPT ![c] = @ + 1]} /\ faults' \in {faults, faults + 1}
  BY DEF AttemptFails, Fault
<1>3. f \in Frame
  BY OwnFrame
<1>0. /\ g \in Frame /\ g.kind = f.kind /\ g.driver = f.driver /\ g.attempt = f.attempt
      /\ g.pc = IF f.attempt > maxRetries THEN "operationError" ELSE "backoff"
  BY <1>3, FailedFrame
<1>. HIDE DEF g
<1>4. PICK h \in Frame :
        /\ h = g /\ h.kind = f.kind /\ h.driver = f.driver /\ h.attempt = f.attempt
        /\ h.pc = IF f.attempt > maxRetries THEN "operationError" ELSE "backoff"
  BY <1>0
<1>5. KindOK(f) /\ (c \notin upset => Undisturbed(f)) /\ f.attempt \in Nat /\ faults \in Nat /\ maxRetries \in Nat
  BY OwnFrame
<1>6. KindOK(h) /\ QuitOK(h) /\ Effective(h, effects'[c])
  BY <1>1, <1>4, <1>5 DEF KindOK, QuitOK, Effective
<1>7. ASSUME c \notin upset' PROVE Undisturbed(h)'
  <2>1. Undisturbed(f)
    BY <1>1, <1>5, <1>7
  <2>2. f.sent /\ f.driver = client /\ IsOpen(client) /\ f.attempt <= faults + 1
    BY <1>1, <2>1 DEF Undisturbed
  <2>3. faults' = faults + 1
    BY <2>2 DEF AttemptFails, Fault, IsOpen
  <2>4. f.attempt <= faults' /\ maxRetries' = maxRetries /\ (f.attempt > maxRetries => maxRetries < faults')
    BY <1>5, <2>2, <2>3
  <2>5. IsOpen(client)'
    BY <1>1, <2>2 DEF IsOpen
  <2>. QED BY <1>1, <1>4, <1>5, <2>2, <2>4, <2>5 DEF Undisturbed
<1>8. faults' \in Nat /\ faults <= faults' /\ upset' \in SUBSET Caller /\ upset \subseteq upset'
      /\ (dial.pc = "none" \/ c \notin dial.owner)
  BY <1>1, <1>2, <1>5, OwnFrame
<1>9. h.pc # "connecting" /\ dial' = dial /\ (dial = NoDial => dial.pc \notin {"dialling", "backoff"})
  BY <1>1, <1>4 DEF NoDial
<1>. QED BY <1>1, <1>2, <1>4, <1>6, <1>7, <1>8, <1>9, OneCallMoves

LEMMA AttemptAgainKeeps ==
    ASSUME ClientInv, NEW c \in Caller, AttemptAgain(c), maxRetries' = maxRetries
    PROVE  ClientInv'
<1>. DEFINE f == call[c]  s == IsOpen(f.driver)
<1>1. f \in Frame /\ f.attempt \in Nat /\ f.attempt + 1 \in Nat /\ s \in BOOLEAN /\ f.pc = "backoff"
  BY OwnFrame DEF IsOpen, AttemptAgain
<1>2. PICK g \in Frame :
              /\ g = Attempting(f, f.attempt + 1, s)
              /\ g.pc = "attempt" /\ g.attempt = f.attempt + 1 /\ g.sent = s
              /\ g.kind = f.kind /\ g.driver = f.driver
  BY <1>1, AttemptFrame
<1>3. call' = [call EXCEPT ![c] = g] /\ UNCHANGED <<client, driver, dial, faults, effects, upset>>
  <2>1. call' = [call EXCEPT ![c] = [f EXCEPT !.pc = "attempt", !.attempt = f.attempt + 1, !.sent = s]]
    BY DEF AttemptAgain, ClientInv, ClientTypeOK, Frame
  <2>. QED BY <1>2, <2>1 DEF AttemptAgain, Attempting
<1>4. KindOK(f) /\ (c \notin upset => Undisturbed(f)) /\ faults \in Nat
  BY OwnFrame
<1>5. KindOK(g) /\ QuitOK(g) /\ Effective(g, effects'[c])
  BY <1>1, <1>2, <1>4 DEF KindOK, QuitOK, Effective
<1>6. ASSUME c \notin upset' PROVE Undisturbed(g)'
  <2>1. Undisturbed(f)
    BY <1>3, <1>4, <1>6
  <2>2. f.driver = client /\ IsOpen(client) /\ f.attempt <= faults
    BY <1>1, <2>1 DEF Undisturbed
  <2>3. g.sent /\ g.attempt <= faults' + 1
    <3>1. g.sent
      BY <1>2, <2>2
    <3>2. faults' = faults /\ f.attempt <= faults /\ f.attempt \in Nat /\ faults \in Nat
      BY <1>1, <1>3, <1>4, <2>2
    <3>3. f.attempt + 1 <= faults' + 1
      BY <3>2
    <3>. QED BY <1>2, <3>1, <3>3
  <2>4. IsOpen(client)'
    BY <1>3, <2>2 DEF IsOpen
  <2>. QED BY <1>2, <1>3, <2>2, <2>3, <2>4 DEF Undisturbed
<1>7. faults' \in Nat /\ faults <= faults' /\ upset' \in SUBSET Caller /\ upset \subseteq upset'
      /\ (dial.pc = "none" \/ c \notin dial.owner)
  BY <1>1, <1>3, <1>4, OwnFrame
<1>8. g.pc # "connecting" /\ dial' = dial /\ (dial = NoDial => dial.pc \notin {"dialling", "backoff"})
  BY <1>2, <1>3 DEF NoDial
<1>. QED BY <1>2, <1>3, <1>5, <1>6, <1>7, <1>8, OneCallMoves

LEMMA ScanEndsKeeps ==
    ASSUME ClientInv, NEW c \in Caller, ScanEnds(c), maxRetries' = maxRetries
    PROVE  ClientInv'
<1>1. PICK pc \in {"ok", "scanError"} :
        /\ call' = [call EXCEPT ![c] = [call[c] EXCEPT !.pc = pc]]
        /\ upset' \in {upset, upset \cup {c}}
  BY DEF ScanEnds
<1>2. /\ UNCHANGED <<client, driver, dial, effects>> /\ call[c].pc = "scanning"
      /\ faults' \in {faults, faults + 1}
  BY DEF ScanEnds, Fault
<1>. DEFINE g == [call[c] EXCEPT !.pc = pc]
<1>3. pc \in Pc
  BY DEF Pc, Settled
<1>4. g \in Frame /\ g.pc = pc /\ g.kind = call[c].kind
  BY <1>3, OwnFrame, PcFrame
<1>5. call' = [call EXCEPT ![c] = g]
  BY <1>1
<1>. HIDE DEF g
<1>0. PICK h \in Frame : h = g /\ h.pc = pc /\ h.kind = call[c].kind
  BY <1>4
<1>6. KindOK(h) /\ QuitOK(h) /\ Undisturbed(h)'
  BY <1>0 DEF KindOK, QuitOK, Undisturbed
<1>7. Effective(h, effects'[c])
  BY <1>0, <1>2, OwnFrame DEF Effective
<1>8. faults' \in Nat /\ faults <= faults' /\ upset' \in SUBSET Caller /\ upset \subseteq upset'
      /\ (dial.pc = "none" \/ c \notin dial.owner)
  BY <1>1, <1>2, OwnFrame
<1>9. h.pc # "connecting" /\ dial' = dial /\ (dial = NoDial => dial.pc \notin {"dialling", "backoff"})
  BY <1>0, <1>2 DEF NoDial
<1>. QED BY <1>0, <1>2, <1>5, <1>6, <1>7, <1>8, <1>9, OneCallMoves

LEMMA ResumeKeeps ==
    ASSUME ClientInv, NEW c \in Caller, Resume(c), maxRetries' = maxRetries
    PROVE  ClientInv'
<1>. DEFINE f == call[c]
<1>0. /\ f \in Frame /\ KindOK(f) /\ (c \notin upset => Undisturbed(f))
      /\ effects[c] \in Nat /\ faults \in Nat /\ maxRetries \in Nat
      /\ upset \in SUBSET Caller /\ client \in Driver \cup {NoDriver}
  BY OwnFrame DEF ClientInv, ClientTypeOK
<1>1. /\ f.pc \in {"connected", "refused"} /\ (dial.pc \in {"ok", "failed"} => c \in dial.owner)
      /\ dial' = IF c \in dial.owner THEN NoDial ELSE dial
      /\ UNCHANGED <<client, driver, faults, effects>>
  BY DEF Resume
<1>2. /\ dial' \in {dial, NoDial} /\ (dial' = NoDial => dial.pc \notin {"dialling", "backoff"})
      /\ (dial' = dial => dial.pc = "none" \/ c \notin dial.owner)
  BY <1>1 DEF NoDial, ClientInv, DialInv
<1>3. ASSUME NEW g \in Frame, call' = [call EXCEPT ![c] = g], g.kind = f.kind,
             g.pc \notin {"connecting", "quitting", "idle", "connected", "refused", "scanning", "backoff"},
             g.pc = "attempt" => f.kind \in {"command", "scan"},
             g.pc = "ok" => f.kind = "connect",
             upset' \in {upset, upset \cup {c}},
             c \notin upset' => Undisturbed(g)'
      PROVE  ClientInv'
  <2>1. KindOK(g) /\ QuitOK(g) /\ Effective(g, effects'[c])
    BY <1>3 DEF KindOK, QuitOK, Effective
  <2>2. faults' \in Nat /\ faults <= faults' /\ upset' \in SUBSET Caller /\ upset \subseteq upset'
    BY <1>0, <1>1, <1>3
  <2>. QED BY <1>1, <1>2, <1>3, <2>1, <2>2, OneCallMoves
<1>4. "ok" \in Pc /\ "connectionError" \in Pc /\ "unavailable" \in Pc
  BY DEF Pc, Settled
<1>5. CASE f.pc = "refused" /\ call' = [call EXCEPT ![c].pc = "connectionError"] /\ upset' = upset
  <2>0. [f EXCEPT !.pc = "connectionError"] \in Frame /\ [f EXCEPT !.pc = "connectionError"].pc = "connectionError"
        /\ [f EXCEPT !.pc = "connectionError"].kind = f.kind
    BY <1>0, <1>4, PcFrame
  <2>1. PICK g \in Frame : call' = [call EXCEPT ![c] = g] /\ g.pc = "connectionError" /\ g.kind = f.kind
    BY <1>5, <2>0
  <2>2. c \notin upset' => Undisturbed(g)'
    BY <1>0, <1>1, <1>5, <2>1 DEF Undisturbed
  <2>. QED BY <1>3, <1>5, <2>1, <2>2
<1>6. CASE f.pc = "connected" /\ f.kind = "connect" /\ call' = [call EXCEPT ![c].pc = "ok"] /\ upset' = upset
  <2>1. PICK g \in Frame : call' = [call EXCEPT ![c] = g] /\ g.pc = "ok" /\ g.kind = f.kind
    <3>1. f \in Frame /\ "ok" \in Pc
      BY <1>0, <1>4
    <3>2. /\ [f EXCEPT !.pc = "ok"] \in Frame /\ [f EXCEPT !.pc = "ok"].pc = "ok"
          /\ [f EXCEPT !.pc = "ok"].kind = f.kind
      BY ONLY <3>1, PcFrame
    <3>. QED BY <1>6, <3>2
  <2>2. Undisturbed(g)'
    BY <2>1 DEF Undisturbed
  <2>. QED BY <1>3, <1>6, <2>1, <2>2
<1>7. CASE f.pc = "connected" /\ client = NoDriver /\ call' = [call EXCEPT ![c].pc = "unavailable"] /\ upset' = upset
  <2>0. [f EXCEPT !.pc = "unavailable"] \in Frame /\ [f EXCEPT !.pc = "unavailable"].pc = "unavailable"
        /\ [f EXCEPT !.pc = "unavailable"].kind = f.kind
    BY <1>0, <1>4, PcFrame
  <2>1. PICK g \in Frame : call' = [call EXCEPT ![c] = g] /\ g.pc = "unavailable" /\ g.kind = f.kind
    BY <1>7, <2>0
  <2>2. c \in upset'
    BY <1>0, <1>7 DEF Undisturbed
  <2>. QED BY <1>3, <1>7, <2>1, <2>2
<1>8. CASE f.pc = "connected" /\ f.kind # "connect" /\ client # NoDriver /\ StartOperation(c, f, client)
  <2>1. PICK g \in Frame :
              /\ call' = [call EXCEPT ![c] = g] /\ g.kind = f.kind
              /\ \/ g.pc = "telemetryError" /\ upset' = upset \cup {c}
                 \/ /\ g.pc = "attempt" /\ g.driver = client /\ g.attempt = 1
                    /\ g.sent = IsOpen(client) /\ upset' = upset
    BY <1>0, <1>8, OperationStarts
  <2>2. f.kind \in {"command", "scan"}
    BY <1>0, <1>8 DEF KindOK
  <2>3. ASSUME c \notin upset' PROVE Undisturbed(g)'
    <3>1. g.pc = "attempt" /\ g.driver = client /\ g.attempt = 1 /\ g.sent = IsOpen(client) /\ c \notin upset
      BY <2>1, <2>3
    <3>2. driver[client] = "open"
      BY <1>0, <1>8, <3>1 DEF Undisturbed
    <3>3. IsOpen(client) /\ IsOpen(client)'
      BY <1>1, <1>8, <3>2 DEF IsOpen
    <3>. QED BY <1>0, <1>1, <3>1, <3>3 DEF Undisturbed
  <2>4. g.pc \in {"telemetryError", "attempt"} /\ upset' \in {upset, upset \cup {c}}
    BY <2>1
  <2>. QED BY <1>3, <2>1, <2>2, <2>3, <2>4
<1>. QED BY <1>5, <1>6, <1>7, <1>8 DEF Resume, telemetryVars

\* A call that does not move itself.
LEMMA OtherCalls ==
    ASSUME ClientInv, NEW e \in Caller, call'[e] = call[e], effects'[e] = effects[e],
           faults' \in Nat, faults <= faults', maxRetries' = maxRetries, upset \subseteq upset',
           call[e].pc = "quitting" => /\ call[e].driver # client'
                                      /\ driver'[call[e].driver] \in {"closing", "closed"},
           e \notin upset' =>
              /\ call[e].pc = "connecting" => client' # NoDriver
              /\ call[e].pc = "connected" => client' # NoDriver /\ driver'[client'] = "open"
              /\ call[e].pc \in {"attempt", "backoff"} => call[e].driver = client' /\ IsOpen(client)'
    PROVE  /\ KindOK(call[e])' /\ QuitOK(call[e])' /\ (e \notin upset' => Undisturbed(call[e])')
           /\ Effective(call[e], effects[e])'
<1>1. /\ KindOK(call[e]) /\ QuitOK(call[e]) /\ (e \notin upset => Undisturbed(call[e]))
      /\ Effective(call[e], effects[e])
      /\ faults \in Nat /\ maxRetries \in Nat /\ call[e].attempt \in Nat
  BY OwnFrame
<1>2. KindOK(call[e])' /\ QuitOK(call[e])' /\ Effective(call[e], effects[e])'
  BY <1>1 DEF KindOK, QuitOK, Effective
<1>3. ASSUME e \notin upset' PROVE Undisturbed(call[e])'
  <2>1. Undisturbed(call[e])
    BY <1>1, <1>3
  <2>. QED BY <1>1, <1>3, <2>1 DEF Undisturbed
<1>. QED BY <1>2, <1>3

\* A call makes a driver and starts a connection attempt, or fails to start one.
LEMMA NewDialKeeps ==
    ASSUME ClientInv, NEW c \in Caller, call[c].pc = "idle", ~IsOpen(client), dial.pc = "none",
           NEW d \in Driver, driver[d] = "unused", NEW g \in Frame,
           g.kind \in {"connect", "command", "scan"},
           call' = [call EXCEPT ![c] = g], UNCHANGED <<maxRetries, faults, effects>>,
           \/ /\ client' = NoDriver /\ driver' = [driver EXCEPT ![d] = "closed"]
              /\ dial' = [pc |-> "failed", owner |-> {c}, attempt |-> 0]
              /\ g.pc = "refused" /\ upset' = upset \cup {c}
           \/ /\ client' = d /\ driver' = [driver EXCEPT ![d] = "dialling"]
              /\ dial' = [pc |-> "dialling", owner |-> {c}, attempt |-> 1]
              /\ g.pc = "connecting" /\ upset' = upset
    PROVE  ClientInv'
<1>. USE DEF ClientInv
<1>1. /\ call' \in [Caller -> Frame] /\ call'[c] = g
      /\ \A e \in Caller : e # c => call'[e] = call[e]
      /\ driver' \in [Driver -> {"unused", "dialling", "open", "closing", "closed"}]
      /\ \A e \in Driver : e # d => driver'[e] = driver[e]
      /\ driver'[d] \in {"closed", "dialling"}
      /\ faults \in Nat /\ maxRetries \in Nat /\ client \in Driver \cup {NoDriver}
  BY DEF ClientTypeOK
<1>2. \A e \in Driver : ~IsOpen(e)
  BY DEF NoDriverLeaks
<1>3. \A e \in Driver : driver[e] \notin {"dialling", "open"}
  BY <1>2, Drivers DEF IsOpen
<1>4. dial' \in [pc : {"none", "dialling", "backoff", "ok", "failed"}, owner : SUBSET Caller, attempt : Nat]
      /\ client' \in Driver \cup {NoDriver} /\ upset' \in SUBSET Caller /\ upset \subseteq upset'
  BY DEF ClientTypeOK
<1>5. ClientTypeOK'
  BY <1>1, <1>4 DEF ClientTypeOK
<1>6. NoDriverLeaks'
  BY <1>1, <1>3 DEF NoDriverLeaks, IsOpen
<1>7. DialInv'
  <2>1. \A e \in Driver : driver'[e] # "open"
    BY <1>1, <1>3
  <2>2. CASE /\ client' = NoDriver /\ dial' = [pc |-> "failed", owner |-> {c}, attempt |-> 0]
             /\ g.pc = "refused"
    <3>1. \A e \in Caller : call'[e].pc # "connecting"
      BY <1>1, <2>2 DEF DialInv
    <3>. QED BY <1>1, <2>2, <3>1 DEF DialInv
  <2>3. CASE /\ client' = d /\ driver' = [driver EXCEPT ![d] = "dialling"]
             /\ dial' = [pc |-> "dialling", owner |-> {c}, attempt |-> 1] /\ g.pc = "connecting"
    <3>1. driver'[client'] = "dialling" /\ 1 <= faults' + 1
      BY <1>1, <2>3 DEF ClientTypeOK
    <3>. QED BY <1>1, <2>1, <2>3, <3>1 DEF DialInv
  <2>. QED BY <2>2, <2>3
<1>8. CallsInv'
  <2>1. ASSUME NEW e \in Caller, e # c
        PROVE  /\ KindOK(call[e])' /\ QuitOK(call[e])' /\ (e \notin upset' => Undisturbed(call[e])')
               /\ Effective(call[e], effects[e])'
    <3>1. call'[e] = call[e] /\ effects'[e] = effects[e]
      BY <1>1, <2>1
    <3>2. call[e].pc # "connecting"
      BY DEF DialInv
    <3>3. QuitOK(call[e]) /\ (e \notin upset => Undisturbed(call[e]))
      BY OwnFrame
    <3>4. call[e].pc = "quitting" => /\ call[e].driver # client'
                                     /\ driver'[call[e].driver] \in {"closing", "closed"}
      BY <1>1, <3>3, Drivers DEF QuitOK
    <3>5. e \notin upset' => call[e].pc \notin {"connected", "attempt", "backoff"}
      BY <1>1, <1>3, <1>4, <3>3 DEF Undisturbed
    <3>6. faults' \in Nat /\ faults <= faults'
      BY <1>1
    <3>. QED BY <1>4, <3>1, <3>2, <3>4, <3>5, <3>6, OtherCalls
  <2>2. /\ KindOK(call[c])' /\ QuitOK(call[c])' /\ (c \notin upset' => Undisturbed(call[c])')
        /\ Effective(call[c], effects[c])'
    BY <1>1, Drivers DEF KindOK, QuitOK, Undisturbed, Effective
  <2>. QED BY <2>1, <2>2 DEF CallsInv
<1>. QED BY <1>5, <1>6, <1>7, <1>8

LEMMA JoinKeeps ==
    ASSUME ClientInv, NEW c \in Caller, call[c].pc = "idle", dial.pc # "none",
           NEW g \in Frame, g.kind \in {"connect", "command", "scan"},
           g.pc = CASE dial.pc = "ok"     -> "connected"
                    [] dial.pc = "failed" -> "refused"
                    [] OTHER              -> "connecting",
           call' = [call EXCEPT ![c] = g],
           upset' = IF dial.attempt = 0 \/ client = NoDriver THEN upset \cup {c} ELSE upset,
           UNCHANGED <<maxRetries, client, driver, dial, faults, effects>>
    PROVE  ClientInv'
<1>1. /\ dial.pc \in {"dialling", "backoff", "ok", "failed"} /\ faults \in Nat
      /\ upset \in SUBSET Caller
  BY DEF ClientInv, ClientTypeOK
<1>2. /\ g.pc \in {"connected", "refused", "connecting"}
      /\ g.pc = "connecting" => dial.pc \in {"dialling", "backoff"}
      /\ g.pc = "connected" => dial.pc = "ok"
      /\ g.pc = "refused" => dial.pc = "failed"
  BY <1>1
<1>3. KindOK(g) /\ QuitOK(g) /\ Effective(g, effects'[c])
  BY <1>2 DEF KindOK, QuitOK, Effective
<1>4. c \notin upset' => client # NoDriver
  OBVIOUS
<1>5. DialInv
  BY DEF ClientInv
<1>6. c \notin upset' => g.pc # "refused" /\ (g.pc = "connected" => driver[client] = "open")
  BY <1>2, <1>4, <1>5 DEF DialInv
<1>7. c \notin upset' => Undisturbed(g)'
  BY <1>2, <1>4, <1>6 DEF Undisturbed
<1>8. c \notin dial.owner /\ (dial' = NoDial => dial.pc \notin {"dialling", "backoff"})
  BY <1>1, OwnFrame DEF NoDial
<1>9. faults' \in Nat /\ faults <= faults' /\ upset' \in SUBSET Caller /\ upset \subseteq upset'
      /\ effects' \in {effects, [effects EXCEPT ![c] = @ + 1]} /\ dial' \in {dial, NoDial}
  BY <1>1
<1>. QED BY <1>2, <1>3, <1>7, <1>8, <1>9, OneCallMoves

LEMMA BeginUseKeeps ==
    ASSUME ClientInv, NEW c \in Caller, NEW kind \in Kinds[c], BeginUse(c, kind),
           maxRetries' = maxRetries
    PROVE  ClientInv'
<1>. DEFINE frame == [call[c] EXCEPT !.kind = kind]
<1>1. kind \in {"connect", "command", "scan"} /\ call[c].pc = "idle" /\ UNCHANGED <<faults, effects>>
  BY Kind DEF BeginUse, Begin
<1>2. call[c] \in Frame /\ upset \in SUBSET Caller /\ faults \in Nat /\ client \in Driver \cup {NoDriver}
  BY OwnFrame DEF ClientInv, ClientTypeOK
<1>3. frame \in Frame /\ frame.kind = kind
  <2>1. kind \in {"connect", "command", "scan", "disconnect"}
    BY <1>1
  <2>. QED BY <1>2, <2>1, KindFrame
<1>4. \/ /\ IsOpen(client) /\ kind = "connect"
         /\ call' = [call EXCEPT ![c] = [frame EXCEPT !.pc = "ok"]]
         /\ UNCHANGED <<client, driver, dial, upset>>
      \/ /\ IsOpen(client) /\ kind # "connect"
         /\ StartOperation(c, frame, client)
         /\ UNCHANGED <<client, driver, dial>>
      \/ ~IsOpen(client) /\ Connect(c, frame)
  BY DEF BeginUse
<1>. HIDE DEF frame
<1>5. faults' \in Nat /\ faults <= faults' /\ (dial.pc = "none" \/ c \notin dial.owner)
      /\ effects' \in {effects, [effects EXCEPT ![c] = @ + 1]}
  BY <1>1, <1>2, OwnFrame
<1>6. dial' = dial => (dial' = NoDial => dial.pc \notin {"dialling", "backoff"})
  BY DEF NoDial
<1>7. CASE /\ IsOpen(client) /\ kind = "connect"
           /\ call' = [call EXCEPT ![c] = [frame EXCEPT !.pc = "ok"]]
           /\ UNCHANGED <<client, driver, dial, upset>>
  <2>0. "ok" \in Pc
    BY DEF Pc, Settled
  <2>. DEFINE ok == [frame EXCEPT !.pc = "ok"]
  <2>a. ok \in Frame /\ ok.pc = "ok" /\ ok.kind = "connect"
    BY <1>3, <1>7, <2>0, PcFrame
  <2>1. PICK g \in Frame : call' = [call EXCEPT ![c] = g] /\ g.pc = "ok" /\ g.kind = "connect"
    BY <1>7, <2>a
  <2>2. KindOK(g) /\ QuitOK(g) /\ Undisturbed(g)' /\ Effective(g, effects'[c]) /\ g.pc # "connecting"
    BY <2>1 DEF KindOK, QuitOK, Undisturbed, Effective
  <2>3. dial' \in {dial, NoDial} /\ upset' \in SUBSET Caller /\ upset \subseteq upset'
    BY <1>2, <1>7
  <2>. QED BY <1>5, <1>6, <1>7, <2>1, <2>2, <2>3, OneCallMoves
<1>8. CASE /\ IsOpen(client) /\ kind # "connect"
           /\ StartOperation(c, frame, client)
           /\ UNCHANGED <<client, driver, dial>>
  <2>1. PICK g \in Frame :
              /\ call' = [call EXCEPT ![c] = g] /\ g.kind = frame.kind
              /\ \/ g.pc = "telemetryError" /\ upset' = upset \cup {c}
                 \/ /\ g.pc = "attempt" /\ g.driver = client /\ g.attempt = 1
                    /\ g.sent = IsOpen(client) /\ upset' = upset
    BY <1>2, <1>3, <1>8, OperationStarts
  <2>2. KindOK(g) /\ QuitOK(g) /\ Effective(g, effects'[c]) /\ g.pc # "connecting"
    BY <1>1, <1>3, <1>8, <2>1 DEF KindOK, QuitOK, Effective
  <2>3. ASSUME c \notin upset' PROVE Undisturbed(g)'
    <3>1. g.pc = "attempt" /\ g.driver = client /\ g.attempt = 1 /\ g.sent = IsOpen(client)
      BY <2>1, <2>3
    <3>2. IsOpen(client) /\ IsOpen(client)'
      BY <1>8 DEF IsOpen
    <3>3. g.sent
      BY <3>1, <3>2
    <3>4. g.attempt <= faults' + 1
      <4>1. g.attempt = 1
        BY <3>1
      <4>2. faults' = faults /\ faults \in Nat
        BY <1>1, <1>2
      <4>3. 1 <= faults' + 1
        BY <4>2
      <4>. QED BY <4>1, <4>3
    <3>. QED BY <1>8, <3>1, <3>2, <3>3, <3>4 DEF Undisturbed
  <2>4. dial' \in {dial, NoDial} /\ upset' \in SUBSET Caller /\ upset \subseteq upset'
    BY <1>2, <1>8, <2>1
  <2>. QED BY <1>5, <1>6, <1>8, <2>1, <2>2, <2>3, <2>4, OneCallMoves
<1>9. CASE ~IsOpen(client) /\ Connect(c, frame)
  <2>1. CASE dial.pc # "none"
    <3>. DEFINE pc == CASE dial.pc = "ok"     -> "connected"
                        [] dial.pc = "failed" -> "refused"
                        [] OTHER              -> "connecting"
    <3>1. /\ call' = [call EXCEPT ![c] = [frame EXCEPT !.pc = pc]]
          /\ upset' = IF dial.attempt = 0 \/ client = NoDriver THEN upset \cup {c} ELSE upset
          /\ UNCHANGED <<client, driver, dial>>
      BY <1>9, <2>1 DEF Connect
    <3>2. pc \in Pc
      BY DEF Pc
    <3>. HIDE DEF pc
    <3>3. PICK g \in Frame : call' = [call EXCEPT ![c] = g] /\ g.pc = pc /\ g.kind = kind
      BY <1>3, <3>1, <3>2, PcFrame
    <3>. QED BY <1>1, <2>1, <3>1, <3>3, JoinKeeps DEF pc
  <2>2. CASE dial.pc = "none"
    <3>0. "refused" \in Pc /\ "connecting" \in Pc
      BY DEF Pc
    <3>1. PICK d \in Driver, pc \in Pc :
             /\ driver[d] = "unused"
             /\ call' = [call EXCEPT ![c] = [frame EXCEPT !.pc = pc]]
             /\ \/ /\ client' = NoDriver /\ driver' = [driver EXCEPT ![d] = "closed"]
                   /\ dial' = [pc |-> "failed", owner |-> {c}, attempt |-> 0]
                   /\ pc = "refused" /\ upset' = upset \cup {c}
                \/ /\ client' = d /\ driver' = [driver EXCEPT ![d] = "dialling"]
                   /\ dial' = [pc |-> "dialling", owner |-> {c}, attempt |-> 1]
                   /\ pc = "connecting" /\ upset' = upset
      BY <1>9, <2>2, <3>0 DEF Connect
    <3>2. PICK g \in Frame : call' = [call EXCEPT ![c] = g] /\ g.pc = pc /\ g.kind = kind
      BY <1>3, <3>1, PcFrame
    <3>. QED BY <1>1, <1>9, <2>2, <3>1, <3>2, NewDialKeeps
  <2>. QED BY <2>1, <2>2
<1>. QED BY <1>4, <1>7, <1>8, <1>9

LEMMA DisconnectKeeps ==
    ASSUME ClientInv, NEW c \in Caller, Disconnect(c), maxRetries' = maxRetries
    PROVE  ClientInv'
<1>. USE DEF ClientInv
<1>. DEFINE f == QuittingOf(call[c], "disconnect", client)
<1>0. /\ call[c].pc = "idle" /\ call[c] \in Frame /\ client \in Driver \cup {NoDriver}
      /\ faults \in Nat /\ maxRetries \in Nat /\ upset \in SUBSET Caller
      /\ c \notin dial.owner \/ dial.pc = "none"
  BY OwnFrame DEF Disconnect, Begin, ClientTypeOK
<1>1. f \in Frame /\ f.kind = "disconnect" /\ f.driver = client
  BY <1>0, KindAndDriver, SMTT(60)
<1>2. /\ \/ /\ IsOpen(client) /\ driver' = [driver EXCEPT ![client] = "closing"]
            /\ call' = [call EXCEPT ![c] = [f EXCEPT !.pc = "quitting"]]
         \/ /\ ~IsOpen(client) /\ driver' = driver
            /\ call' = [call EXCEPT ![c] = [f EXCEPT !.pc = "ok"]]
      /\ client' = NoDriver
      /\ upset' = IF client = NoDriver THEN upset ELSE upset \cup Running
      /\ UNCHANGED <<dial, faults, effects>>
  BY DEF Disconnect, QuittingOf
<1>. HIDE DEF f
<1>3. "quitting" \in Pc /\ "ok" \in Pc
  BY DEF Pc, Settled
<1>4. PICK g \in Frame :
        /\ call' = [call EXCEPT ![c] = g] /\ g.kind = "disconnect" /\ g.driver = client
        /\ \/ IsOpen(client) /\ driver' = [driver EXCEPT ![client] = "closing"] /\ g.pc = "quitting"
           \/ ~IsOpen(client) /\ driver' = driver /\ g.pc = "ok"
  <2>1. CASE IsOpen(client)
    <3>. DEFINE h == [f EXCEPT !.pc = "quitting"]
    <3>1. h \in Frame /\ h.pc = "quitting" /\ h.kind = "disconnect" /\ h.driver = client
      BY <1>1, <1>3, PcFrame
    <3>. QED BY <1>2, <2>1, <3>1
  <2>2. CASE ~IsOpen(client)
    <3>. DEFINE h == [f EXCEPT !.pc = "ok"]
    <3>1. h \in Frame /\ h.pc = "ok" /\ h.kind = "disconnect" /\ h.driver = client
      BY <1>1, <1>3, PcFrame
    <3>. QED BY <1>2, <2>2, <3>1
  <2>. QED BY <2>1, <2>2
<1>5. /\ call' \in [Caller -> Frame] /\ call'[c] = g
      /\ \A e \in Caller : e # c => call'[e] = call[e]
  BY <1>4 DEF ClientTypeOK
<1>6. IsOpen(client) => client \in Driver
  BY <1>0 DEF IsOpen
<1>7. /\ driver' \in [Driver -> {"unused", "dialling", "open", "closing", "closed"}]
      /\ \A d \in Driver : driver'[d] = driver[d] \/ (d = client /\ driver'[d] = "closing")
  BY <1>4, <1>6 DEF ClientTypeOK
<1>8. \A d \in Driver : driver'[d] \notin {"dialling", "open"}
  <2>1. ASSUME NEW d \in Driver, d # client PROVE driver[d] \notin {"dialling", "open"}
    BY <2>1, Drivers DEF NoDriverLeaks, IsOpen
  <2>2. CASE IsOpen(client)
    BY <1>4, <1>6, <1>7, <2>1, <2>2 DEF ClientTypeOK
  <2>3. CASE ~IsOpen(client)
    BY <1>4, <2>1, <2>3, Drivers DEF IsOpen
  <2>. QED BY <2>2, <2>3
<1>9. upset' \in SUBSET Caller /\ upset \subseteq upset'
  BY <1>0, <1>2 DEF Running
<1>10. ClientTypeOK'
  BY <1>2, <1>5, <1>7, <1>9 DEF ClientTypeOK
<1>11. NoDriverLeaks'
  BY <1>8 DEF NoDriverLeaks, IsOpen
<1>12. DialInv'
  <2>1. \A e \in Caller : call'[e].pc = "connecting" => call[e].pc = "connecting"
    BY <1>4, <1>5
  <2>2. dial.pc # "none" => \A e \in dial.owner : call'[e] = call[e]
    BY <1>0, <1>5 DEF ClientTypeOK
  <2>3. dial' = dial /\ client' = NoDriver
    BY <1>2
  <2>4. dial.pc \in {"dialling", "backoff"} => dial.owner # {} /\ \A e \in dial.owner : call'[e].pc = "connecting"
    BY <2>2 DEF DialInv
  <2>5. dial.pc = "ok" => dial.owner # {} /\ \A e \in dial.owner : call'[e].pc = "connected"
    BY <2>2 DEF DialInv
  <2>6. dial.pc = "failed" => dial.owner # {} /\ \A e \in dial.owner : call'[e].pc = "refused"
    BY <2>2 DEF DialInv
  <2>7. dial.pc \notin {"dialling", "backoff"} => \A e \in Caller : call'[e].pc # "connecting"
    BY <2>1 DEF DialInv
  <2>. QED BY <1>8, <2>3, <2>4, <2>5, <2>6, <2>7 DEF DialInv
<1>13. CallsInv'
  <2>1. ASSUME NEW e \in Caller, e # c
        PROVE  /\ KindOK(call[e])' /\ QuitOK(call[e])' /\ (e \notin upset' => Undisturbed(call[e])')
               /\ Effective(call[e], effects[e])'
    <3>1. call'[e] = call[e] /\ effects'[e] = effects[e] /\ faults' \in Nat /\ faults <= faults'
      BY <1>0, <1>2, <1>5, <2>1
    <3>2. QuitOK(call[e]) /\ (e \notin upset => Undisturbed(call[e]))
      BY OwnFrame
    <3>3. call[e].pc = "quitting" => /\ call[e].driver # client'
                                     /\ driver'[call[e].driver] \in {"closing", "closed"}
      BY <1>2, <1>7, <3>2, Drivers DEF QuitOK
    <3>4. e \notin upset' => call[e].pc \notin {"connecting", "connected", "attempt", "backoff"}
      <4>1. CASE client = NoDriver
        BY <1>2, <3>2, <4>1 DEF Undisturbed, IsOpen
      <4>2. CASE client # NoDriver
        BY <1>2, <4>2 DEF Running, Settled
      <4>. QED BY <4>1, <4>2
    <3>. QED BY <1>9, <3>1, <3>3, <3>4, OtherCalls
  <2>2. /\ KindOK(call[c])' /\ QuitOK(call[c])' /\ (c \notin upset' => Undisturbed(call[c])')
        /\ Effective(call[c], effects[c])'
    <3>1. g.pc = "quitting" => g.driver \in Driver /\ g.driver # client' /\ driver'[g.driver] = "closing"
      BY <1>2, <1>4, <1>6, Drivers DEF ClientTypeOK
    <3>. QED BY <1>4, <1>5, <3>1 DEF KindOK, QuitOK, Undisturbed, Effective
  <2>. QED BY <2>1, <2>2 DEF CallsInv
<1>. QED BY <1>10, <1>11, <1>12, <1>13

LEMMA QuitEndsKeeps ==
    ASSUME ClientInv, NEW c \in Caller, QuitEnds(c), maxRetries' = maxRetries
    PROVE  ClientInv'
<1>. USE DEF ClientInv
<1>0. /\ call[c] \in Frame /\ KindOK(call[c]) /\ QuitOK(call[c])
      /\ faults \in Nat /\ maxRetries \in Nat /\ upset \in SUBSET Caller
      /\ call[c].pc = "quitting" /\ (c \notin dial.owner \/ dial.pc = "none")
  BY OwnFrame DEF QuitEnds
<1>. DEFINE d == call[c].driver
<1>1. d \in Driver /\ d # client /\ driver[d] \in {"closing", "closed"} /\ call[c].kind = "disconnect"
  BY <1>0 DEF QuitOK, KindOK
<1>2. PICK pc \in {"ok", "quitError"} : call' = [call EXCEPT ![c] = [call[c] EXCEPT !.pc = pc]]
  BY DEF QuitEnds
<1>3. pc \in Pc
  BY DEF Pc, Settled
<1>4. PICK g \in Frame : call' = [call EXCEPT ![c] = g] /\ g.pc = pc /\ g.kind = "disconnect"
  <2>. DEFINE h == [call[c] EXCEPT !.pc = pc]
  <2>1. h \in Frame /\ h.pc = pc /\ h.kind = "disconnect"
    BY <1>0, <1>1, <1>3, PcFrame
  <2>. QED BY <1>2, <2>1
<1>5. /\ driver' = [driver EXCEPT ![d] = "closed"] /\ faults' \in {faults, faults + 1}
      /\ UNCHANGED <<client, dial, effects, upset>>
  BY DEF QuitEnds, Fault
<1>. HIDE DEF d
<1>6. /\ call' \in [Caller -> Frame] /\ call'[c] = g
      /\ \A e \in Caller : e # c => call'[e] = call[e]
      /\ driver' \in [Driver -> {"unused", "dialling", "open", "closing", "closed"}]
      /\ driver'[d] = "closed" /\ \A e \in Driver : e # d => driver'[e] = driver[e]
      /\ faults' \in Nat /\ faults <= faults' /\ client \in Driver \cup {NoDriver}
  BY <1>0, <1>1, <1>4, <1>5 DEF ClientTypeOK
<1>7. ClientTypeOK'
  BY <1>5, <1>6 DEF ClientTypeOK
<1>8. NoDriverLeaks'
  BY <1>5, <1>6 DEF NoDriverLeaks, IsOpen
<1>9. client # NoDriver => driver'[client] = driver[client]
  BY <1>1, <1>6
<1>10. DialInv'
  <2>1. \A e \in Caller : call'[e].pc = "connecting" => call[e].pc = "connecting"
    BY <1>4, <1>6
  <2>2. dial.pc # "none" => \A e \in dial.owner : call'[e] = call[e]
    BY <1>0, <1>6 DEF ClientTypeOK
  <2>3. dial.attempt \in Nat /\ dial' = dial /\ client' = client
    BY <1>5 DEF ClientTypeOK
  <2>4. dial.pc \in {"dialling", "backoff"} => /\ \A e \in Driver : driver'[e] # "open"
                                               /\ dial.owner # {} /\ \A e \in dial.owner : call'[e].pc = "connecting"
    BY <1>6, <2>2 DEF DialInv
  <2>5. dial.pc = "ok" => dial.owner # {} /\ \A e \in dial.owner : call'[e].pc = "connected"
    BY <2>2 DEF DialInv
  <2>6. dial.pc = "failed" => client = NoDriver /\ dial.owner # {} /\ \A e \in dial.owner : call'[e].pc = "refused"
    BY <2>2 DEF DialInv
  <2>7. dial.pc \notin {"dialling", "backoff"} => \A e \in Caller : call'[e].pc # "connecting"
    BY <2>1 DEF DialInv
  <2>8. client # NoDriver =>
           /\ dial.pc = "dialling" => driver'[client] = "dialling" /\ dial.attempt <= faults' + 1
           /\ dial.pc = "backoff" => driver'[client] = "closed" /\ dial.attempt <= faults'
           /\ dial.pc = "ok" => driver'[client] = "open"
    BY <1>0, <1>6, <1>9, <2>3 DEF DialInv
  <2>. QED BY <2>3, <2>4, <2>5, <2>6, <2>7, <2>8 DEF DialInv
<1>11. CallsInv'
  <2>1. ASSUME NEW e \in Caller, e # c
        PROVE  /\ KindOK(call[e])' /\ QuitOK(call[e])' /\ (e \notin upset' => Undisturbed(call[e])')
               /\ Effective(call[e], effects[e])'
    <3>1. call'[e] = call[e] /\ effects'[e] = effects[e]
      BY <1>5, <1>6, <2>1
    <3>2. QuitOK(call[e]) /\ (e \notin upset => Undisturbed(call[e]))
      BY OwnFrame
    <3>3. call[e].pc = "quitting" => /\ call[e].driver # client'
                                     /\ driver'[call[e].driver] \in {"closing", "closed"}
      BY <1>5, <1>6, <3>2 DEF QuitOK
    <3>4. e \notin upset' =>
              /\ call[e].pc = "connecting" => client' # NoDriver
              /\ call[e].pc = "connected" => client' # NoDriver /\ driver'[client'] = "open"
              /\ call[e].pc \in {"attempt", "backoff"} => call[e].driver = client' /\ IsOpen(client)'
      BY <1>5, <1>9, <3>2 DEF Undisturbed, IsOpen
    <3>. QED BY <1>5, <1>6, <3>1, <3>3, <3>4, OtherCalls
  <2>2. /\ KindOK(call[c])' /\ QuitOK(call[c])' /\ (c \notin upset' => Undisturbed(call[c])')
        /\ Effective(call[c], effects[c])'
    BY <1>4, <1>6 DEF KindOK, QuitOK, Undisturbed, Effective
  <2>. QED BY <2>1, <2>2 DEF CallsInv
<1>. QED BY <1>7, <1>8, <1>10, <1>11

LEMMA DriverDiesKeeps ==
    ASSUME ClientInv, NEW d \in Driver, DriverDies(d), maxRetries' = maxRetries
    PROVE  ClientInv'
<1>. USE DEF ClientInv
<1>1. /\ driver[d] = "open" /\ driver' = [driver EXCEPT ![d] = "closed"] /\ faults' = faults + 1
      /\ upset' = upset \cup {c \in Running : call[c].driver = d} /\ Quiet
      /\ UNCHANGED <<client, dial, call, effects>>
  BY DEF DriverDies, Fault
<1>2. d = client
  BY <1>1, Drivers DEF NoDriverLeaks, IsOpen
<1>3. /\ driver' \in [Driver -> {"unused", "dialling", "open", "closing", "closed"}]
      /\ driver'[d] = "closed" /\ \A e \in Driver : e # d => driver'[e] = driver[e]
      /\ faults \in Nat /\ faults' \in Nat /\ faults <= faults'
      /\ upset' \in SUBSET Caller /\ upset \subseteq upset'
  BY <1>1 DEF ClientTypeOK, Running
<1>4. ClientTypeOK'
  BY <1>1, <1>3 DEF ClientTypeOK
<1>5. NoDriverLeaks'
  BY <1>1, <1>3 DEF NoDriverLeaks, IsOpen
<1>6. dial.pc = "none"
  <2>1. dial.pc \notin {"dialling", "backoff"}
    BY <1>1 DEF DialInv
  <2>2. dial.pc \notin {"ok", "failed"}
    <3>1. dial.owner \subseteq Caller
      BY DEF ClientTypeOK
    <3>. QED BY <1>1, <3>1 DEF DialInv, Quiet
  <2>. QED BY <2>1, <2>2 DEF ClientTypeOK
<1>7. DialInv'
  BY <1>1, <1>6 DEF DialInv
<1>8. CallsInv'
  <2>1. ASSUME NEW e \in Caller
        PROVE  /\ KindOK(call[e])' /\ QuitOK(call[e])' /\ (e \notin upset' => Undisturbed(call[e])')
               /\ Effective(call[e], effects[e])'
    <3>1. QuitOK(call[e]) /\ (e \notin upset => Undisturbed(call[e]))
      BY OwnFrame
    <3>2. call[e].pc \notin {"connecting", "connected"}
      BY <1>1, <1>6 DEF DialInv, Quiet
    <3>3. call[e].pc = "quitting" => /\ call[e].driver # client'
                                     /\ driver'[call[e].driver] \in {"closing", "closed"}
      BY <1>1, <1>3, <3>1 DEF QuitOK
    <3>4. e \notin upset' => call[e].pc \notin {"attempt", "backoff"}
      <4>1. ASSUME call[e].pc \in {"attempt", "backoff"}, e \notin upset PROVE e \in upset'
        <5>1. call[e].driver = d /\ e \in Running
          BY <1>2, <3>1, <4>1 DEF Undisturbed, Running, Settled
        <5>. QED BY <1>1, <5>1
      <4>. QED BY <1>3, <4>1
    <3>. QED BY <1>1, <1>3, <3>2, <3>3, <3>4, OtherCalls
  <2>. QED BY <2>1 DEF CallsInv
<1>. QED BY <1>4, <1>5, <1>7, <1>8

\* A connection attempt settles: everybody who waits for it is woken.
LEMMA DialWakes ==
    ASSUME ClientTypeOK, NEW outcome \in {"ok", "failed"}, DialSettles(outcome)
    PROVE  /\ dial' \in [pc : {"none", "dialling", "backoff", "ok", "failed"},
                         owner : SUBSET Caller, attempt : Nat]
           /\ dial'.pc = outcome /\ dial'.owner = dial.owner
           /\ call' \in [Caller -> Frame]
           /\ \A e \in Caller :
                 /\ call[e].pc # "connecting" => call'[e] = call[e]
                 /\ call[e].pc = "connecting" =>
                       /\ call'[e].pc = IF outcome = "ok" THEN "connected" ELSE "refused"
                       /\ call'[e].kind = call[e].kind
<1>1. dial' = [dial EXCEPT !.pc = outcome]
  BY DEF DialSettles
<1>2. /\ dial' \in [pc : {"none", "dialling", "backoff", "ok", "failed"},
                    owner : SUBSET Caller, attempt : Nat]
      /\ dial'.pc = outcome /\ dial'.owner = dial.owner
  BY <1>1 DEF ClientTypeOK
<1>. DEFINE pc == IF outcome = "ok" THEN "connected" ELSE "refused"
<1>3. pc \in Pc
  BY DEF Pc
<1>4. call' = [e \in Caller |-> IF call[e].pc = "connecting" THEN [call[e] EXCEPT !.pc = pc] ELSE call[e]]
  BY DEF DialSettles
<1>. HIDE DEF pc
<1>5. \A e \in Caller : /\ call[e] \in Frame /\ [call[e] EXCEPT !.pc = pc] \in Frame
                        /\ [call[e] EXCEPT !.pc = pc].pc = pc
                        /\ [call[e] EXCEPT !.pc = pc].kind = call[e].kind
  BY <1>3, PcFrame DEF ClientTypeOK
<1>6. call' \in [Caller -> Frame]
  BY <1>4, <1>5
<1>7. \A e \in Caller : /\ call[e].pc # "connecting" => call'[e] = call[e]
                        /\ call[e].pc = "connecting" => call'[e].pc = pc /\ call'[e].kind = call[e].kind
  BY <1>4, <1>5
<1>. QED BY <1>2, <1>6, <1>7 DEF pc

\* What is left to show of a step that wakes them.
LEMMA WakingKeeps ==
    ASSUME ClientInv, NEW outcome \in {"ok", "failed"}, DialSettles(outcome),
           dial.pc \in {"dialling", "backoff"}, maxRetries' = maxRetries, effects' = effects,
           faults' \in Nat, faults <= faults', upset' \in SUBSET Caller, upset \subseteq upset',
           client' \in {client, NoDriver},
           driver' \in [Driver -> {"unused", "dialling", "open", "closing", "closed"}],
           \A d \in Driver : driver[d] \in {"closing", "closed"} => driver'[d] = driver[d],
           NoDriverLeaks',
           outcome = "ok" => (client' # NoDriver => driver'[client'] = "open"),
           outcome = "failed" => client' = NoDriver,
           \A e \in Caller \ upset' :
              /\ call[e].pc = "connecting" =>
                    IF outcome = "ok" THEN client' # NoDriver ELSE maxRetries' < faults'
              /\ call[e].pc # "connected"
              /\ call[e].pc \in {"attempt", "backoff"} => call[e].driver = client' /\ IsOpen(client)'
    PROVE  ClientInv'
<1>. USE DEF ClientInv
<1>1. /\ dial' \in [pc : {"none", "dialling", "backoff", "ok", "failed"},
                    owner : SUBSET Caller, attempt : Nat]
      /\ dial'.pc = outcome /\ dial'.owner = dial.owner
      /\ call' \in [Caller -> Frame]
      /\ \A e \in Caller :
            /\ call[e].pc # "connecting" => call'[e] = call[e]
            /\ call[e].pc = "connecting" =>
                  /\ call'[e].pc = IF outcome = "ok" THEN "connected" ELSE "refused"
                  /\ call'[e].kind = call[e].kind
  BY DialWakes
<1>2. ClientTypeOK'
  BY <1>1 DEF ClientTypeOK
<1>3. DialInv'
  <2>1. \A e \in Caller : call'[e].pc # "connecting"
    BY <1>1
  <2>2. /\ dial.owner # {} /\ dial.owner \subseteq Caller
        /\ \A e \in dial.owner : call[e].pc = "connecting"
    BY DEF DialInv, ClientTypeOK
  <2>3. \A e \in dial.owner : call'[e].pc = IF outcome = "ok" THEN "connected" ELSE "refused"
    BY <1>1, <2>2
  <2>4. CASE outcome = "ok"
    BY <1>1, <2>1, <2>2, <2>3, <2>4 DEF DialInv
  <2>5. CASE outcome = "failed"
    BY <1>1, <2>1, <2>2, <2>3, <2>5 DEF DialInv
  <2>. QED BY <2>4, <2>5
<1>4. CallsInv'
  <2>1. ASSUME NEW e \in Caller, call[e].pc # "connecting"
        PROVE  /\ KindOK(call[e])' /\ QuitOK(call[e])' /\ (e \notin upset' => Undisturbed(call[e])')
               /\ Effective(call[e], effects[e])'
    <3>1. call'[e] = call[e] /\ effects'[e] = effects[e]
      BY <1>1, <2>1
    <3>2. QuitOK(call[e])
      BY OwnFrame
    <3>3. call[e].pc = "quitting" => /\ call[e].driver # client'
                                     /\ driver'[call[e].driver] \in {"closing", "closed"}
      BY <3>2, Drivers DEF QuitOK
    <3>4. e \notin upset' =>
              /\ call[e].pc = "connecting" => client' # NoDriver
              /\ call[e].pc = "connected" => client' # NoDriver /\ driver'[client'] = "open"
              /\ call[e].pc \in {"attempt", "backoff"} => call[e].driver = client' /\ IsOpen(client)'
      BY <2>1
    <3>. QED BY <3>1, <3>3, <3>4, OtherCalls
  <2>2. ASSUME NEW e \in Caller, call[e].pc = "connecting"
        PROVE  /\ KindOK(call[e])' /\ QuitOK(call[e])' /\ (e \notin upset' => Undisturbed(call[e])')
               /\ Effective(call[e], effects[e])'
    <3>1. /\ call'[e].pc = IF outcome = "ok" THEN "connected" ELSE "refused"
          /\ call'[e].kind = call[e].kind /\ KindOK(call[e])
      BY <1>1, <2>2, OwnFrame
    <3>2. KindOK(call[e])' /\ QuitOK(call[e])' /\ Effective(call[e], effects[e])'
      BY <2>2, <3>1 DEF KindOK, QuitOK, Effective
    <3>3. e \notin upset' => Undisturbed(call[e])'
      <4>1. CASE outcome = "ok"
        BY <2>2, <3>1, <4>1 DEF Undisturbed
      <4>2. CASE outcome = "failed"
        BY <2>2, <3>1, <4>2 DEF Undisturbed
      <4>. QED BY <4>1, <4>2
    <3>. QED BY <3>2, <3>3
  <2>. QED BY <2>1, <2>2 DEF CallsInv
<1>. QED BY <1>2, <1>3, <1>4

LEMMA DialSucceedsKeeps ==
    ASSUME ClientInv, DialSucceeds, maxRetries' = maxRetries
    PROVE  ClientInv'
<1>. USE DEF ClientInv
<1>1. /\ Quiet /\ dial.pc = "dialling" /\ DialSettles("ok")
      /\ driver' = [d \in Driver |-> IF driver[d] = "dialling" THEN "open" ELSE driver[d]]
      /\ UNCHANGED <<client, faults, effects, upset>>
  BY DEF DialSucceeds
<1>2. /\ client \in Driver \cup {NoDriver} /\ faults \in Nat /\ upset \in SUBSET Caller
      /\ driver' \in [Driver -> {"unused", "dialling", "open", "closing", "closed"}]
      /\ \A d \in Driver : driver[d] \in {"closing", "closed"} => driver'[d] = driver[d]
      /\ \A d \in Driver : driver'[d] \in {"dialling", "open"} => driver[d] \in {"dialling", "open"}
      /\ \A d \in Driver : driver[d] \in {"dialling", "open"} => driver'[d] \in {"dialling", "open"}
      /\ \A d \in Driver : driver[d] = "dialling" => driver'[d] = "open"
  BY <1>1 DEF ClientTypeOK
<1>3. NoDriverLeaks'
  BY <1>1, <1>2 DEF NoDriverLeaks, IsOpen
<1>4. client # NoDriver => driver'[client] = "open"
  BY <1>1, <1>2 DEF DialInv
<1>5. ASSUME NEW e \in Caller \ upset
      PROVE  /\ call[e].pc = "connecting" => client # NoDriver
             /\ call[e].pc # "connected"
             /\ call[e].pc \in {"attempt", "backoff"} => call[e].driver = client' /\ IsOpen(client)'
  <2>1. Undisturbed(call[e]) /\ call[e].pc # "connected"
    BY <1>1, OwnFrame DEF Quiet
  <2>. QED BY <1>1, <1>2, <2>1 DEF Undisturbed, IsOpen
<1>6. DialSettles("ok") /\ faults' \in Nat /\ faults <= faults' /\ upset' \in SUBSET Caller /\ upset \subseteq upset'
      /\ client' \in {client, NoDriver} /\ client' = client /\ effects' = effects /\ upset' = upset
  BY <1>1, <1>2
<1>7. \A out \in {"ok", "failed"} : out = "ok" /\ DialSettles(out) => ClientInv'
  BY <1>1, <1>2, <1>3, <1>4, <1>5, <1>6, WakingKeeps
<1>. QED BY <1>6, <1>7

LEMMA DialFailsKeeps ==
    ASSUME ClientInv, DialFails, maxRetries' = maxRetries
    PROVE  ClientInv'
<1>. USE DEF ClientInv
<1>1. /\ Quiet /\ dial.pc = "dialling"
      /\ IF \E d \in Driver : driver[d] = "dialling" THEN faults' = faults + 1 ELSE faults' = faults
      /\ driver' = [d \in Driver |-> IF driver[d] = "dialling" THEN "closed" ELSE driver[d]]
      /\ upset' = upset \cup {c \in Running : call[c].driver # NoDriver}
      /\ effects' = effects
      /\ \/ dial.attempt > maxRetries /\ DialSettles("failed") /\ client' = NoDriver
         \/ ~(dial.attempt > maxRetries) /\ dial' = [dial EXCEPT !.pc = "backoff"] /\ UNCHANGED <<call, client>>
  BY DEF DialFails, Fault
<1>2. /\ client \in Driver \cup {NoDriver} /\ faults \in Nat /\ upset \in SUBSET Caller
      /\ driver' \in [Driver -> {"unused", "dialling", "open", "closing", "closed"}]
      /\ \A d \in Driver : driver[d] \in {"closing", "closed"} => driver'[d] = driver[d]
      /\ \A d \in Driver : driver[d] = "dialling" => driver'[d] = "closed"
      /\ maxRetries \in Nat /\ dial.attempt \in Nat
  BY <1>1 DEF ClientTypeOK
<1>3. \A d \in Driver : driver'[d] \notin {"dialling", "open"}
  BY <1>1 DEF DialInv, ClientTypeOK
<1>4. NoDriverLeaks'
  BY <1>3 DEF NoDriverLeaks, IsOpen
<1>5. faults' \in Nat /\ faults <= faults' /\ upset' \in SUBSET Caller /\ upset \subseteq upset'
  BY <1>1, <1>2 DEF Running
<1>6. client # NoDriver => driver'[client] = "closed" /\ dial.attempt <= faults'
  <2>1. SUFFICES ASSUME client # NoDriver PROVE driver'[client] = "closed" /\ dial.attempt <= faults'
    OBVIOUS
  <2>2. client \in Driver /\ driver[client] = "dialling" /\ dial.attempt <= faults + 1
    BY <1>1, <1>2, <2>1 DEF DialInv
  <2>3. faults' = faults + 1
    BY <1>1, <2>2
  <2>. QED BY <1>2, <2>2, <2>3
<1>7. ASSUME NEW e \in Caller \ upset'
      PROVE  /\ call[e].pc = "connecting" => client # NoDriver
             /\ call[e].pc \notin {"connected", "attempt", "backoff"}
  <2>1. Undisturbed(call[e]) /\ call[e].pc # "connected"
    BY <1>1, <1>5, OwnFrame DEF Quiet
  <2>2. ASSUME call[e].pc \in {"attempt", "backoff"} PROVE FALSE
    <3>1. call[e].driver # NoDriver /\ e \in Running
      BY <2>1, <2>2 DEF Undisturbed, IsOpen, Running, Settled
    <3>. QED BY <1>1, <3>1
  <2>. QED BY <2>1, <2>2 DEF Undisturbed
<1>8. CASE dial.attempt > maxRetries /\ DialSettles("failed") /\ client' = NoDriver
  <2>1. ASSUME NEW e \in Caller \ upset', call[e].pc = "connecting" PROVE maxRetries' < faults'
    BY <1>2, <1>5, <1>6, <1>7, <1>8, <2>1
  <2>2. \A out \in {"ok", "failed"} : out = "failed" /\ DialSettles(out) => ClientInv'
    <3>1. client' \in {client, NoDriver} /\ client' = NoDriver
      BY <1>8
    <3>2. SUFFICES ASSUME NEW out \in {"ok", "failed"}, out = "failed", DialSettles(out)
                   PROVE  ClientInv'
      OBVIOUS
    <3>3. \A e \in Caller \ upset' :
              /\ call[e].pc = "connecting" =>
                    IF out = "ok" THEN client' # NoDriver ELSE maxRetries' < faults'
              /\ call[e].pc # "connected"
              /\ call[e].pc \in {"attempt", "backoff"} => call[e].driver = client' /\ IsOpen(client)'
      BY <1>7, <2>1, <3>2
    <3>. QED BY <1>1, <1>2, <1>4, <1>5, <3>1, <3>2, <3>3, WakingKeeps
  <2>. QED BY <1>8, <2>2
<1>9. CASE dial' = [dial EXCEPT !.pc = "backoff"] /\ UNCHANGED <<call, client>>
  <2>1. /\ dial' \in [pc : {"none", "dialling", "backoff", "ok", "failed"}, owner : SUBSET Caller, attempt : Nat]
        /\ dial'.pc = "backoff" /\ dial'.owner = dial.owner /\ dial'.attempt = dial.attempt
    BY <1>9 DEF ClientTypeOK
  <2>2. ClientTypeOK'
    BY <1>1, <1>2, <1>5, <1>9, <2>1 DEF ClientTypeOK
  <2>3. DialInv'
    <3>1. dial.owner # {} /\ \A e \in dial.owner : call[e].pc = "connecting"
      BY <1>1 DEF DialInv
    <3>. QED BY <1>3, <1>6, <1>9, <2>1, <3>1 DEF DialInv
  <2>4. ASSUME NEW e \in Caller
        PROVE  /\ KindOK(call[e])' /\ QuitOK(call[e])' /\ (e \notin upset' => Undisturbed(call[e])')
               /\ Effective(call[e], effects[e])'
    <3>1. QuitOK(call[e])
      BY OwnFrame
    <3>2. call[e].pc = "quitting" => /\ call[e].driver # client'
                                     /\ driver'[call[e].driver] \in {"closing", "closed"}
      BY <1>2, <1>9, <3>1 DEF QuitOK
    <3>3. e \notin upset' =>
              /\ call[e].pc = "connecting" => client' # NoDriver
              /\ call[e].pc = "connected" => client' # NoDriver /\ driver'[client'] = "open"
              /\ call[e].pc \in {"attempt", "backoff"} => call[e].driver = client' /\ IsOpen(client)'
      BY <1>7, <1>9
    <3>. QED BY <1>1, <1>5, <1>9, <3>2, <3>3, OtherCalls
  <2>. QED BY <1>4, <2>2, <2>3, <2>4 DEF CallsInv
<1>. QED BY <1>1, <1>8, <1>9

LEMMA DialAgainKeeps ==
    ASSUME ClientInv, DialAgain, maxRetries' = maxRetries
    PROVE  ClientInv'
<1>. USE DEF ClientInv
<1>1. /\ Quiet /\ dial.pc = "backoff" /\ UNCHANGED <<client, faults, effects, upset>>
      /\ \/ /\ client # NoDriver
            /\ driver' = [driver EXCEPT ![client] = "dialling"]
            /\ dial' = [dial EXCEPT !.pc = "dialling", !.attempt = @ + 1]
            /\ UNCHANGED call
         \/ /\ client = NoDriver
            /\ DialSettles("ok")
            /\ UNCHANGED driver
  BY DEF DialAgain
<1>2. /\ client \in Driver \cup {NoDriver} /\ faults \in Nat /\ upset \in SUBSET Caller
      /\ maxRetries \in Nat /\ dial.attempt \in Nat
  BY DEF ClientTypeOK
<1>3. ASSUME NEW e \in Caller \ upset
      PROVE  Undisturbed(call[e]) /\ call[e].pc # "connected"
  BY <1>1, OwnFrame DEF Quiet
<1>4. CASE client = NoDriver /\ DialSettles("ok") /\ UNCHANGED driver
  <2>1. NoDriverLeaks'
    BY <1>1, <1>4 DEF NoDriverLeaks, IsOpen
  <2>2. \A e \in Caller \ upset' : call[e].pc \notin {"connecting", "connected", "attempt", "backoff"}
    BY <1>1, <1>3, <1>4 DEF Undisturbed, IsOpen
  <2>3. driver' \in [Driver -> {"unused", "dialling", "open", "closing", "closed"}]
    BY <1>4 DEF ClientTypeOK
  <2>4. faults' \in Nat /\ faults <= faults' /\ upset' \in SUBSET Caller /\ upset \subseteq upset' /\ client' \in {client, NoDriver}
    BY <1>1, <1>2
  <2>5. \A out \in {"ok", "failed"} : out = "ok" /\ DialSettles(out) => ClientInv'
    BY <1>1, <1>4, <2>1, <2>2, <2>3, <2>4, WakingKeeps
  <2>. QED BY <1>4, <2>5
<1>5. CASE /\ client # NoDriver
           /\ driver' = [driver EXCEPT ![client] = "dialling"]
           /\ dial' = [dial EXCEPT !.pc = "dialling", !.attempt = @ + 1]
           /\ UNCHANGED call
  <2>1. /\ client \in Driver /\ driver[client] = "closed" /\ dial.attempt <= faults
        /\ \A d \in Driver : driver[d] # "open"
        /\ dial.owner # {} /\ \A e \in dial.owner : call[e].pc = "connecting"
    BY <1>1, <1>2, <1>5 DEF DialInv
  <2>2. /\ driver' \in [Driver -> {"unused", "dialling", "open", "closing", "closed"}]
        /\ driver'[client] = "dialling" /\ \A d \in Driver : d # client => driver'[d] = driver[d]
    BY <1>5, <2>1 DEF ClientTypeOK
  <2>3. /\ dial' \in [pc : {"none", "dialling", "backoff", "ok", "failed"}, owner : SUBSET Caller, attempt : Nat]
        /\ dial'.pc = "dialling" /\ dial'.owner = dial.owner /\ dial'.attempt = dial.attempt + 1
    <3>. DEFINE n == dial.attempt + 1
    <3>1. n \in Nat
      BY <1>2
    <3>2. dial' = [dial EXCEPT !.pc = "dialling", !.attempt = n]
      BY <1>5
    <3>. HIDE DEF n
    <3>. QED BY <3>1, <3>2 DEF ClientTypeOK, n
  <2>4. ClientTypeOK'
    BY <1>1, <1>5, <2>2, <2>3 DEF ClientTypeOK
  <2>5. NoDriverLeaks'
    BY <1>1, <2>2 DEF NoDriverLeaks, IsOpen
  <2>6. DialInv'
    <3>1. dial'.attempt <= faults' + 1
      BY <1>1, <1>2, <2>1, <2>3
    <3>2. \A d \in Driver : driver'[d] # "open"
      BY <2>1, <2>2
    <3>. QED BY <1>1, <1>5, <2>1, <2>2, <2>3, <3>1, <3>2 DEF DialInv
  <2>7. ASSUME NEW e \in Caller
        PROVE  /\ KindOK(call[e])' /\ QuitOK(call[e])' /\ (e \notin upset' => Undisturbed(call[e])')
               /\ Effective(call[e], effects[e])'
    <3>1. QuitOK(call[e])
      BY OwnFrame
    <3>2. call[e].pc = "quitting" => /\ call[e].driver # client'
                                     /\ driver'[call[e].driver] \in {"closing", "closed"}
      BY <1>1, <2>2, <3>1 DEF QuitOK
    <3>3. IsOpen(client)'
      BY <1>1, <1>5, <2>2 DEF IsOpen
    <3>4. e \notin upset' =>
              /\ call[e].pc = "connecting" => client' # NoDriver
              /\ call[e].pc # "connected"
              /\ call[e].pc \in {"attempt", "backoff"} => call[e].driver = client' /\ IsOpen(client)'
      BY <1>1, <1>3, <1>5, <3>3 DEF Undisturbed
    <3>5. faults' \in Nat /\ faults <= faults'
      BY <1>1, <1>2
    <3>. QED BY <1>1, <1>5, <3>2, <3>4, <3>5, OtherCalls
  <2>. QED BY <2>4, <2>5, <2>6, <2>7 DEF CallsInv
<1>. QED BY <1>1, <1>4, <1>5

LEMMA ClientInvStep == ClientInv /\ [Next]_vars => ClientInv'
<1>. SUFFICES ASSUME ClientInv, [Next]_vars PROVE ClientInv'
  OBVIOUS
<1>1. ASSUME NEW c \in Caller, CallProgress(c) PROVE ClientInv'
  BY <1>1, AttemptSucceedsKeeps, AttemptFailsKeeps, AttemptAgainKeeps, ScanEndsKeeps, ResumeKeeps,
     QuitEndsKeeps DEF CallProgress
<1>2. ASSUME DialProgress PROVE ClientInv'
  BY <1>2, DialSucceedsKeeps, DialFailsKeeps, DialAgainKeeps DEF DialProgress
<1>3. CASE UNCHANGED redisVars
  BY <1>3 DEF redisVars, ClientInv, ClientTypeOK, NoDriverLeaks, IsOpen, DialInv, CallsInv, KindOK,
              QuitOK, Undisturbed, Effective
<1>. QED BY <1>1, <1>2, <1>3, BeginUseKeeps, DisconnectKeeps, DriverDiesKeeps
         DEF Next, vars, ConsumerTelemetry, TelemetryProgress

LEMMA InitialClient == Init => ClientInv
<1>. SUFFICES ASSUME Init PROVE ClientInv
  OBVIOUS
<1>1. Idle \in Frame /\ NoDial \in [pc : {"none", "dialling", "backoff", "ok", "failed"},
                                    owner : SUBSET Caller, attempt : Nat]
  BY DEF Idle, Frame, Pc, NoDial
<1>2. ClientTypeOK
  BY <1>1, RedisClientAssumption DEF Init, ClientTypeOK
<1>3. NoDriverLeaks
  BY DEF Init, NoDriverLeaks, IsOpen
<1>4. DialInv
  BY DEF Init, DialInv, NoDial, Idle
<1>5. CallsInv
  BY DEF Init, CallsInv, Idle, KindOK, QuitOK, Undisturbed, Effective
<1>. QED BY <1>2, <1>3, <1>4, <1>5 DEF ClientInv

\* The form of drivers, the connection attempt and the frames of calls, and what a
\* call that nothing upset may count on, for any number of callers and faults.
THEOREM ClientInvariance == Spec => []ClientInv
<1>. QED BY InitialClient, ClientInvStep, PTL DEF Spec

\* The client holds the only driver that is connected or connecting, whatever calls
\* overlap.
THEOREM DriversDoNotLeak == Spec => []NoDriverLeaks
<1>1. ClientInv => NoDriverLeaks
  BY DEF ClientInv
<1>. QED BY <1>1, ClientInvariance, PTL

\* A call whose driver was not taken away and that no telemetry error hit fails only
\* after more faults than there are retries.
THEOREM FaultsAreMasked == Spec => []RetriesMaskFaults
<1>1. ClientInv => RetriesMaskFaults
  <2>. SUFFICES ASSUME ClientInv, NEW c \in Caller \ upset
                PROVE  /\ call[c].pc \in {"connectionError", "unavailable", "operationError"}
                             => faults > maxRetries
                       /\ call[c].pc # "telemetryError"
    BY DEF RetriesMaskFaults
  <2>1. Undisturbed(call[c])
    BY OwnFrame
  <2>. QED BY <2>1 DEF Undisturbed
<1>. QED BY <1>1, ClientInvariance, PTL

-----------------------------------------------------------------------------
(* Commands and scans implement the at-least-once operation.               *)

StageOf(f) ==
    IF f.kind \notin {"command", "scan"} THEN "idle"
    ELSE IF f.pc = "ok" THEN "ok"
    ELSE IF f.pc \in Settled THEN "failed" ELSE "running"
Stages == [c \in Caller |-> StageOf(call[c])]

LEMMA StagesMapped ==
    /\ Operations!vars = <<Stages, effects>>
    /\ Operations!Next <=> \E c \in Caller :
          \/ /\ Stages[c] = "idle"
             /\ Stages' \in {[Stages EXCEPT ![c] = "running"], [Stages EXCEPT ![c] = "failed"]}
             /\ effects' = effects
          \/ /\ Stages[c] = "running"
             /\ effects' \in {effects, [effects EXCEPT ![c] = @ + 1]}
             /\ \E next \in {"running", "ok", "failed"} :
                   /\ next = "ok" => effects'[c] > 0
                   /\ Stages' = [Stages EXCEPT ![c] = next]
BY DEF Operations!vars, Operations!Next, Operations!Begin, Operations!Run, Stages, StageOf

LEMMA OneOperationMoves ==
    ASSUME ClientTypeOK, NEW c \in Caller, NEW g \in Frame, call' = [call EXCEPT ![c] = g],
           \/ effects' = effects /\ StageOf(g) = StageOf(call[c])
           \/ effects' = effects /\ StageOf(call[c]) = "idle" /\ StageOf(g) \in {"running", "failed"}
           \/ /\ StageOf(call[c]) = "running" /\ StageOf(g) \in {"running", "ok", "failed"}
              /\ effects' \in {effects, [effects EXCEPT ![c] = @ + 1]}
              /\ StageOf(g) = "ok" => effects'[c] > 0
    PROVE  [Operations!Next]_(Operations!vars)
<1>1. call'[c] = g /\ \A e \in Caller : e # c => call'[e] = call[e]
  BY DEF ClientTypeOK
<1>2. Stages' = [Stages EXCEPT ![c] = StageOf(g)]
  <2>1. Stages' = [e \in Caller |-> StageOf(call'[e])]
    BY DEF Stages, StageOf, Settled
  <2>2. \A e \in Caller : StageOf(call'[e]) = IF e = c THEN StageOf(g) ELSE Stages[e]
    BY <1>1 DEF Stages
  <2>3. Stages' = [e \in Caller |-> IF e = c THEN StageOf(g) ELSE Stages[e]]
    BY <2>1, <2>2, Zenon
  <2>. QED BY <2>3 DEF Stages
<1>3. Stages[c] = StageOf(call[c])
  BY DEF Stages
<1>4. CASE effects' = effects /\ StageOf(g) = StageOf(call[c])
  <2>1. Stages' = Stages
    BY <1>2, <1>3, <1>4 DEF Stages
  <2>2. UNCHANGED Operations!vars
    BY <1>4, <2>1 DEF Operations!vars, Stages, StageOf
  <2>. QED BY <2>2
<1>. QED BY <1>2, <1>3, <1>4, StagesMapped

LEMMA StageIs ==
    ASSUME NEW f \in Frame
    PROVE  /\ f.kind \notin {"command", "scan"} => StageOf(f) = "idle"
           /\ f.kind \in {"command", "scan"} =>
                 /\ f.pc = "ok" => StageOf(f) = "ok"
                 /\ f.pc \in Settled \ {"ok"} => StageOf(f) = "failed"
                 /\ f.pc \notin Settled => StageOf(f) = "running"
BY DEF StageOf, Settled

\* A caller keeps its kind of call; a caller of a command or a scan goes on, fails,
\* or answers "ok" with an effect behind it.
LEMMA OperationGoesOn ==
    ASSUME ClientInv, NEW c \in Caller, NEW g \in Frame, call' = [call EXCEPT ![c] = g],
           g.kind = call[c].kind,
           call[c].kind \in {"command", "scan"} => call[c].pc \notin Settled,
           effects' \in {effects, [effects EXCEPT ![c] = @ + 1]},
           effects' # effects => call[c].kind \in {"command", "scan"},
           g.pc = "ok" /\ call[c].kind \in {"command", "scan"} => effects'[c] > 0
    PROVE  [Operations!Next]_(Operations!vars)
<1>1. ClientTypeOK /\ call[c] \in Frame
  BY OwnFrame DEF ClientInv
<1>2. CASE call[c].kind \notin {"command", "scan"}
  <2>1. StageOf(g) = StageOf(call[c]) /\ effects' = effects
    BY <1>1, <1>2, StageIs
  <2>. QED BY <1>1, <2>1, OneOperationMoves
<1>3. CASE call[c].kind \in {"command", "scan"}
  <2>1. StageOf(call[c]) = "running"
    BY <1>1, <1>3, StageIs
  <2>2. StageOf(g) \in {"running", "ok", "failed"} /\ (StageOf(g) = "ok" => g.pc = "ok")
    BY <1>3, StageIs
  <2>. QED BY <1>1, <1>3, <2>1, <2>2, OneOperationMoves
<1>. QED BY <1>2, <1>3

LEMMA BeginMaps ==
    ASSUME ClientInv, NEW c \in Caller, NEW g \in Frame, call' = [call EXCEPT ![c] = g],
           call[c].pc = "idle", effects' = effects,
           g.kind \in {"command", "scan"} => g.pc # "ok"
    PROVE  [Operations!Next]_(Operations!vars)
<1>1. ClientTypeOK /\ call[c] \in Frame /\ call[c].kind = "none"
  BY OwnFrame DEF ClientInv, KindOK
<1>2. StageOf(call[c]) = "idle"
  BY <1>1, StageIs
<1>3. StageOf(g) \in {"idle", "running", "failed"}
  BY StageIs
<1>. QED BY <1>1, <1>2, <1>3, OneOperationMoves

LEMMA OthersMap ==
    ASSUME ClientInv, effects' = effects, call' \in [Caller -> Frame],
           \A e \in Caller : \/ call'[e] = call[e]
                             \/ /\ call'[e].kind = call[e].kind
                                /\ call'[e].pc \notin Settled /\ call[e].pc \notin Settled
    PROVE  [Operations!Next]_(Operations!vars)
<1>1. \A e \in Caller : call[e] \in Frame /\ call'[e] \in Frame
  BY OwnFrame
<1>2. \A e \in Caller : StageOf(call'[e]) = StageOf(call[e])
  BY <1>1, StageIs
<1>3. Stages' = [e \in Caller |-> StageOf(call'[e])]
  BY DEF Stages, StageOf, Settled
<1>4. Stages' = Stages
  BY <1>2, <1>3 DEF Stages
<1>. QED BY <1>4 DEF Operations!vars, Stages, StageOf

LEMMA OperationStep == ClientInv /\ [Next]_vars => [Operations!Next]_(Operations!vars)
<1>. SUFFICES ASSUME ClientInv, [Next]_vars PROVE [Operations!Next]_(Operations!vars)
  OBVIOUS
<1>0. \A c \in Caller : /\ call[c] \in Frame /\ KindOK(call[c]) /\ Effective(call[c], effects[c])
                        /\ effects[c] \in Nat
  BY OwnFrame
<1>S. \A pc \in {"scanning", "ok", "scanError", "quitError", "attempt", "connectionError", "unavailable",
                 "connected", "refused", "connecting"} : pc \in Pc
  BY DEF Pc, Settled
<1>1. ASSUME NEW c \in Caller, AttemptSucceeds(c) PROVE [Operations!Next]_(Operations!vars)
  <2>1. PICK pc \in Pc : call' = [call EXCEPT ![c] = [call[c] EXCEPT !.pc = pc]]
    BY <1>1, <1>S DEF AttemptSucceeds
  <2>2. PICK g \in Frame : call' = [call EXCEPT ![c] = g] /\ g.kind = call[c].kind /\ g.pc = pc
    BY <1>0, <2>1, PcFrame
  <2>3. effects' = [effects EXCEPT ![c] = @ + 1] /\ call[c].pc = "attempt"
    BY <1>1 DEF AttemptSucceeds
  <2>4. effects'[c] > 0 /\ call[c].kind \in {"command", "scan"}
    BY <1>0, <2>3 DEF KindOK, ClientInv, ClientTypeOK
  <2>. QED BY <2>2, <2>3, <2>4, OperationGoesOn DEF Settled
<1>2. ASSUME NEW c \in Caller, AttemptFails(c) PROVE [Operations!Next]_(Operations!vars)
  <2>1. /\ call' = [call EXCEPT ![c] = Failed(call[c])] /\ call[c].pc = "attempt"
        /\ effects' \in {effects, [effects EXCEPT ![c] = @ + 1]}
    BY <1>2 DEF AttemptFails
  <2>2. PICK g \in Frame : call' = [call EXCEPT ![c] = g] /\ g.kind = call[c].kind /\ g.pc # "ok"
    BY <1>0, <2>1, FailedFrame
  <2>3. call[c].kind \in {"command", "scan"}
    BY <1>0, <2>1 DEF KindOK
  <2>. QED BY <2>1, <2>2, <2>3, OperationGoesOn DEF Settled
<1>3. ASSUME NEW c \in Caller, AttemptAgain(c) PROVE [Operations!Next]_(Operations!vars)
  <2>. DEFINE s == IsOpen(call[c].driver)
  <2>1. call[c].attempt + 1 \in Nat /\ s \in BOOLEAN /\ call[c].pc = "backoff" /\ effects' = effects
    BY <1>3, OwnFrame DEF IsOpen, AttemptAgain
  <2>2. call' = [call EXCEPT ![c] = Attempting(call[c], call[c].attempt + 1, s)]
    BY <1>3 DEF AttemptAgain, ClientInv, ClientTypeOK, Frame, Attempting
  <2>. HIDE DEF s
  <2>3. PICK g \in Frame : call' = [call EXCEPT ![c] = g] /\ g.kind = call[c].kind /\ g.pc # "ok"
    BY <1>0, <2>1, <2>2, AttemptFrame
  <2>. QED BY <2>1, <2>3, OperationGoesOn DEF Settled
<1>4. ASSUME NEW c \in Caller, ScanEnds(c) PROVE [Operations!Next]_(Operations!vars)
  <2>1. PICK pc \in Pc : call' = [call EXCEPT ![c] = [call[c] EXCEPT !.pc = pc]]
    BY <1>4, <1>S DEF ScanEnds
  <2>2. PICK g \in Frame : call' = [call EXCEPT ![c] = g] /\ g.kind = call[c].kind
    <3>1. call[c] \in Frame
      BY <1>0
    <3>2. /\ [call[c] EXCEPT !.pc = pc] \in Frame
          /\ [call[c] EXCEPT !.pc = pc].kind = call[c].kind
      BY ONLY <3>1, pc \in Pc, PcFrame
    <3>. QED BY <2>1, <3>2
  <2>3. effects' = effects /\ call[c].pc = "scanning"
    BY <1>4 DEF ScanEnds
  <2>4. effects'[c] > 0 /\ call[c].kind = "scan"
    BY <1>0, <2>3 DEF KindOK, Effective
  <2>. QED BY <2>2, <2>3, <2>4, OperationGoesOn DEF Settled
<1>5. ASSUME NEW c \in Caller, QuitEnds(c) PROVE [Operations!Next]_(Operations!vars)
  <2>1. PICK pc \in Pc : call' = [call EXCEPT ![c] = [call[c] EXCEPT !.pc = pc]]
    BY <1>5, <1>S DEF QuitEnds
  <2>2. PICK g \in Frame : call' = [call EXCEPT ![c] = g] /\ g.kind = call[c].kind
    <3>1. call[c] \in Frame
      BY <1>0
    <3>2. /\ [call[c] EXCEPT !.pc = pc] \in Frame
          /\ [call[c] EXCEPT !.pc = pc].kind = call[c].kind
      BY ONLY <3>1, pc \in Pc, PcFrame
    <3>. QED BY <2>1, <3>2
  <2>3. effects' = effects /\ call[c].kind = "disconnect"
    BY <1>0, <1>5 DEF QuitEnds, KindOK
  <2>. QED BY <2>2, <2>3, OperationGoesOn
<1>6. ASSUME NEW c \in Caller, Resume(c) PROVE [Operations!Next]_(Operations!vars)
  <2>1. effects' = effects /\ call[c].pc \in {"connected", "refused"}
    BY <1>6 DEF Resume
  <2>2. call[c].pc \notin Settled
    BY <2>1 DEF Settled
  <2>3. ASSUME NEW pc \in Pc, call' = [call EXCEPT ![c] = [call[c] EXCEPT !.pc = pc]],
               pc = "ok" => call[c].kind = "connect"
        PROVE  [Operations!Next]_(Operations!vars)
    <3>1. PICK g \in Frame : call' = [call EXCEPT ![c] = g] /\ g.kind = call[c].kind /\ g.pc = pc
      BY <1>0, <2>3, PcFrame
    <3>. QED BY <2>1, <2>2, <2>3, <3>1, OperationGoesOn
  <2>4. ASSUME client \in Driver \cup {NoDriver}, StartOperation(c, call[c], client)
        PROVE  [Operations!Next]_(Operations!vars)
    <3>1. PICK g \in Frame : /\ call' = [call EXCEPT ![c] = g] /\ g.kind = call[c].kind
                             /\ g.pc \in {"telemetryError", "attempt"}
      BY <1>0, <2>4, OperationStarts
    <3>. QED BY <2>1, <2>2, <3>1, OperationGoesOn
  <2>. QED BY <1>6, <1>S, <2>3, <2>4 DEF Resume, ClientInv, ClientTypeOK
<1>7. ASSUME NEW c \in Caller, NEW kind \in Kinds[c], BeginUse(c, kind)
      PROVE  [Operations!Next]_(Operations!vars)
  <2>1. kind \in {"connect", "command", "scan", "disconnect"} /\ call[c].pc = "idle" /\ effects' = effects
    BY <1>7, Kind DEF BeginUse, Begin
  <2>. DEFINE frame == [call[c] EXCEPT !.kind = kind]
  <2>2. frame \in Frame /\ frame.kind = kind
    BY <1>0, <2>1, KindFrame
  <2>3. \/ kind = "connect" /\ call' = [call EXCEPT ![c] = [frame EXCEPT !.pc = "ok"]]
        \/ StartOperation(c, frame, client)
        \/ Connect(c, frame)
    BY <1>7 DEF BeginUse
  <2>. HIDE DEF frame
  <2>4. CASE kind = "connect" /\ call' = [call EXCEPT ![c] = [frame EXCEPT !.pc = "ok"]]
    <3>. DEFINE h == [frame EXCEPT !.pc = "ok"]
    <3>1. h \in Frame /\ h.kind = kind
      BY <1>S, <2>2, PcFrame
    <3>2. call' = [call EXCEPT ![c] = h]
      BY <2>4
    <3>. HIDE DEF h
    <3>. QED BY <2>1, <2>4, <3>1, <3>2, BeginMaps
  <2>5. CASE StartOperation(c, frame, client)
    <3>0. client \in Driver \cup {NoDriver}
      BY DEF ClientInv, ClientTypeOK
    <3>1. \E g \in Frame :
              /\ call' = [call EXCEPT ![c] = g] /\ g.kind = frame.kind
              /\ \/ g.pc = "telemetryError" /\ upset' = upset \cup {c}
                 \/ /\ g.pc = "attempt" /\ g.driver = client /\ g.attempt = 1
                    /\ g.sent = IsOpen(client) /\ upset' = upset
      BY <2>2, <2>5, <3>0, OperationStarts
    <3>2. PICK g \in Frame : call' = [call EXCEPT ![c] = g] /\ g.pc \in {"telemetryError", "attempt"}
      BY <3>1
    <3>. QED BY <2>1, <3>2, BeginMaps
  <2>6. CASE Connect(c, frame)
    <3>1. PICK pc \in {"connected", "refused", "connecting"} : call' = [call EXCEPT ![c] = [frame EXCEPT !.pc = pc]]
      BY <2>6 DEF Connect
    <3>2. pc \in Pc
      BY <1>S
    <3>3. PICK g \in Frame : call' = [call EXCEPT ![c] = g] /\ g.pc = pc
      BY <2>2, <3>1, <3>2, PcFrame
    <3>. QED BY <2>1, <3>3, BeginMaps
  <2>. QED BY <2>3, <2>4, <2>5, <2>6
<1>8. ASSUME NEW c \in Caller, Disconnect(c) PROVE [Operations!Next]_(Operations!vars)
  <2>. DEFINE f == QuittingOf(call[c], "disconnect", client)
  <2>1. /\ call[c].pc = "idle" /\ client \in Driver \cup {NoDriver} /\ effects' = effects
        /\ \E pc \in {"quitting", "ok"} : call' = [call EXCEPT ![c] = [f EXCEPT !.pc = pc]]
    BY <1>8 DEF Disconnect, Begin, QuittingOf, ClientInv, ClientTypeOK
  <2>2. f \in Frame /\ f.kind = "disconnect"
    BY <1>0, <2>1, KindAndDriver, SMTT(60)
  <2>. HIDE DEF f
  <2>3. "quitting" \in Pc /\ "ok" \in Pc
    BY DEF Pc, Settled
  <2>5. PICK pc \in Pc : call' = [call EXCEPT ![c] = [f EXCEPT !.pc = pc]]
    BY <2>1, <2>3
  <2>6. [f EXCEPT !.pc = pc] \in Frame /\ [f EXCEPT !.pc = pc].kind = f.kind
    BY <2>2, PcFrame
  <2>4. PICK g \in Frame : call' = [call EXCEPT ![c] = g] /\ g.kind = "disconnect"
    BY <2>2, <2>5, <2>6
  <2>. QED BY <2>1, <2>4, BeginMaps
<1>9. ASSUME DialProgress PROVE [Operations!Next]_(Operations!vars)
  <2>1. CASE \E outcome \in {"ok", "failed"} : DialSettles(outcome) /\ effects' = effects
    <3>1. PICK outcome \in {"ok", "failed"} : DialSettles(outcome) /\ effects' = effects
      BY <2>1
    <3>2. /\ call' \in [Caller -> Frame]
          /\ \A e \in Caller :
                /\ call[e].pc # "connecting" => call'[e] = call[e]
                /\ call[e].pc = "connecting" =>
                      /\ call'[e].pc = IF outcome = "ok" THEN "connected" ELSE "refused"
                      /\ call'[e].kind = call[e].kind
      BY <3>1, DialWakes DEF ClientInv
    <3>. QED BY <3>1, <3>2, OthersMap DEF Settled
  <2>2. CASE call' = call /\ effects' = effects
    BY <2>2, OthersMap DEF ClientInv, ClientTypeOK
  <2>. QED BY <1>9, <2>1, <2>2 DEF DialProgress, DialSucceeds, DialFails, DialAgain
<1>10. ASSUME call' = call, effects' = effects PROVE [Operations!Next]_(Operations!vars)
  BY <1>10, OthersMap DEF ClientInv, ClientTypeOK
<1>11. ASSUME NEW d \in Driver, DriverDies(d) PROVE [Operations!Next]_(Operations!vars)
  BY <1>10, <1>11 DEF DriverDies
<1>12. CASE UNCHANGED redisVars
  BY <1>10, <1>12 DEF redisVars
<1>. QED BY <1>1, <1>2, <1>3, <1>4, <1>5, <1>6, <1>7, <1>8, <1>9, <1>11, <1>12
         DEF Next, CallProgress, vars, ConsumerTelemetry, TelemetryProgress

\* Every behaviour of the client is, for its commands and scans, one of the
\* at-least-once operation: an answer "ok" has an effect behind it, and nothing
\* takes effect after the answer.
THEOREM ImplementsAtLeastOnce == Spec => IsAtLeastOnce
<1>1. Init => Operations!Init
  <2>. SUFFICES ASSUME Init PROVE Operations!Init
    OBVIOUS
  <2>1. \A c \in Caller : StageOf(call[c]) = "idle"
    BY DEF Init, Idle, StageOf
  <2>2. Stages = [c \in Caller |-> "idle"]
    BY <2>1 DEF Stages
  <2>. QED BY <2>2 DEF Init, Operations!Init, Stages, StageOf
<1>. QED BY <1>1, OperationStep, ClientInvariance, PTL DEF Spec, IsAtLeastOnce, Operations!Spec
=============================================================================
