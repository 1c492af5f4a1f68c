----------------------------- MODULE PageActions -----------------------------
(***************************************************************************)
(* The actions of one page object and what a failing one goes through:     *)
(* shared initialization, run budget, screenshot, analysis, guarded        *)
(* validation, a single retry on another locator, registry telemetry and   *)
(* the failure artifact (pageObjectBase.ts, pageActionPipeline.ts and the  *)
(* parts of framework/selfHealing they call).                              *)
(*                                                                         *)
(* Calls overlap: a test may start an action before it awaits another.     *)
(* One action of the module is one stretch between two awaits; awaits of   *)
(* one call between which nothing shared is read or written are one step.  *)
(***************************************************************************)
EXTENDS RunBudget, Sequences, FiniteSets

CONSTANTS
    MaxActions,      \* bound on the calls of one page object
    Operations,      \* the operations tests call
    Configs          \* the self-healing configurations of the environment

Action == 1 .. MaxActions

\* "suggested" stands for a locator the heuristics or the DOM propose,
\* "registry" for the locator the selector registry holds.
Source   == {"suggested", "registry"}
NoSource == "none"
Host     == {"listed", "unlisted"}     \* is the host on the allow-list?

NeedsInit == {"getTitle", "takeScreenshot", "waitForTimeout", "click", "type", "getText",
              "waitForSelector", "clickWhenVisible"}
Heals     == {"click", "type", "getText", "waitForSelector", "clickWhenVisible"}
Navigates == {"navigateTo", "open"}
AllOperations == NeedsInit \cup Navigates \cup {"close"}

\* The types of action that guarded validation can be allowed for; others are blocked.
ActionType == [click |-> "click", clickWhenVisible |-> "click", type |-> "type",
               getText |-> "read", getTitle |-> "read",
               waitForSelector |-> "wait", waitForTimeout |-> "wait"]

\* broken: what of the environment cannot be resolved, with strict
\* configuration and with an invalid Redis address.
Config == [mode       : {"off", "suggest", "guarded"},
           budget     : {"warning_only", "enforce"},
           maxHealing : Nat,
           maxArtifacts : Nat,
           screenshot : BOOLEAN,
           sat        : BOOLEAN,
           registry   : {"off", "read", "write_pending"},
           runtime    : BOOLEAN,
           allowed    : SUBSET {"click", "type", "read", "wait"},
           restricted : BOOLEAN,
           broken     : {"none", "config", "registry"}]

ASSUME ConstantsAssumption ==
    /\ MaxActions \in Nat \ {0}
    /\ Operations \subseteq AllOperations
    /\ Configs \subseteq Config

VARIABLES
    config,
    host,            \* where the page is
    initialized,
    promise,         \* the number of the run initializationPromise stands for, or 0
    inits,           \* the runs of initialize
    budget,
    act,             \* act[a]: the frame of call a
    counters,        \* the counters of the telemetry sink
    history          \* history[s]: the counters of candidate s in the store

vars == <<config, host, initialized, promise, inits, budget, act, counters, history>>

Frame == [pc       : {"idle", "initializing", "acting", "opening", "screenshot", "analysing",
                      "validating", "healing", "observing", "proposing", "writing", "settled"},
          op       : AllOperations \cup {"none"},
          selector : BOOLEAN,                \* the caller named the selector
          awaits   : Nat,                    \* the run of initialize it waits for
          error    : {"none", "own", "init", "config", "registry", "input"},
          url      : Host,                   \* resolveCurrentUrl
          sequence : Nat,                    \* of the failure, 0 before it is counted
          decision : Downgrade,
          ranked   : Seq(Source),            \* SAT candidates, best first
          visible  : SUBSET Source,          \* eligible, and visible when validated
          accepted : Source \cup {NoSource},
          heal     : {"none", "skipped", "succeeded", "failed"},
          healedOn : Host,                   \* where the retry ran
          observed : Nat,                    \* SAT candidates whose history is dealt with
          promotion : {"none", "skipped", "failed", "succeeded"},
          artifact : BOOLEAN,
          status   : {"running", "refused", "succeeded", "self_healed", "failed"}]

Idle == [pc |-> "idle", op |-> "none", selector |-> FALSE, awaits |-> 0, error |-> "none",
         url |-> "listed", sequence |-> 0, decision |-> "none", ranked |-> <<>>,
         visible |-> {}, accepted |-> NoSource, heal |-> "none", healedOn |-> "listed",
         observed |-> 0, promotion |-> "none", artifact |-> FALSE, status |-> "running"]

NoCounts == [succeeded |-> 0, self_healed |-> 0, failed |-> 0,     \* pageActionsTotal
             failures |-> 0,                                       \* pageActionFailuresTotal
             applied |-> 0, notApplied |-> 0]                      \* guardedAutoHealTotal

NoHistory == [attempts |-> 0, validated |-> 0, applied |-> 0, notApplied |-> 0]

Init ==
    /\ config \in Configs
    /\ host = "listed"
    /\ initialized = FALSE
    /\ promise = 0
    /\ inits = <<>>
    /\ budget = NoFailures
    /\ act = [a \in Action |-> Idle]
    /\ counters = NoCounts
    /\ history = [s \in Source |-> NoHistory]

Is(a, pc)   == act[a].pc = pc
Goes(a, f)  == act' = [act EXCEPT ![a] = f]
RunsHealing(f) == config.mode # "off" /\ f.decision = "none"
Captures(f)    == config.mode # "off" /\ f.decision # "original_error_only"

-----------------------------------------------------------------------------
\* The end of a call.

\* Mutant of Counted: a call that healed itself is counted a failure too.
Counted_Bug(f) ==
    counters' = [counters EXCEPT
        ![f.status] = @ + 1,
        !.failures  = @ + (IF f.error # "none" THEN 1 ELSE 0),
        !.applied   = @ + (IF f.heal = "succeeded" THEN 1 ELSE 0),
        !.notApplied = @ + (IF f.heal \in {"skipped", "failed"} THEN 1 ELSE 0)]

\* The finally block of safeActionWithTelemetry.
Counted(f) ==
    counters' = [counters EXCEPT
        ![f.status] = @ + 1,
        !.failures  = @ + (IF f.status = "failed" THEN 1 ELSE 0),
        !.applied   = @ + (IF f.heal = "succeeded" THEN 1 ELSE 0),
        !.notApplied = @ + (IF f.heal \in {"skipped", "failed"} THEN 1 ELSE 0)]

\* The frame of a call is gone with it; what it did is kept.
Settle(a, f) ==
    /\ Goes(a, [f EXCEPT !.pc = "settled", !.awaits = 0, !.url = "listed", !.ranked = <<>>,
                         !.visible = {}, !.healedOn = "listed", !.observed = 0])
    /\ Counted(f)

Reject(a, f, error) == Settle(a, [f EXCEPT !.status = "failed", !.error = error])

\* Mutant of Conclude: a retry that failed is tried again.
Conclude_Bug(a, f) ==
    IF f.heal = "succeeded"
    THEN Settle(a, [f EXCEPT !.status = "self_healed"])
    ELSE IF f.heal = "failed" THEN Goes(a, [f EXCEPT !.pc = "healing", !.observed = 0]) /\ UNCHANGED counters
    ELSE Reject(a, f, f.error)

\* After everything a failure sets off: the result of the retry, or the error.
Conclude(a, f) ==
    IF f.heal = "succeeded"
    THEN Settle(a, [f EXCEPT !.status = "self_healed"])
    ELSE Reject(a, f, f.error)

-----------------------------------------------------------------------------
\* Initialization and the action itself.

\* Mutant of EnsureInitialized: no promise is shared.
EnsureInitialized_Bug(a, f, ready) ==
    \/ /\ initialized
       /\ Goes(a, [f EXCEPT !.pc = ready])
       /\ UNCHANGED <<promise, inits>>
    \/ /\ ~initialized
       /\ inits' = Append(inits, "running")
       /\ promise' = Len(inits')
       /\ Goes(a, [f EXCEPT !.awaits = promise'])

\* f.pc is where the call waits for initialize, `ready` where it goes on.
EnsureInitialized(a, f, ready) ==
    \/ /\ initialized
       /\ Goes(a, [f EXCEPT !.pc = ready])
       /\ UNCHANGED <<promise, inits>>
    \/ /\ ~initialized /\ promise # 0
       /\ Goes(a, [f EXCEPT !.awaits = promise])
       /\ UNCHANGED <<promise, inits>>
    \/ /\ ~initialized /\ promise = 0
       /\ inits' = Append(inits, "running")
       /\ promise' = Len(inits')
       /\ Goes(a, [f EXCEPT !.awaits = promise'])

\* A test calls an operation; calls are numbered in the order they start.
Start(a) ==
    /\ Is(a, "idle") /\ \A b \in Action : b < a => ~Is(b, "idle")
    /\ \E op \in Operations, selector \in BOOLEAN :
          /\ selector => op \in Heals
          /\ LET f == [Idle EXCEPT !.op = op, !.selector = selector] IN
             \/ /\ op \in NeedsInit
                /\ EnsureInitialized(a, [f EXCEPT !.pc = "initializing"], "acting")
             \/ /\ op \notin NeedsInit
                /\ Goes(a, [f EXCEPT !.pc = "acting"])
                /\ UNCHANGED <<promise, inits>>
    /\ UNCHANGED <<config, host, initialized, budget, counters, history>>

\* Options out of range: a RangeError before the action and its telemetry begin.
Refuse(a) ==
    /\ Is(a, "idle") /\ \A b \in Action : b < a => ~Is(b, "idle")
    /\ \E op \in Operations \ {"open", "close", "getTitle", "takeScreenshot"} :
          Goes(a, [Idle EXCEPT !.pc = "settled", !.op = op, !.error = "input", !.status = "refused"])
    /\ UNCHANGED <<config, host, initialized, promise, inits, budget, counters, history>>

\* initialize() of the subclass comes to its end.
InitializeEnds(k) ==
    /\ inits[k] = "running"
    /\ \/ inits' = [inits EXCEPT ![k] = "fulfilled"] /\ initialized' = TRUE
       \/ inits' = [inits EXCEPT ![k] = "rejected"] /\ UNCHANGED initialized
    /\ UNCHANGED <<config, host, promise, budget, act, counters, history>>

\* Its finally callback; the promise others await settles only after it.
ForgetPromise ==
    /\ promise # 0 /\ inits[promise] # "running"
    /\ promise' = 0
    /\ UNCHANGED <<config, host, initialized, inits, budget, act, counters, history>>

-----------------------------------------------------------------------------
\* The failure path.

\* The registry is resolved after the screenshot; what may be healed goes on.
Onward(a, f) ==
    \/ /\ RunsHealing(f)
       /\ config.broken = "registry" /\ config.registry # "off"
       /\ Reject(a, f, "registry")
    \/ /\ RunsHealing(f)
       /\ ~(config.broken = "registry" /\ config.registry # "off")
       /\ Goes(a, [f EXCEPT !.pc = "analysing"])
       /\ UNCHANGED counters
    \/ /\ ~RunsHealing(f) /\ Captures(f)
       /\ Goes(a, [f EXCEPT !.pc = "writing"])
       /\ UNCHANGED counters
    \/ /\ ~Captures(f)
       /\ Reject(a, f, f.error)

\* Mutant of Verdict: the failure is decided on before it is counted.
Verdict_Bug(b) ==
    IF ConsumesBudget(config)
    THEN [sequence |-> b.healing + 1, decision |-> Decision(b, config)]
    ELSE [sequence |-> 0, decision |-> "original_error_only"]

\* What a failure may do that finds the counters at b.
Verdict(b) ==
    IF ConsumesBudget(config)
    THEN [sequence |-> b.healing + 1, decision |-> Decision(Consumed(b, config), config)]
    ELSE [sequence |-> 0, decision |-> "original_error_only"]

\* The catch block up to its first await.
Fails(a, f, error) ==
    \/ /\ config.broken = "config"
       /\ Reject(a, f, "config")
       /\ UNCHANGED budget
    \/ /\ config.broken # "config"
       /\ budget' = IF ConsumesBudget(config) THEN Consumed(budget, config) ELSE budget
       /\ LET g == [f EXCEPT !.error = error, !.url = host,
                             !.sequence = Verdict(budget).sequence,
                             !.decision = Verdict(budget).decision]
          IN  IF config.screenshot /\ (config.mode = "off" \/ RunsHealing(g))
              THEN Goes(a, [g EXCEPT !.pc = "screenshot"]) /\ UNCHANGED counters
              ELSE Onward(a, g)

\* The awaited initialization settles: the action runs, or fails with its error.
Resume(a) ==
    /\ Is(a, "initializing") /\ act[a].awaits # promise
    /\ LET f == [act[a] EXCEPT !.awaits = 0] IN
       \/ /\ inits[act[a].awaits] = "fulfilled"
          /\ Goes(a, [f EXCEPT !.pc = "acting"])
          /\ UNCHANGED <<budget, counters>>
       \/ /\ inits[act[a].awaits] = "rejected"
          /\ Fails(a, f, "init")
    /\ UNCHANGED <<config, host, initialized, promise, inits, history>>

\* open() awaits the initialization after its navigation was counted.
ResumeOpen(a) ==
    /\ Is(a, "opening") /\ act[a].awaits # promise
    /\ \/ /\ inits[act[a].awaits] = "fulfilled"
          /\ Goes(a, [act[a] EXCEPT !.pc = "settled", !.awaits = 0])
       \/ /\ inits[act[a].awaits] = "rejected"
          /\ Goes(a, [act[a] EXCEPT !.pc = "settled", !.awaits = 0, !.error = "init"])
    /\ UNCHANGED <<config, host, initialized, promise, inits, budget, counters, history>>

\* Where the page may be: it matters only with an allow-list.
Hosts == IF config.restricted THEN Host ELSE {"listed"}

\* The operation of the browser succeeds.
Succeeds(a) ==
    /\ Is(a, "acting")
    /\ LET f == [act[a] EXCEPT !.status = "succeeded"] IN
       \/ /\ f.op = "open"
          /\ EnsureInitialized(a, [f EXCEPT !.pc = "opening"], "settled")
          /\ Counted(f)
       \/ /\ f.op # "open"
          /\ Settle(a, f)
          /\ UNCHANGED <<promise, inits>>
    /\ host' \in IF act[a].op \in Navigates THEN Hosts ELSE {host}
    /\ UNCHANGED <<config, initialized, budget, history>>

\* It fails, or a navigation gets no response or a bad status.
ActionFails(a) ==
    /\ Is(a, "acting")
    /\ Fails(a, act[a], "own")
    /\ UNCHANGED <<config, host, initialized, promise, inits, history>>

\* The page goes elsewhere by itself.
Browse ==
    /\ host' \in Hosts \ {host}
    /\ UNCHANGED <<config, initialized, promise, inits, budget, act, counters, history>>

\* The screenshot is taken or not, which is only logged.
Screenshot(a) ==
    /\ Is(a, "screenshot")
    /\ Onward(a, act[a])
    /\ UNCHANGED <<config, host, initialized, promise, inits, budget, history>>

-----------------------------------------------------------------------------
\* Analysis, guarded validation and the retry.

\* resolveRegistryRuntime: the settings name a registry.
RuntimeResolves == config.registry # "off" /\ config.runtime

\* persistSelfHealingRegistryTelemetry begins: without a runtime it only says so.
Persisting(f) ==
    IF ~RuntimeResolves THEN [f EXCEPT !.pc = "writing", !.promotion = "skipped"]
    ELSE [f EXCEPT !.pc = IF f.ranked = <<>> THEN "proposing" ELSE "observing"]

\* The capture begins: registry telemetry first, then the artifact.
AfterHealing(f) ==
    IF config.registry = "write_pending" THEN Persisting(f) ELSE [f EXCEPT !.pc = "writing"]

\* The candidates a failure may have: what the heuristics and the DOM suggest,
\* and what the registry holds; each may be missing or fail to load.
Found == SUBSET ({"suggested"} \cup (IF RuntimeResolves THEN {"registry"} ELSE {}))

\* They are ranked; without SAT, or if the analysis throws, there are none.
Rankings ==
    IF config.sat
    THEN {r \in {<<>>} \cup {<<s>> : s \in Source} \cup {<<s, t>> : s, t \in Source} :
             \E found \in Found : /\ {r[i] : i \in DOMAIN r} = found
                                  /\ Len(r) = Cardinality(found)}
    ELSE {<<>>}

Analyse(a) ==
    /\ Is(a, "analysing")
    /\ \E ranked \in Rankings :
          LET f == [act[a] EXCEPT !.ranked = ranked]
          IN  Goes(a, IF config.mode = "guarded" THEN [f EXCEPT !.pc = "validating"]
                      ELSE AfterHealing(f))
    /\ UNCHANGED <<config, host, initialized, promise, inits, budget, counters, history>>

\* createPolicyDecision, with the address the page had when the action failed.
PolicyAllows(f) ==
    /\ f.op \in DOMAIN ActionType /\ ActionType[f.op] \in config.allowed
    /\ config.restricted => f.url = "listed"

\* Without SAT candidates the heuristic suggestions are validated, if any.
Offered(f) == IF f.ranked # <<>> THEN {f.ranked} ELSE {<<>>, <<"suggested">>}

\* The first eligible and visible candidate of the offered ones.
FirstVisible(offered, visible) ==
    IF \E i \in DOMAIN offered : offered[i] \in visible
    THEN offered[CHOOSE i \in DOMAIN offered :
                    offered[i] \in visible /\ \A j \in 1 .. i - 1 : offered[j] \notin visible]
    ELSE NoSource

\* Mutant of AfterValidation: the best candidate is retried, accepted or not.
AfterValidation_Bug(f, offered, visible) ==
    LET accepted == IF offered # <<>> THEN offered[1] ELSE NoSource
        g == [f EXCEPT !.visible = visible, !.accepted = accepted]
    IN  IF accepted # NoSource /\ f.op \in Heals THEN [g EXCEPT !.pc = "healing"]
        ELSE AfterHealing([g EXCEPT !.heal =
                 IF accepted # NoSource \/ f.op \in Heals THEN "skipped" ELSE "none"])

\* A retry follows when a candidate is accepted and the action knows how to.
AfterValidation(f, offered, visible) ==
    LET accepted == FirstVisible(offered, visible)
        g == [f EXCEPT !.visible = visible, !.accepted = accepted]
    IN  IF accepted # NoSource /\ f.op \in Heals THEN [g EXCEPT !.pc = "healing"]
        ELSE AfterHealing([g EXCEPT !.heal =
                 IF accepted # NoSource \/ f.op \in Heals THEN "skipped" ELSE "none"])

\* evaluateGuardedSuggestionsDryRun: candidates are tried best first, those
\* under the confidence floor, the last ones, are not looked at.
Validate(a) ==
    /\ Is(a, "validating")
    /\ \E offered \in IF PolicyAllows(act[a]) THEN Offered(act[a]) ELSE {<<>>} :
          \E eligible \in 0 .. Len(offered) :
             \E visible \in SUBSET {offered[i] : i \in 1 .. eligible} :
                Goes(a, AfterValidation(act[a], offered, visible))
    /\ UNCHANGED <<config, host, initialized, promise, inits, budget, counters, history>>

\* guardedAutoHealAction, once.
Heal(a) ==
    /\ Is(a, "healing")
    /\ \E result \in {"succeeded", "failed"} :
          Goes(a, AfterHealing([act[a] EXCEPT !.heal = result, !.healedOn = host]))
    /\ UNCHANGED <<config, host, initialized, promise, inits, budget, counters, history>>

-----------------------------------------------------------------------------
\* Registry telemetry and the artifact.

\* Mutant of Observation: a retry is counted for every candidate.
Observation_Bug(f, s, h) ==
    [attempts   |-> h.attempts + 1,
     validated  |-> h.validated  + (IF s \in f.visible THEN 1 ELSE 0),
     applied    |-> h.applied    + (IF f.heal = "succeeded" THEN 1 ELSE 0),
     notApplied |-> h.notApplied + (IF f.heal = "failed" THEN 1 ELSE 0)]

\* The counters of candidate s after the observation of failure f.
Observation(f, s, h) ==
    [attempts   |-> h.attempts + 1,
     validated  |-> h.validated  + (IF s \in f.visible THEN 1 ELSE 0),
     applied    |-> h.applied    + (IF s = f.accepted /\ f.heal = "succeeded" THEN 1 ELSE 0),
     notApplied |-> h.notApplied + (IF s = f.accepted /\ f.heal = "failed" THEN 1 ELSE 0)]

\* recordObservation for the next candidate; a failure is only a warning.
Observe(a) ==
    /\ Is(a, "observing")
    /\ LET f == act[a]
           n == f.observed + 1
           s == f.ranked[n]
       IN  /\ \/ history' = [history EXCEPT ![s] = Observation(f, s, @)]
              \/ UNCHANGED history
           /\ Goes(a, [f EXCEPT !.observed = n,
                                !.pc = IF n = Len(f.ranked) THEN "proposing" ELSE @])
    /\ UNCHANGED <<config, host, initialized, promise, inits, budget, counters>>

\* Mutant of Proposes: also for a retry that failed.
Proposes_Bug(f) ==
    /\ f.heal # "none" /\ f.accepted # NoSource
    /\ f.accepted \in {f.ranked[i] : i \in DOMAIN f.ranked}
    /\ f.selector /\ "registry" \in {f.ranked[i] : i \in DOMAIN f.ranked}
    /\ f.accepted # "registry"

\* Is there something to propose: the retry succeeded, the accepted candidate
\* is ranked, the selector and its version are known, its locator is another.
Proposes(f) ==
    /\ f.heal = "succeeded"
    /\ f.accepted \in {f.ranked[i] : i \in DOMAIN f.ranked}
    /\ f.selector \/ f.accepted = "registry"                       \* selectorId
    /\ "registry" \in {f.ranked[i] : i \in DOMAIN f.ranked}        \* baseSelectorVersion
    /\ f.accepted # "registry"

Propose(a) ==
    /\ Is(a, "proposing")
    /\ \E result \in IF Proposes(act[a]) THEN {"succeeded", "failed"} ELSE {"skipped"} :
          Goes(a, [act[a] EXCEPT !.pc = "writing", !.promotion = result])
    /\ UNCHANGED <<config, host, initialized, promise, inits, budget, counters, history>>

\* The artifact is written or not, which is only logged; the call ends.
WriteArtifact(a) ==
    /\ Is(a, "writing")
    /\ \E written \in BOOLEAN : Conclude(a, [act[a] EXCEPT !.artifact = written])
    /\ UNCHANGED <<config, host, initialized, promise, inits, budget, history>>

-----------------------------------------------------------------------------

Progress(a) ==
    \/ Resume(a) \/ ResumeOpen(a) \/ Succeeds(a) \/ ActionFails(a) \/ Screenshot(a)
    \/ Analyse(a) \/ Validate(a) \/ Heal(a) \/ Observe(a) \/ Propose(a) \/ WriteArtifact(a)

Initializes == (\E k \in DOMAIN inits : InitializeEnds(k)) \/ ForgetPromise

Next ==
    \/ \E a \in Action : Start(a) \/ Refuse(a) \/ Progress(a)
    \/ Initializes
    \/ Browse

Spec     == Init /\ [][Next]_vars
FairSpec == Spec /\ WF_vars(Initializes) /\ \A a \in Action : WF_vars(Progress(a))

-----------------------------------------------------------------------------

TypeOK ==
    /\ config \in Configs
    /\ host \in Host
    /\ initialized \in BOOLEAN
    /\ promise \in 0 .. Len(inits)
    /\ inits \in Seq({"running", "fulfilled", "rejected"})
    /\ budget \in Budget
    /\ act \in [Action -> Frame]
    /\ counters \in [DOMAIN NoCounts -> Nat]
    /\ history \in [Source -> [DOMAIN NoHistory -> Nat]]

(***************************************************************************)
(* An action that needs the page object initialized runs only once it is;  *)
(* concurrent actions share one run of initialize(), a failed one may be   *)
(* repeated, a successful one never is.                                    *)
(***************************************************************************)
ReadyBeforeActing ==
    /\ \A a \in Action : Is(a, "acting") /\ act[a].op \in NeedsInit => initialized
    /\ \A j, k \in DOMAIN inits : j < k => inits[j] = "rejected"

\* The failures something of the healing path was spent on.
Diagnosed == {a \in Action :
                 \/ act[a].sequence > 0 /\ act[a].decision = "none"
                 \/ act[a].ranked # <<>> \/ act[a].heal # "none" \/ act[a].promotion # "none"}
Captured  == {a \in Action : act[a].artifact \/ Is(a, "writing")}

(***************************************************************************)
(* The enforced budget bounds a failure storm, however the failures        *)
(* overlap: screenshots, analyses and retries are those of the first       *)
(* failures and no more than both limits allow, artifacts no more than     *)
(* theirs ("failures become original-error-only for the rest of the run"). *)
(***************************************************************************)
StormIsBounded ==
    config.budget = "enforce" =>
        /\ Cardinality(Diagnosed) <= config.maxHealing
        /\ Cardinality(Diagnosed) <= config.maxArtifacts
        /\ Cardinality(Captured) <= config.maxArtifacts
        /\ \A a, b \in Action :
              act[a].sequence \in 1 .. act[b].sequence /\ b \in Diagnosed => a \in Diagnosed

(***************************************************************************)
(* A call is retried only after its own failure, in guarded mode, within   *)
(* the budget and the policy, and on a locator that was seen eligible and  *)
(* visible for that failure; only a retry that succeeded turns a failure   *)
(* into a result ("Auto-apply never suppresses a failed retry").           *)
(***************************************************************************)
RetryIsEarned ==
    \A a \in Action :
        /\ act[a].heal \in {"succeeded", "failed"} /\ ~Is(a, "settled") =>
              /\ config.mode = "guarded" /\ act[a].decision = "none"
              /\ act[a].error \in {"own", "init"}
              /\ act[a].accepted \in act[a].visible
              /\ config.restricted => act[a].url = "listed"
        /\ Is(a, "settled") =>
              ((act[a].status = "self_healed") <=> (act[a].heal = "succeeded"))

(***************************************************************************)
(* A promotion is proposed only by a call that healed itself on a locator  *)
(* other than the active one, of a selector it named and whose version it  *)
(* read ("only when guarded auto-apply succeeds, a stable selectorId and   *)
(* base selector version are known, and the accepted locator differs from  *)
(* the active selector").                                                  *)
(***************************************************************************)
ProposalIsEarned ==
    \A a \in Action : act[a].promotion \in {"succeeded", "failed"} =>
        /\ act[a].heal = "succeeded" /\ a \in Diagnosed
        /\ act[a].selector /\ act[a].accepted = "suggested"
        /\ Is(a, "settled") => act[a].status = "self_healed"
        /\ Is(a, "writing") => act[a].ranked \in {<<"registry", "suggested">>, <<"suggested", "registry">>}

Ended(status) == {a \in Action : act[a].pc \in {"settled", "opening"} /\ act[a].status = status}

(***************************************************************************)
(* The telemetry says what callers saw: one count per call that began, as  *)
(* many failures as errors raised, as many applied retries as calls that   *)
(* healed themselves; and the history of a candidate counts a retry once,  *)
(* for the candidate it was made on, and never without the validation that *)
(* came before it.                                                         *)
(***************************************************************************)
TelemetryAddsUp ==
    /\ \A status \in {"succeeded", "self_healed", "failed"} :
          counters[status] = Cardinality(Ended(status))
    /\ counters.failures = counters.failed
    /\ counters.applied = counters.self_healed
    /\ \A s \in Source :
          /\ history[s].applied + history[s].notApplied <= history[s].validated
          /\ history[s].validated <= history[s].attempts
          /\ history[s].applied <=
                Cardinality({a \in Action : act[a].heal = "succeeded" /\ act[a].accepted = s})

(***************************************************************************)
(* "The original page-action failure stays primary": what a caller gets is *)
(* the failure of its action or of the initialization.                     *)
(***************************************************************************)
OriginalErrorPrimary ==
    \A a \in Action : act[a].status = "failed" => act[a].error \in {"own", "init"}

(***************************************************************************)
(* "When domain allow-list is set, guarded validation is blocked for       *)
(* missing/invalid URLs and non-allowed hosts": no retry runs on a page    *)
(* that is not on the list.                                                *)
(***************************************************************************)
RetriesOnAllowedHost ==
    \A a \in Action :
        config.restricted /\ act[a].heal \in {"succeeded", "failed"} => act[a].healedOn = "listed"

(***************************************************************************)
(* Every call that started settles, if the browser and the store answer.   *)
(***************************************************************************)
CallsSettle == \A a \in Action : ~Is(a, "idle") ~> Is(a, "settled")
=============================================================================
