--------------------------- MODULE LiveExportAssert ---------------------------
(***************************************************************************)
(* The live export assertion (scripts/observability-live-export-assert.ts) *)
(* against a Prometheus that is still scraping: it polls until one attempt *)
(* finds a series of every metric, holds the dashboards' and the rules'    *)
(* expressions against the series of that attempt, asks for the loaded     *)
(* rules, and writes a snapshot file when all is there.                    *)
(*                                                                         *)
(* A series is its metric and its labels.  The two requests for a metric   *)
(* are answered each in its own time; the answers to the instant query     *)
(* are only counted, and are left out but for their failures.              *)
(***************************************************************************)
EXTENDS Integers, Sequences, FiniteSets

CONSTANTS
    CoreMetrics,      \* metrics asked for whether or not an expression uses them
    Expressions,      \* [metrics, labels, equals] of the dashboards and the rules
    ExpectedAlerts,   \* alerts of the rules file
    SeriesPool,       \* series the application may come to export: [metric, labels]
    MaxAttempts, MaxRequestFaults

VARIABLES
    exported,         \* series Prometheus has scraped
    loaded,           \* alerts of the rules it has loaded
    assertion,        \* the run of the script
    requestFaults,    \* requests that failed so far
    exportedAtStart   \* (history) what had been exported when the attempt began

assertVars == <<exported, loaded, assertion, requestFaults, exportedAtStart>>

\* Labels of a series: a function from label names to values.
LabelNames(series) == UNION {DOMAIN s.labels : s \in series}
LabelValues(series, name) == {s.labels[name] : s \in {t \in series : name \in DOMAIN t.labels}}

MetricNames == CoreMetrics \cup UNION {e.metrics : e \in Expressions}

\* Answers to the requests of an attempt: of each metric, the series that were found
\* and whether the instant query was answered.
Waiting == [series |-> "none", found |-> {}, query |-> "none"]
Started == [m \in MetricNames |-> Waiting]

AssertInit ==
    /\ exported = {}
    /\ loaded = {}
    /\ assertion = [at |-> "read", attempt |-> 0, answer |-> Started, labels |-> "none",
                    rules |-> "none", loaded |-> {}, outcome |-> "none", snapshot |-> FALSE]
    /\ requestFaults = 0
    /\ exportedAtStart = {}

Ends(outcome) == assertion' = [assertion EXCEPT !.at = "done", !.outcome = outcome]

-----------------------------------------------------------------------------

Scrape ==
    /\ \E s \in SeriesPool \ exported : exported' = exported \cup {s}
    /\ UNCHANGED <<loaded, assertion, requestFaults, exportedAtStart>>

LoadRules ==
    /\ loaded # ExpectedAlerts
    /\ \E alert \in ExpectedAlerts \ loaded : loaded' = loaded \cup {alert}
    /\ UNCHANGED <<exported, assertion, requestFaults, exportedAtStart>>

BeginAttempt ==
    /\ assertion' = [assertion EXCEPT !.at = "poll", !.attempt = @ + 1, !.answer = Started]
    /\ exportedAtStart' = exported

\* readExpressionsAndAlerts, extractAuroraFlowMetricNames: a name that looks like a
\* metric and is not a known one is an error, before anything is asked.
ReadExpressions ==
    /\ assertion.at = "read"
    /\ \/ BeginAttempt
       \/ Ends("unknown metric") /\ UNCHANGED exportedAtStart
    /\ UNCHANGED <<exported, loaded, requestFaults>>

\* fetchPrometheusData: a request is answered with success, or fails on its status, its
\* payload or the timeout.
Fails == requestFaults < MaxRequestFaults /\ requestFaults' = requestFaults + 1

AnswerSeries(m) ==
    /\ assertion.at = "poll" /\ assertion.answer[m].series = "none"
    /\ \/ /\ assertion' = [assertion EXCEPT
                 !.answer[m].series = "ok",
                 !.answer[m].found = {s \in exported : s.metric = m}]
          /\ UNCHANGED requestFaults
       \/ Fails /\ assertion' = [assertion EXCEPT !.answer[m].series = "failed"]
    /\ UNCHANGED <<exported, loaded, exportedAtStart>>

AnswerQuery(m) ==
    /\ assertion.at = "poll" /\ assertion.answer[m].query = "none"
    /\ \/ assertion' = [assertion EXCEPT !.answer[m].query = "ok"] /\ UNCHANGED requestFaults
       \/ Fails /\ assertion' = [assertion EXCEPT !.answer[m].query = "failed"]
    /\ UNCHANGED <<exported, loaded, exportedAtStart>>

Failed(m) == "failed" \in {assertion.answer[m].series, assertion.answer[m].query}
Answered(m) == assertion.answer[m].series = "ok" /\ assertion.answer[m].query = "ok"

\* Mutant of AllFound: a metric whose series could not be read is not missing.
AllFound_Bug == \A m \in MetricNames : Answered(m)

AllFound == \A m \in MetricNames : Answered(m) /\ assertion.answer[m].found # {}

\* waitForMetricSnapshots, at the end of an attempt: when the first request fails, or
\* all are answered.
EndAttempt ==
    /\ assertion.at = "poll"
    /\ \/ \E m \in MetricNames : Failed(m)
       \/ \A m \in MetricNames : Answered(m)
    /\ IF AllFound
       THEN assertion' = [assertion EXCEPT !.at = "validate"] /\ UNCHANGED exportedAtStart
       ELSE IF assertion.attempt < MaxAttempts THEN BeginAttempt
       ELSE Ends("not ready") /\ UNCHANGED exportedAtStart
    /\ UNCHANGED <<exported, loaded, requestFaults>>

\* Labels an expression refers to and none of its metrics' series has, and values it
\* compares with and none of them has had.
Invalid(e, series) ==
    LET of == {s \in series : s.metric \in e.metrics} IN
    /\ e.metrics # {}
    /\ \/ ~(e.labels \cup DOMAIN e.equals \subseteq LabelNames(of))
       \/ \E name \in DOMAIN e.equals : /\ name \in LabelNames(of)
                                        /\ e.equals[name] \notin LabelValues(of, name)

\* validateExpressionsAgainstSeries, on the series of the attempt.
Validate ==
    /\ assertion.at = "validate"
    /\ LET series == UNION {assertion.answer[m].found : m \in MetricNames}
       IN  IF \E e \in Expressions : Invalid(e, series)
           THEN Ends("invalid") ELSE assertion' = [assertion EXCEPT !.at = "rules"]
    /\ UNCHANGED <<exported, loaded, requestFaults, exportedAtStart>>

AnswerLabels ==
    /\ assertion.at = "rules" /\ assertion.labels = "none"
    /\ \/ assertion' = [assertion EXCEPT !.labels = "ok"] /\ UNCHANGED requestFaults
       \/ Fails /\ Ends("request failed")
    /\ UNCHANGED <<exported, loaded, exportedAtStart>>

AnswerRules ==
    /\ assertion.at = "rules" /\ assertion.rules = "none"
    /\ \/ assertion' = [assertion EXCEPT !.rules = "ok", !.loaded = loaded] /\ UNCHANGED requestFaults
       \/ Fails /\ Ends("request failed")
    /\ UNCHANGED <<exported, loaded, exportedAtStart>>

WriteSnapshot ==
    /\ assertion.at = "rules" /\ assertion.labels = "ok" /\ assertion.rules = "ok"
    /\ IF ExpectedAlerts \subseteq assertion.loaded
       THEN assertion' = [assertion EXCEPT !.at = "done", !.outcome = "ok", !.snapshot = TRUE]
       ELSE Ends("missing alert")
    /\ UNCHANGED <<exported, loaded, requestFaults, exportedAtStart>>

AssertNext ==
    \/ Scrape \/ LoadRules \/ ReadExpressions \/ EndAttempt \/ Validate
    \/ \E m \in MetricNames : AnswerSeries(m) \/ AnswerQuery(m)
    \/ AnswerLabels \/ AnswerRules \/ WriteSnapshot

-----------------------------------------------------------------------------

(***************************************************************************)
(* A passing assertion, and it alone, leaves a snapshot, and is right:     *)
(* every metric has been exported, every label and value the expressions   *)
(* name is there, and every alert is loaded.  A failing one has a reason   *)
(* no older than the attempt it judged: a request failed, or a series, a   *)
(* label or a value was missing when that attempt began, or an alert still *)
(* is.                                                                     *)
(***************************************************************************)
VerdictIsWitnessed ==
    LET without(m) == \A s \in exportedAtStart : s.metric # m
        outcome == assertion.outcome
    IN  /\ assertion.snapshot <=> outcome = "ok"
        /\ outcome = "ok" =>
               /\ \A m \in MetricNames : \E s \in exported : s.metric = m
               /\ \A e \in Expressions : ~Invalid(e, exported)
               /\ ExpectedAlerts \subseteq loaded
        /\ outcome = "not ready" =>
               \/ \E m \in MetricNames : Failed(m) \/ without(m)
        /\ outcome = "invalid" => \E e \in Expressions : Invalid(e, exportedAtStart)
        /\ outcome = "request failed" => requestFaults > 0
=============================================================================
