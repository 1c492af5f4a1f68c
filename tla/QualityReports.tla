---------------------------- MODULE QualityReports ----------------------------
(***************************************************************************)
(* The reports on test quality: the flakiness script summarises the result *)
(* files of the test runs and triages the cases (flakinessReport.ts), the  *)
(* dashboard script holds the summary and the self-healing governance file *)
(* against the targets (sloDashboard.ts, sloThresholds.ts), and the alerts *)
(* script evaluates a policy file on the dashboard (alertPolicies.ts).     *)
(* Each script reads the file the one before it wrote; they run once each, *)
(* as in the workflows.                                                    *)
(*                                                                         *)
(* A kind of case is the outcomes of its attempts with what the reports    *)
(* group it by; test results are the number of cases of each kind.  Rates  *)
(* are fractions, thresholds thousandths.                                  *)
(***************************************************************************)
EXTENDS Integers, Sequences, FiniteSets, SequencesExt

CONSTANTS
    Inputs,        \* result files: [files, count], with how many cases of each kind
    Governances,   \* governance files: [attempted, failed], or NoGovernance
    TriagePolicies,\* [defaultOwner, owners, threshold] with a sequence of owner rules
    Policies       \* alert policy files: sequences of rules

ASSUME ReportAssumption ==
    \A input \in Inputs :
        /\ IsFiniteSet(DOMAIN input.count)
        /\ input.count \in [DOMAIN input.count -> Nat]
        /\ \A case \in DOMAIN input.count : case.results \in Seq(STRING)

VARIABLES
    summary,       \* test-results/flakiness-summary.json
    triage,        \* the triage report written with it
    dashboard,     \* slo-dashboard.json
    alerts         \* slo-alerts.json and the exit code of the script

reportVars == <<summary, triage, dashboard, alerts>>

NoFile       == [status |-> "no file"]
NoGovernance == [attempted |-> -1, failed |-> -1]

ReportInit == summary = NoFile /\ triage = NoFile /\ dashboard = NoFile /\ alerts = NoFile

-----------------------------------------------------------------------------
(* A test case: [project, file, results, quarantined]. *)

NormalizeResultStatus(raw) ==
    IF raw \in {"passed", "failed", "timedOut", "skipped", "interrupted"} THEN raw ELSE "unknown"

ShouldCountAsFailed(status) == status \in {"failed", "timedOut", "interrupted"}

Attempts(case) == Len(case.results)
FailedAttempts(case) ==
    Cardinality({i \in DOMAIN case.results :
                    ShouldCountAsFailed(NormalizeResultStatus(case.results[i]))})
FinalStatus(case) ==
    IF case.results = <<>> THEN "unknown" ELSE NormalizeResultStatus(Last(case.results))

Flaky(case)   == FailedAttempts(case) > 0 /\ FinalStatus(case) = "passed"
Failing(case) == ShouldCountAsFailed(FinalStatus(case))
WithStatus(status, case) == FinalStatus(case) = status

\* Sums over the cases of test results.
Total(count, weight(_)) == SumFunction([case \in DOMAIN count |-> count[case] * weight(case)])
CountOf(count, test(_)) == SumFunctionOnSet(count, {case \in DOMAIN count : test(case)})

Only(count, test(_)) == [case \in {c \in DOMAIN count : test(c)} |-> count[case]]
Occurring(count) == {case \in DOMAIN count : count[case] > 0}

\* mapProjectBreakdown.
ProjectBreakdown(count) ==
    LET of(project) == Only(count, LAMBDA case : case.project = project)
    IN  [project \in {case.project : case \in Occurring(count)} |->
            [total          |-> SumFunction(of(project)),
             flaky          |-> CountOf(of(project), Flaky),
             failed         |-> CountOf(of(project), Failing),
             attempts       |-> Total(of(project), Attempts),
             failedAttempts |-> Total(of(project), FailedAttempts)]]

\* buildFlakinessSummary.
BuildFlakinessSummary(input) ==
    LET count == input.count IN
    [status         |-> IF input.files = 0 THEN "no-input" ELSE "complete",
     count          |-> count,
     total          |-> SumFunction(count),
     flaky          |-> CountOf(count, Flaky),
     failed         |-> CountOf(count, Failing),
     passed         |-> CountOf(count, LAMBDA c : WithStatus("passed", c)),
     skipped        |-> CountOf(count, LAMBDA c : WithStatus("skipped", c)),
     interrupted    |-> CountOf(count, LAMBDA c : WithStatus("interrupted", c)),
     attempts       |-> Total(count, Attempts),
     failedAttempts |-> Total(count, FailedAttempts),
     projects       |-> ProjectBreakdown(count)]

\* resolveFlakinessOwner: the first of the longest prefixes of the file.
ResolveFlakinessOwner(file, policy) ==
    LET longest(best, rule) ==
            IF IsPrefix(rule.prefix, file) /\ Len(rule.prefix) > best.length
            THEN [owner |-> rule.owner, length |-> Len(rule.prefix)] ELSE best
    IN  FoldLeft(longest, [owner |-> policy.defaultOwner, length |-> -1], policy.owners).owner

Triaged(case) == Flaky(case) \/ Failing(case) \/ case.quarantined

\* Mutant of TriageStatus: a case is flaky when an attempt failed and failing otherwise.
TriageStatus_Bug(case) == IF Flaky(case) THEN "flaky" ELSE "failing"

\* A stable case is in the triage when it is quarantined, and is called flaky there.
TriageStatus(case) == IF Failing(case) THEN "failing" ELSE "flaky"

\* buildFlakinessTriage.
BuildFlakinessTriage(of, policy) ==
    LET count == Only(of.count, Triaged)
        flaky(case)    == TriageStatus(case) = "flaky"
        failing(case)  == TriageStatus(case) = "failing"
        held(case)     == case.quarantined
        repeated(case) == Flaky(case) /\ FailedAttempts(case) >= policy.threshold
        owner(case)    == ResolveFlakinessOwner(case.file, policy)
        owned(who)     == Only(count, LAMBDA case : owner(case) = who)
    IN  [total       |-> SumFunction(count),
         flaky       |-> CountOf(count, flaky),
         failing     |-> CountOf(count, failing),
         quarantined |-> CountOf(count, held),
         repeated    |-> CountOf(count, repeated),
         owners      |-> [who \in {owner(case) : case \in Occurring(count)} |->
                             [flaky       |-> CountOf(owned(who), flaky),
                              failing     |-> CountOf(owned(who), failing),
                              quarantined |-> CountOf(owned(who), held)]]]

-----------------------------------------------------------------------------
(* The dashboard. *)

MetricKeys == {"passRate", "failureRate", "flakeRate", "retryFailureRate",
               "guardedAutoHealFailureRate"}

SLO_METRIC_TARGETS ==
    [key \in MetricKeys |->
        CASE key = "passRate"                   -> [comparator |-> "gte", threshold |-> 980]
          [] key = "failureRate"                -> [comparator |-> "lte", threshold |-> 20]
          [] key = "flakeRate"                  -> [comparator |-> "lte", threshold |-> 20]
          [] key = "retryFailureRate"           -> [comparator |-> "lte", threshold |-> 100]
          [] key = "guardedAutoHealFailureRate" -> [comparator |-> "lte", threshold |-> 50]]

\* A rate is <<numerator, denominator>>, or null; how it compares with a threshold.
NoRate == <<0, 0>>
ToRatio(numerator, denominator) ==
    IF denominator <= 0 THEN NoRate ELSE <<numerator, denominator>>
Below(rate, threshold) == rate[1] * 1000 < threshold * rate[2]
Above(rate, threshold) == rate[1] * 1000 > threshold * rate[2]

ToMetricStatus(rate, target) ==
    IF rate = NoRate THEN "insufficient_data"
    ELSE IF \/ target.comparator = "gte" /\ Below(rate, target.threshold)
            \/ target.comparator # "gte" /\ Above(rate, target.threshold)
         THEN "breached" ELSE "met"

BuildOverallStatus(statuses) ==
    CASE "breached" \in statuses -> "degraded"
      [] "breached" \notin statuses /\ "met" \in statuses -> "healthy"
      [] OTHER -> "insufficient_data"

\* Counters that are missing or make no sense are zero.
ValueOrZero(value) == IF value < 0 THEN 0 ELSE value

\* buildSloDashboard.
BuildSloDashboard(of, governance) ==
    LET guarded == [counter \in DOMAIN governance |-> ValueOrZero(governance[counter])]
        rates == [key \in MetricKeys |->
            CASE key = "passRate"         -> ToRatio(of.passed, of.total)
              [] key = "failureRate"      -> ToRatio(of.failed, of.total)
              [] key = "flakeRate"        -> ToRatio(of.flaky, of.total)
              [] key = "retryFailureRate" -> ToRatio(of.failedAttempts, of.attempts)
              [] key = "guardedAutoHealFailureRate" -> ToRatio(guarded.failed, guarded.attempted)]
    IN  [status  |-> of.status,
         rates   |-> rates,
         overall |-> BuildOverallStatus(
                        {ToMetricStatus(rates[key], SLO_METRIC_TARGETS[key]) : key \in MetricKeys})]

-----------------------------------------------------------------------------
(* The alerts.  A rule: [metric, operator, threshold, block]. *)

\* parseAlertPolicy: one bad rule and the script fails.
ValidRule(rule) == /\ rule.metric \in MetricKeys
                   /\ rule.operator \in {"gt", "gte", "lt", "lte"}
                   /\ rule.threshold \in 0 .. 1000
ParsesAlertPolicy(policy) == \A rule \in Range(policy) : ValidRule(rule)

EvaluateThreshold(rate, rule) ==
    CASE rule.operator = "gt"  -> Above(rate, rule.threshold)
      [] rule.operator = "gte" -> ~Below(rate, rule.threshold)
      [] rule.operator = "lt"  -> Below(rate, rule.threshold)
      [] OTHER                 -> ~Above(rate, rule.threshold)

\* evaluateAlertPolicy: rules on rates without data never fire.  Breaches by the place of
\* their rule.
EvaluateAlertPolicy(of, policy, failOnBreach) ==
    LET breaches == {i \in DOMAIN policy :
                        LET rate == of.rates[policy[i].metric]
                        IN  rate # NoRate /\ EvaluateThreshold(rate, policy[i])}
        blocking == {i \in breaches : policy[i].block}
    IN  [policy  |-> policy, overall |-> of.overall, rates |-> of.rates, breaches |-> breaches,
         exit    |-> IF blocking # {} \/ (failOnBreach /\ breaches # {}) THEN 1 ELSE 0,
         strict  |-> failOnBreach]

\* The policy file of the repository.
SloAlertPolicy ==
    LET rule(metric, operator, threshold) ==
            [metric |-> metric, operator |-> operator, threshold |-> threshold, block |-> FALSE]
    IN  <<rule("passRate", "lt", 980), rule("failureRate", "gt", 20), rule("flakeRate", "gt", 20),
          rule("retryFailureRate", "gt", 100), rule("guardedAutoHealFailureRate", "gt", 50)>>

-----------------------------------------------------------------------------

ReportFlakiness ==
    /\ summary = NoFile
    /\ \E input \in Inputs, policy \in TriagePolicies :
           /\ summary' = BuildFlakinessSummary(input)
           /\ triage' = BuildFlakinessTriage(summary', policy)
    /\ UNCHANGED <<dashboard, alerts>>

ReportDashboard ==
    /\ summary # NoFile /\ dashboard = NoFile
    /\ \E governance \in Governances : dashboard' = BuildSloDashboard(summary, governance)
    /\ UNCHANGED <<summary, triage, alerts>>

ReportAlerts ==
    /\ dashboard # NoFile /\ alerts = NoFile
    /\ \E policy \in Policies, failOnBreach \in BOOLEAN :
           /\ ParsesAlertPolicy(policy)
           /\ alerts' = EvaluateAlertPolicy(dashboard, policy, failOnBreach)
    /\ UNCHANGED <<summary, triage, dashboard>>

ReportNext == ReportFlakiness \/ ReportDashboard \/ ReportAlerts

-----------------------------------------------------------------------------

SumOver(table, part(_)) == SumFunction([key \in DOMAIN table |-> part(table[key])])

(***************************************************************************)
(* The three reports tell one story.  No case is counted twice or lost:    *)
(* each is passed, failed, skipped or of unknown outcome, flaky cases are  *)
(* among the passed, and the projects, and the owners of the triage, add   *)
(* up to the totals.  Every failed and every flaky case is in the triage,  *)
(* and beside them only stable ones that are quarantined.  And the         *)
(* repository's policy, whose thresholds repeat the targets of the         *)
(* dashboard, raises an alert exactly when the dashboard is degraded, so   *)
(* that the script fails on breach exactly then.                           *)
(***************************************************************************)
ReportsAgree ==
    /\ summary # NoFile =>
        /\ summary.flaky <= summary.passed
        /\ summary.interrupted <= summary.failed
        /\ summary.total = summary.passed + summary.failed + summary.skipped
                             + CountOf(summary.count, LAMBDA c : WithStatus("unknown", c))
        /\ summary.total = SumOver(summary.projects, LAMBDA p : p.total)
        /\ summary.flaky = SumOver(summary.projects, LAMBDA p : p.flaky)
        /\ summary.failed = SumOver(summary.projects, LAMBDA p : p.failed)
        /\ summary.failedAttempts = SumOver(summary.projects, LAMBDA p : p.failedAttempts)
        /\ triage.failing = summary.failed
        /\ triage.flaky >= summary.flaky
        /\ triage.flaky - summary.flaky <= triage.quarantined
        /\ triage.total = triage.flaky + triage.failing
        /\ triage.repeated <= summary.flaky
        /\ triage.flaky = SumOver(triage.owners, LAMBDA o : o.flaky)
        /\ triage.failing = SumOver(triage.owners, LAMBDA o : o.failing)
    /\ alerts # NoFile /\ alerts.policy = SloAlertPolicy =>
        /\ alerts.overall = "degraded" <=> alerts.breaches # {}
        /\ alerts.overall = "insufficient_data" <=> \A key \in MetricKeys : alerts.rates[key] = NoRate
        /\ alerts.exit = 1 <=> alerts.strict /\ alerts.overall = "degraded"
=============================================================================
