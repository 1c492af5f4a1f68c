---------------------------- MODULE DataRules_proofs ----------------------------
(***************************************************************************)
(* What the parts that share no state with one another keep, for any       *)
(* values of their constants: the verdicts of the live export assertion,   *)
(* the deletions of the cleanup script, the agreement of the two stores,   *)
(* and the points of the trend history.                                    *)
(***************************************************************************)
EXTENDS LiveExportAssert, RegistryCleanup, SelectorStore, TrendHistory, FiniteSetTheorems,
        FunctionTheorems, SequenceTheorems, TLAPS

\* Every behaviour of the script beside a server that scrapes and loads rules.
AssertSpec == AssertInit /\ [][AssertNext]_assertVars

MetricAnswer == [series : {"none", "ok", "failed"}, found : SUBSET SeriesPool,
                 query : {"none", "ok", "failed"}]

AssertTypeOK ==
    /\ exported \subseteq SeriesPool
    /\ loaded \subseteq ExpectedAlerts
    /\ requestFaults \in Nat
    /\ exportedAtStart \subseteq exported
    /\ assertion \in [at : {"read", "poll", "validate", "rules", "done"}, attempt : Nat,
                      answer : [MetricNames -> MetricAnswer], labels : {"none", "ok"},
                      rules : {"none", "ok"}, loaded : SUBSET ExpectedAlerts,
                      outcome : {"none", "ok", "unknown metric", "not ready", "invalid",
                                 "request failed", "missing alert"},
                      snapshot : BOOLEAN]

Of(series, m) == {s \in series : s.metric = m}

(***************************************************************************)
(* The series found of a metric lie between those exported when the        *)
(* attempt began and those exported now, so what is found stays true, and  *)
(* what is missing was missing then.                                       *)
(***************************************************************************)
Dated(m) ==
    /\ assertion.answer[m].found \subseteq Of(exported, m)
    /\ assertion.answer[m].series = "ok" => Of(exportedAtStart, m) \subseteq assertion.answer[m].found

AllExported == \A m \in MetricNames : Of(exported, m) # {}

Sound ==
    /\ \A m \in MetricNames : Dated(m)
    /\ assertion.at = "validate" => AllFound
    /\ assertion.at = "rules" => AllExported /\ \A e \in Expressions : ~Invalid(e, exported)
    /\ assertion.loaded \subseteq loaded
    /\ assertion.at # "done" => assertion.outcome = "none" /\ ~assertion.snapshot

AssertInv == AssertTypeOK /\ Sound /\ VerdictIsWitnessed

-----------------------------------------------------------------------------

\* More series make no valid expression invalid.
LEMMA ValidStaysValid ==
    ASSUME NEW e, NEW few, NEW many, few \subseteq many, ~Invalid(e, few)
    PROVE  ~Invalid(e, many)
<1>. DEFINE of(series) == {s \in series : s.metric \in e.metrics}
<1>1. of(few) \subseteq of(many)
  OBVIOUS
<1>2. LabelNames(of(few)) \subseteq LabelNames(of(many))
  BY <1>1 DEF LabelNames
<1>3. \A name : LabelValues(of(few), name) \subseteq LabelValues(of(many), name)
  BY <1>1 DEF LabelValues
<1>4. Invalid(e, few) <=> /\ e.metrics # {}
                          /\ \/ ~(e.labels \cup DOMAIN e.equals \subseteq LabelNames(of(few)))
                             \/ \E name \in DOMAIN e.equals :
                                   /\ name \in LabelNames(of(few))
                                   /\ e.equals[name] \notin LabelValues(of(few), name)
  BY DEF Invalid
<1>5. Invalid(e, many) <=> /\ e.metrics # {}
                          /\ \/ ~(e.labels \cup DOMAIN e.equals \subseteq LabelNames(of(many)))
                             \/ \E name \in DOMAIN e.equals :
                                   /\ name \in LabelNames(of(many))
                                   /\ e.equals[name] \notin LabelValues(of(many), name)
  BY DEF Invalid
<1>. HIDE DEF of
<1>. QED BY <1>2, <1>3, <1>4, <1>5

\* Only the series of its own metrics decide about an expression.
LEMMA OwnSeriesDecide ==
    ASSUME NEW e, NEW some, NEW all, \A s \in all : s.metric \in e.metrics => s \in some,
           Invalid(e, some)
    PROVE  Invalid(e, all)
<1>. DEFINE own == {s \in all : s.metric \in e.metrics}
<1>1. own \subseteq some
  OBVIOUS
<1>2. Invalid(e, own)
  BY <1>1, ValidStaysValid
<1>3. {s \in own : s.metric \in e.metrics} = {s \in all : s.metric \in e.metrics}
  OBVIOUS
<1>. QED BY <1>2, <1>3 DEF Invalid

LEMMA InitialAssert == AssertInit => AssertInv
<1>. SUFFICES ASSUME AssertInit PROVE AssertInv
  OBVIOUS
<1>1. Started \in [MetricNames -> MetricAnswer] /\ \A m \in MetricNames : Started[m] = Waiting
  BY DEF Started, Waiting, MetricAnswer
<1>2. AssertTypeOK
  BY <1>1 DEF AssertInit, AssertTypeOK
<1>3. Sound
  BY <1>1 DEF AssertInit, Sound, Dated, Of, Waiting
<1>4. VerdictIsWitnessed
  BY DEF AssertInit, VerdictIsWitnessed
<1>. QED BY <1>2, <1>3, <1>4 DEF AssertInv

-----------------------------------------------------------------------------
(* The steps.                                                              *)

\* Series and rules may come at any time, before, during and after a verdict.
LEMMA ServerStep ==
    ASSUME AssertInv, UNCHANGED <<assertion, requestFaults, exportedAtStart>>,
           exported \subseteq exported', exported' \subseteq SeriesPool,
           loaded \subseteq loaded', loaded' \subseteq ExpectedAlerts
    PROVE  AssertInv'
<1>1. AssertTypeOK'
  BY DEF AssertInv, AssertTypeOK
<1>2. \A e \in Expressions : ~Invalid(e, exported) => ~Invalid(e, exported')
  BY ValidStaysValid
<1>3. \A m : Of(exported, m) \subseteq Of(exported', m)
  BY DEF Of
<1>4. AllExported => AllExported'
  BY <1>3 DEF AllExported
<1>5. AllFound => AllFound'
  BY DEF AllFound, Answered
<1>6. \A m \in MetricNames : Dated(m)'
  BY <1>3 DEF AssertInv, Sound, Dated
<1>7. Sound'
  BY <1>2, <1>4, <1>5, <1>6 DEF AssertInv, Sound, Invalid, LabelNames, LabelValues
<1>8. VerdictIsWitnessed'
  <2>1. \A m : Failed(m) <=> Failed(m)'
    BY DEF Failed
  <2>2. \A m : (\E s \in exported : s.metric = m) => \E s \in exported' : s.metric = m
    OBVIOUS
  <2>. QED BY <1>2, <2>1, <2>2 DEF AssertInv, VerdictIsWitnessed
<1>. QED BY <1>1, <1>7, <1>8 DEF AssertInv

LEMMA BeginStep ==
    ASSUME AssertInv, BeginAttempt, assertion.at # "done",
           UNCHANGED <<exported, loaded, requestFaults>>
    PROVE  AssertInv'
<1>1. Started \in [MetricNames -> MetricAnswer] /\ \A m \in MetricNames : Started[m] = Waiting
  BY DEF Started, Waiting, MetricAnswer
<1>2. /\ assertion'.at = "poll" /\ assertion'.answer = Started
      /\ assertion'.loaded = assertion.loaded /\ assertion'.outcome = assertion.outcome
      /\ assertion'.snapshot = assertion.snapshot
  BY DEF AssertInv, AssertTypeOK, BeginAttempt
<1>3. AssertTypeOK'
  <2>1. assertion.attempt + 1 \in Nat
    <3>1. assertion.attempt \in Nat
      BY DEF AssertInv, AssertTypeOK
    <3>. QED BY <3>1
  <2>2. assertion' = [[[assertion EXCEPT !.at = "poll"] EXCEPT !.attempt = assertion.attempt + 1]
                         EXCEPT !.answer = Started]
    BY DEF AssertInv, AssertTypeOK, BeginAttempt
  <2>. QED BY <1>1, <2>1, <2>2 DEF AssertInv, AssertTypeOK, BeginAttempt
<1>4. Sound'
  BY <1>1, <1>2 DEF AssertInv, Sound, Dated, Of, Waiting
<1>5. VerdictIsWitnessed'
  BY <1>2 DEF AssertInv, Sound, VerdictIsWitnessed
<1>. QED BY <1>3, <1>4, <1>5 DEF AssertInv

\* A run that ends keeps the answers it judged.
LEMMA EndStep ==
    ASSUME AssertInv, NEW outcome, Ends(outcome), assertion.at # "done",
           outcome \in {"unknown metric", "not ready", "invalid", "request failed", "missing alert"},
           outcome = "not ready" =>
              \E m \in MetricNames : Failed(m) \/ Of(exportedAtStart, m) = {},
           outcome = "invalid" => \E e \in Expressions : Invalid(e, exportedAtStart),
           outcome = "request failed" => requestFaults' > 0,
           UNCHANGED <<exported, loaded, exportedAtStart>>, requestFaults' \in Nat
    PROVE  AssertInv'
<1>1. /\ assertion'.at = "done" /\ assertion'.outcome = outcome
      /\ assertion'.answer = assertion.answer /\ assertion'.loaded = assertion.loaded
      /\ assertion'.snapshot = assertion.snapshot
  BY DEF AssertInv, AssertTypeOK, Ends
<1>2. AssertTypeOK'
  BY DEF AssertInv, AssertTypeOK, Ends
<1>3. Sound'
  BY <1>1 DEF AssertInv, Sound, Dated, Of
<1>4. VerdictIsWitnessed'
  <2>1. ~assertion'.snapshot /\ outcome # "ok"
    BY <1>1 DEF AssertInv, Sound
  <2>2. \A m : Failed(m) <=> Failed(m)'
    BY <1>1 DEF Failed
  <2>3. outcome = "invalid" => \E e \in Expressions : Invalid(e, exportedAtStart)'
    BY DEF Invalid, LabelNames, LabelValues
  <2>. QED BY <1>1, <2>1, <2>2, <2>3 DEF VerdictIsWitnessed, Of
<1>. QED BY <1>2, <1>3, <1>4 DEF AssertInv

\* An answer tells what is exported when it is given.
LEMMA AnswerStep ==
    ASSUME AssertInv, NEW m \in MetricNames, AnswerSeries(m) \/ AnswerQuery(m)
    PROVE  AssertInv'
<1>1. Of(exported, m) \in SUBSET SeriesPool /\ Of(exportedAtStart, m) \subseteq Of(exported, m)
  BY DEF AssertInv, AssertTypeOK, Of
<1>2. /\ assertion.at = "poll" /\ UNCHANGED <<exported, loaded, exportedAtStart>>
      /\ requestFaults' \in Nat
  <2>1. requestFaults' = requestFaults \/ requestFaults' = requestFaults + 1
    BY DEF AnswerSeries, AnswerQuery, Fails
  <2>2. requestFaults \in Nat
    BY DEF AssertInv, AssertTypeOK
  <2>3. requestFaults' \in Nat
    BY <2>1, <2>2
  <2>4. assertion.at = "poll" /\ UNCHANGED <<exported, loaded, exportedAtStart>>
    BY DEF AnswerSeries, AnswerQuery
  <2>. QED BY <2>3, <2>4
<1>. DEFINE Takes(a) ==
              /\ assertion' = [assertion EXCEPT !.answer = [assertion.answer EXCEPT ![m] = a]]
              /\ a.found \subseteq Of(exported, m)
              /\ a.series = "ok" => Of(exportedAtStart, m) \subseteq a.found
<1>3. PICK a \in MetricAnswer : Takes(a)
  <2>1. assertion.answer[m] \in MetricAnswer /\ Dated(m)
    BY DEF AssertInv, AssertTypeOK, Sound
  <2>2. ASSUME assertion' = [assertion EXCEPT !.answer[m].series = "ok",
                                              !.answer[m].found = Of(exported, m)]
        PROVE  \E a \in MetricAnswer : Takes(a)
    <3>. DEFINE a == [assertion.answer[m] EXCEPT !.series = "ok", !.found = Of(exported, m)]
    <3>1. a \in MetricAnswer /\ a.found = Of(exported, m)
      BY <1>1, <2>1 DEF MetricAnswer
    <3>2. assertion' = [assertion EXCEPT !.answer = [assertion.answer EXCEPT ![m] = a]]
      BY <2>1, <2>2 DEF AssertInv, AssertTypeOK, MetricAnswer
    <3>. QED BY <1>1, <3>1, <3>2
  <2>3. ASSUME assertion' = [assertion EXCEPT !.answer[m].series = "failed"]
        PROVE  \E a \in MetricAnswer : Takes(a)
    <3>. DEFINE a == [assertion.answer[m] EXCEPT !.series = "failed"]
    <3>1. a \in MetricAnswer /\ a.found = assertion.answer[m].found /\ a.series # "ok"
      BY <2>1 DEF MetricAnswer
    <3>. QED BY <2>1, <2>3, <3>1 DEF Dated
  <2>4. ASSUME NEW q \in {"ok", "failed"},
               assertion' = [assertion EXCEPT !.answer[m].query = q]
        PROVE  \E a \in MetricAnswer : Takes(a)
    <3>. DEFINE a == [assertion.answer[m] EXCEPT !.query = q]
    <3>1. a \in MetricAnswer /\ a.found = assertion.answer[m].found /\ a.series = assertion.answer[m].series
      BY <2>1 DEF MetricAnswer
    <3>. QED BY <2>1, <2>4, <3>1 DEF Dated
  <2>. HIDE DEF Takes
  <2>5. CASE AnswerSeries(m)
    BY <2>2, <2>3, <2>5 DEF AnswerSeries, Of
  <2>6. CASE AnswerQuery(m)
    BY <2>4, <2>6 DEF AnswerQuery
  <2>. QED BY <2>5, <2>6
<1>4. /\ assertion'.at = "poll" /\ assertion'.loaded = assertion.loaded
      /\ assertion'.answer = [assertion.answer EXCEPT ![m] = a]
      /\ assertion'.outcome = assertion.outcome /\ assertion'.snapshot = assertion.snapshot
  BY <1>2, <1>3 DEF AssertInv, AssertTypeOK
<1>5. AssertTypeOK'
  BY <1>2, <1>3 DEF AssertInv, AssertTypeOK
<1>6. Sound'
  <2>1. \A n \in MetricNames : assertion'.answer[n] = IF n = m THEN a ELSE assertion.answer[n]
    BY <1>4 DEF AssertInv, AssertTypeOK
  <2>2. \A n \in MetricNames : Dated(n)'
    BY <1>2, <1>3, <2>1 DEF AssertInv, Sound, Dated, Of
  <2>. QED BY <1>2, <1>4, <2>2 DEF AssertInv, Sound
<1>7. VerdictIsWitnessed'
  BY <1>2, <1>4 DEF AssertInv, Sound, VerdictIsWitnessed
<1>. QED BY <1>5, <1>6, <1>7 DEF AssertInv

LEMMA EndAttemptStep == ASSUME AssertInv, EndAttempt PROVE AssertInv'
<1>1. CASE AllFound
  <2>1. /\ assertion' = [assertion EXCEPT !.at = "validate"]
        /\ UNCHANGED <<exported, loaded, requestFaults, exportedAtStart>>
        /\ assertion.at = "poll"
    BY <1>1 DEF EndAttempt
  <2>2. /\ assertion'.at = "validate" /\ assertion'.answer = assertion.answer
        /\ assertion'.loaded = assertion.loaded /\ assertion'.outcome = assertion.outcome
        /\ assertion'.snapshot = assertion.snapshot
    BY <2>1 DEF AssertInv, AssertTypeOK
  <2>3. AssertTypeOK'
    BY <2>1 DEF AssertInv, AssertTypeOK
  <2>4. AllFound'
    BY <1>1, <2>2 DEF AllFound, Answered
  <2>5. Sound'
    BY <2>1, <2>2, <2>4 DEF AssertInv, Sound, Dated, Of
  <2>6. VerdictIsWitnessed'
    BY <2>1, <2>2 DEF AssertInv, Sound, VerdictIsWitnessed
  <2>. QED BY <2>3, <2>5, <2>6 DEF AssertInv
<1>2. CASE ~AllFound /\ assertion.attempt < MaxAttempts
  BY <1>2, BeginStep DEF EndAttempt
<1>3. CASE ~AllFound /\ ~(assertion.attempt < MaxAttempts)
  <2>1. /\ Ends("not ready") /\ assertion.at = "poll"
        /\ UNCHANGED <<exported, loaded, requestFaults, exportedAtStart>>
    BY <1>3 DEF EndAttempt
  <2>2. \E m \in MetricNames : Failed(m) \/ Of(exportedAtStart, m) = {}
    <3>1. CASE \E m \in MetricNames : Failed(m)
      BY <3>1
    <3>2. CASE \A m \in MetricNames : Answered(m)
      BY <1>3, <3>2 DEF AllFound, Answered, AssertInv, Sound, Dated
    <3>. QED BY <3>1, <3>2 DEF EndAttempt
  <2>. QED BY <2>1, <2>2, EndStep DEF AssertInv, AssertTypeOK
<1>. QED BY <1>1, <1>2, <1>3

LEMMA ValidateStep == ASSUME AssertInv, Validate PROVE AssertInv'
<1>. DEFINE series == UNION {assertion.answer[m].found : m \in MetricNames}
<1>1. /\ assertion.at = "validate" /\ AllFound
      /\ UNCHANGED <<exported, loaded, requestFaults, exportedAtStart>>
  BY DEF AssertInv, Sound, Validate
<1>2. series \subseteq exported
  BY DEF AssertInv, Sound, Dated, Of
<1>3. ASSUME NEW e \in Expressions, NEW s \in exportedAtStart, s.metric \in e.metrics
      PROVE  s \in series
  <2>1. s.metric \in MetricNames
    BY <1>3 DEF MetricNames
  <2>. QED BY <1>1, <2>1 DEF AllFound, Answered, AssertInv, Sound, Dated, Of
<1>4. CASE \E e \in Expressions : Invalid(e, series)
  <2>1. PICK e \in Expressions : Invalid(e, series)
    BY <1>4
  <2>2. Invalid(e, exportedAtStart)
    <3>. DEFINE own == {s \in exportedAtStart : s.metric \in e.metrics}
    <3>1. own \subseteq series
      BY <1>3
    <3>2. Invalid(e, own)
      BY <2>1, <3>1, ValidStaysValid
    <3>. HIDE DEF series
    <3>. QED BY <3>2, OwnSeriesDecide
  <2>3. Ends("invalid")
    BY <1>4 DEF Validate
  <2>. QED BY <1>1, <2>2, <2>3, EndStep DEF AssertInv, AssertTypeOK
<1>5. CASE \A e \in Expressions : ~Invalid(e, series)
  <2>1. assertion' = [assertion EXCEPT !.at = "rules"]
    BY <1>5 DEF Validate
  <2>2. /\ assertion'.at = "rules" /\ assertion'.answer = assertion.answer
        /\ assertion'.loaded = assertion.loaded /\ assertion'.outcome = assertion.outcome
        /\ assertion'.snapshot = assertion.snapshot
    BY <2>1 DEF AssertInv, AssertTypeOK
  <2>3. AssertTypeOK'
    BY <1>1, <2>1 DEF AssertInv, AssertTypeOK
  <2>4. AllExported
    BY <1>1 DEF AllExported, AllFound, AssertInv, Sound, Dated
  <2>5. \A e \in Expressions : ~Invalid(e, exported)
    BY <1>2, <1>5, ValidStaysValid
  <2>6. AllExported' /\ \A e \in Expressions : ~Invalid(e, exported')
    BY <1>1, <2>4, <2>5 DEF AllExported
  <2>7. Sound'
    BY <1>1, <2>2, <2>6 DEF AssertInv, Sound, Dated, Of, Invalid, LabelNames, LabelValues
  <2>8. VerdictIsWitnessed'
    BY <1>1, <2>2 DEF AssertInv, Sound, VerdictIsWitnessed
  <2>. QED BY <2>3, <2>7, <2>8 DEF AssertInv
<1>. QED BY <1>4, <1>5

\* The labels and the rules of the server, asked for at once.
LEMMA RulesStep == ASSUME AssertInv, AnswerLabels \/ AnswerRules PROVE AssertInv'
<1>1. /\ assertion.at = "rules" /\ UNCHANGED <<exported, loaded, exportedAtStart>>
      /\ requestFaults \in Nat
  BY DEF AssertInv, AssertTypeOK, AnswerLabels, AnswerRules
<1>2. CASE Fails /\ Ends("request failed")
  <2>1. requestFaults' \in Nat /\ requestFaults' > 0
    <3>1. requestFaults' = requestFaults + 1
      BY <1>2 DEF Fails
    <3>. QED BY <1>1, <3>1
  <2>. QED BY <1>1, <1>2, <2>1, EndStep
<1>3. CASE /\ \/ assertion' = [assertion EXCEPT !.labels = "ok"]
              \/ assertion' = [assertion EXCEPT !.rules = "ok", !.loaded = loaded]
           /\ UNCHANGED requestFaults
  <2>1. /\ assertion'.at = "rules" /\ assertion'.answer = assertion.answer
        /\ assertion'.loaded \in {assertion.loaded, loaded}
        /\ assertion'.outcome = assertion.outcome /\ assertion'.snapshot = assertion.snapshot
    BY <1>1, <1>3 DEF AssertInv, AssertTypeOK
  <2>2. AssertTypeOK'
    BY <1>1, <1>3 DEF AssertInv, AssertTypeOK
  <2>3. AllExported' /\ \A e \in Expressions : ~Invalid(e, exported')
    BY <1>1 DEF AssertInv, Sound, AllExported
  <2>4. Sound'
    BY <1>1, <2>1, <2>3 DEF AssertInv, Sound, Dated, Of, Invalid, LabelNames, LabelValues
  <2>5. VerdictIsWitnessed'
    BY <1>1, <2>1 DEF AssertInv, Sound, VerdictIsWitnessed
  <2>. QED BY <2>2, <2>4, <2>5 DEF AssertInv
<1>. QED BY <1>2, <1>3 DEF AnswerLabels, AnswerRules

LEMMA SnapshotStep == ASSUME AssertInv, WriteSnapshot PROVE AssertInv'
<1>1. /\ assertion.at = "rules"
      /\ UNCHANGED <<exported, loaded, requestFaults, exportedAtStart>>
  BY DEF WriteSnapshot
<1>2. CASE ExpectedAlerts \subseteq assertion.loaded
  <2>1. assertion' = [[[assertion EXCEPT !.at = "done"] EXCEPT !.outcome = "ok"]
                         EXCEPT !.snapshot = TRUE]
    BY <1>2 DEF WriteSnapshot, AssertInv, AssertTypeOK
  <2>2. /\ assertion'.at = "done" /\ assertion'.answer = assertion.answer
        /\ assertion'.loaded = assertion.loaded /\ assertion'.outcome = "ok"
        /\ assertion'.snapshot = TRUE
    BY <2>1 DEF AssertInv, AssertTypeOK
  <2>3. AssertTypeOK'
    BY <1>1, <2>1 DEF AssertInv, AssertTypeOK
  <2>4. Sound'
    BY <1>1, <2>2 DEF AssertInv, Sound, Dated, Of
  <2>5. \A m \in MetricNames : \E s \in exported' : s.metric = m
    BY <1>1 DEF AssertInv, Sound, AllExported, Of
  <2>6. \A e \in Expressions : ~Invalid(e, exported')
    BY <1>1 DEF AssertInv, Sound
  <2>7. ExpectedAlerts \subseteq loaded'
    BY <1>1, <1>2 DEF AssertInv, Sound
  <2>8. VerdictIsWitnessed'
    BY <2>2, <2>5, <2>6, <2>7 DEF VerdictIsWitnessed, Invalid, LabelNames, LabelValues
  <2>. QED BY <2>3, <2>4, <2>8 DEF AssertInv
<1>3. CASE ~(ExpectedAlerts \subseteq assertion.loaded)
  BY <1>1, <1>3, EndStep DEF WriteSnapshot, AssertInv, AssertTypeOK
<1>. QED BY <1>2, <1>3

LEMMA AssertStep == AssertInv /\ [AssertNext]_assertVars => AssertInv'
<1>. SUFFICES ASSUME AssertInv, [AssertNext]_assertVars PROVE AssertInv'
  OBVIOUS
<1>. USE DEF AssertInv
<1>1. CASE UNCHANGED assertVars
  BY <1>1, ServerStep DEF assertVars, AssertTypeOK
<1>2. CASE Scrape
  BY <1>2, ServerStep DEF Scrape, AssertTypeOK
<1>3. CASE LoadRules
  BY <1>3, ServerStep DEF LoadRules, AssertTypeOK
<1>4. CASE ReadExpressions
  <2>1. CASE BeginAttempt
    BY <1>4, <2>1, BeginStep DEF ReadExpressions
  <2>2. CASE Ends("unknown metric") /\ UNCHANGED exportedAtStart
    BY <1>4, <2>2, EndStep DEF ReadExpressions, AssertTypeOK
  <2>. QED BY <1>4, <2>1, <2>2 DEF ReadExpressions
<1>5. CASE \E m \in MetricNames : AnswerSeries(m) \/ AnswerQuery(m)
  BY <1>5, AnswerStep
<1>6. CASE EndAttempt
  BY <1>6, EndAttemptStep
<1>7. CASE Validate
  BY <1>7, ValidateStep
<1>8. CASE AnswerLabels \/ AnswerRules
  BY <1>8, RulesStep
<1>9. CASE WriteSnapshot
  BY <1>9, SnapshotStep
<1>. QED BY <1>1, <1>2, <1>3, <1>4, <1>5, <1>6, <1>7, <1>8, <1>9 DEF AssertNext

\* The assertion's verdict is one the server's data bears out: a pass is still true
\* when it is given, although every answer is older than it; a failure was true when
\* its attempt began, although the server exports more meanwhile.
THEOREM VerdictsAreWitnessed == AssertSpec => []VerdictIsWitnessed
<1>1. AssertInv => VerdictIsWitnessed
  BY DEF AssertInv
<1>. QED BY <1>1, InitialAssert, AssertStep, PTL DEF AssertSpec

-----------------------------------------------------------------------------
(***************************************************************************)
(* The cleanup script, beside writers that put any of `records` under any  *)
(* key of the promotions and the audit.                                    *)
(***************************************************************************)
CleanupSpec(records) == CleanupInit /\ [][CleanupNext(records)]_cleanupVars

Dates == Nat \cup {Undefined, NotADate}

\* What the three namespaces may hold: objects with dates and a hold, and garbage.
Storable == [there : {TRUE}, object : {TRUE}, expiresAt : Dates, reviewedAt : Dates,
             hold : {"no", "yes", "malformed"}] \cup {Garbage}

Counts == [scanned : Nat, expired : Nat, deleted : Nat, malformed : Nat, held : Nat]

CleanupTypeOK ==
    /\ store \in [RecordKeys -> Storable \cup {NoRecord}]
    /\ now \in Nat /\ failures \in Nat /\ writes \in Nat /\ removed \in Nat
    /\ changed \subseteq RecordKeys
    /\ script \in [at : {"idle", "list", "visit", "delete", "done", "failed"}, dryRun : BOOLEAN,
                   startedAt : Nat, space : 1 .. 3, keys : Seq(RecordKeys), count : Counts]

\* What stands under the key to be deleted is what was judged, unless it was written
\* or evicted since.
Judged ==
    script.at = "delete" =>
        /\ script.keys # <<>> /\ ~script.dryRun
        /\ LET key == Head(script.keys) IN
           store[key].there /\ key \notin changed => ~ShouldKeep(Space[key], store[key])

\* The counters beside what was really removed.
Accounts ==
    /\ script.dryRun \/ script.at = "idle" => removed = 0
    /\ script.count.deleted <= removed /\ removed <= script.count.deleted + failures
    /\ removed + (IF script.at = "delete" THEN 1 ELSE 0) <= script.count.expired

CleanupInv == CleanupTypeOK /\ Judged /\ Accounts /\ ~wrong

-----------------------------------------------------------------------------

LEMMA InitialCleanup == CleanupInit => CleanupInv
<1>. SUFFICES ASSUME CleanupInit PROVE CleanupInv
  OBVIOUS
<1>1. script.count = Zero /\ script.at = "idle" /\ script.keys = <<>> /\ script.dryRun
  BY DEF CleanupInit, NotStarted
<1>2. Zero \in Counts /\ <<>> \in Seq(RecordKeys)
  BY DEF Zero, Counts
<1>3. CleanupTypeOK
  BY <1>2 DEF CleanupInit, CleanupTypeOK, NotStarted
<1>4. Accounts
  BY <1>1 DEF Accounts, CleanupInit, Zero
<1>5. Judged /\ ~wrong
  BY <1>1 DEF Judged, CleanupInit
<1>. QED BY <1>3, <1>4, <1>5 DEF CleanupInv

LEMMA ListingTypes ==
    ASSUME NEW space, NEW keys \in Listings(space)
    PROVE  keys \in Seq(RecordKeys)
<1>. DEFINE present == {k \in RecordKeys : Space[k] = space /\ store[k].there}
<1>1. Cardinality(present) \in Nat
  BY CleanupAssumption, FS_Subset, FS_CardinalityType
<1>2. Cardinality(present) * MaxScans \in Nat
  <2>. HIDE DEF present
  <2>. QED BY <1>1, CleanupAssumption
<1>3. PICK s \in UNION {[1 .. n -> present] : n \in 0 .. Cardinality(present) * MaxScans} :
         keys = SubSeq(s, 1, IF Len(s) < Limit THEN Len(s) ELSE Limit)
  BY DEF Listings
<1>4. PICK n \in 0 .. Cardinality(present) * MaxScans : s \in [1 .. n -> present]
  BY <1>3
<1>5. s \in Seq(RecordKeys)
  <2>1. n \in Nat
    <3>. HIDE DEF present
    <3>. QED BY <1>2
  <2>. QED BY <1>4, <2>1
<1>6. Len(s) \in Nat /\ Limit \in Nat
  BY <1>5, CleanupAssumption
<1>7. (IF Len(s) < Limit THEN Len(s) ELSE Limit) \in 0 .. Len(s)
  BY <1>6
<1>. QED BY <1>3, <1>5, <1>7, SubSeqProperties

\* What the script judges expired it need not keep.
LEMMA ExpiredMayGo ==
    ASSUME NEW space \in {"history", "promotions", "audit"}, NEW record \in Storable,
           script.startedAt \in Nat,
           ~ReadMetadata(space, record).hold,
           ReadMetadata(space, record).expiresAt # NotADate,
           Expired(ReadMetadata(space, record))
    PROVE  ~ShouldKeep(space, record)
<1>1. CASE record = Garbage
  BY <1>1 DEF Garbage, ReadMetadata, Unreadable, Metadata
<1>2. CASE record # Garbage
  <2>1. /\ record.object /\ record.expiresAt \in Dates /\ record.reviewedAt \in Dates
        /\ record.hold \in {"no", "yes", "malformed"}
    BY <1>2 DEF Storable
  <2>2. Undefined = -1 /\ NotADate = -2 /\ Retention \in Nat
    BY CleanupAssumption DEF Undefined, NotADate
  <2>3. CASE space = "audit" /\ record.hold # "no"
    BY <2>1, <2>3 DEF ReadMetadata, Unreadable, Metadata
  <2>4. CASE ~(space = "audit" /\ record.hold # "no") /\ (record.expiresAt # Undefined \/ space # "audit")
    <3>1. ReadMetadata(space, record) = Metadata(record.expiresAt, FALSE)
      BY <2>1, <2>4 DEF ReadMetadata
    <3>. QED BY <2>1, <2>2, <2>4, <3>1 DEF Expired, ShouldKeep, Metadata, Dates
  <2>5. CASE space = "audit" /\ record.hold = "no" /\ record.expiresAt = Undefined
    <3>1. ReadMetadata(space, record) = IF record.reviewedAt \in {Undefined, NotADate}
                                        THEN Metadata(record.reviewedAt, FALSE)
                                        ELSE Metadata(record.reviewedAt + Retention, FALSE)
      BY <2>1, <2>5 DEF ReadMetadata
    <3>. QED BY <2>1, <2>2, <2>5, <3>1 DEF Expired, ShouldKeep, Metadata, Dates
  <2>. QED BY <2>1, <2>3, <2>4, <2>5
<1>. QED BY <1>1, <1>2

-----------------------------------------------------------------------------
(* The script's steps. *)

\* A step that deletes nothing leaves the books right.
LEMMA BooksStayRight ==
    ASSUME CleanupInv, NEW d, NEW a,
           script'.count.deleted = script.count.deleted, script'.count.expired = d,
           d \in Nat, script'.at = a,
           d >= script.count.expired + (IF a = "delete" THEN 1 ELSE 0)
                  - (IF script.at = "delete" THEN 1 ELSE 0),
           removed' = removed, failures' \in Nat, failures' >= failures,
           script'.dryRun \/ a = "idle" => script.dryRun \/ script.at = "idle"
    PROVE  Accounts'
<1>1. /\ removed \in Nat /\ failures \in Nat
      /\ script.count.deleted \in Nat /\ script.count.expired \in Nat
  BY DEF CleanupInv, CleanupTypeOK, Counts
<1>2. /\ script'.dryRun \/ script'.at = "idle" => removed' = 0
      /\ script.count.deleted <= removed /\ removed <= script.count.deleted + failures
      /\ removed + (IF script.at = "delete" THEN 1 ELSE 0) <= script.count.expired
  BY DEF CleanupInv, Accounts
<1>. QED BY <1>1, <1>2 DEF Accounts

LEMMA StartStep == ASSUME CleanupInv, NEW dryRun \in BOOLEAN, Start(dryRun) PROVE CleanupInv'
<1>1. script' = [[[script EXCEPT !.at = "list"] EXCEPT !.dryRun = dryRun] EXCEPT !.startedAt = now]
  BY DEF Start, CleanupInv, CleanupTypeOK
<1>2. /\ script'.at = "list" /\ script'.count = script.count /\ script.at = "idle"
      /\ UNCHANGED <<store, now, failures, writes, changed, removed, wrong>>
  BY <1>1 DEF Start, CleanupInv, CleanupTypeOK
<1>3. CleanupTypeOK'
  BY <1>1, <1>2 DEF CleanupInv, CleanupTypeOK
<1>4. Accounts'
  <2>1. script.count.expired \in Nat /\ failures \in Nat
    BY DEF CleanupInv, CleanupTypeOK, Counts
  <2>. QED BY <1>2, <2>1, BooksStayRight
<1>. QED BY <1>2, <1>3, <1>4 DEF CleanupInv, Judged

LEMMA ListStep == ASSUME CleanupInv, List PROVE CleanupInv'
<1>1. PICK keys \in Listings(Spaces[script.space]) :
         script' = [script EXCEPT !.at = "visit", !.keys = keys, !.count.scanned = @ + Len(keys)]
  BY DEF List
<1>2. keys \in Seq(RecordKeys) /\ Len(keys) \in Nat
  BY <1>1, ListingTypes
<1>3. script.count \in Counts /\ script.count.scanned + Len(keys) \in Nat
  <2>1. script.count \in Counts /\ script.count.scanned \in Nat
    BY DEF CleanupInv, CleanupTypeOK, Counts
  <2>. QED BY <1>2, <2>1
<1>. DEFINE count == [script.count EXCEPT !.scanned = script.count.scanned + Len(keys)]
<1>4. count \in Counts /\ count.expired = script.count.expired /\ count.deleted = script.count.deleted
  BY <1>3 DEF Counts
<1>5. script' = [[[script EXCEPT !.at = "visit"] EXCEPT !.keys = keys] EXCEPT !.count = count]
  BY <1>1, <1>3 DEF CleanupInv, CleanupTypeOK, Counts
<1>. HIDE DEF count
<1>6. /\ script'.at = "visit" /\ script'.count = count /\ script'.dryRun = script.dryRun
      /\ script.at = "list" /\ UNCHANGED <<store, now, failures, writes, changed, removed, wrong>>
  BY <1>5 DEF List, CleanupInv, CleanupTypeOK
<1>7. CleanupTypeOK'
  BY <1>2, <1>4, <1>5, <1>6 DEF CleanupInv, CleanupTypeOK
<1>8. Accounts'
  <2>1. count.expired \in Nat /\ failures \in Nat
    BY <1>4 DEF CleanupInv, CleanupTypeOK, Counts
  <2>. QED BY <1>4, <1>6, <2>1, BooksStayRight
<1>. QED BY <1>6, <1>7, <1>8 DEF CleanupInv, Judged

\* NextSpace and Abort move on without a record.
LEMMA MoveOnStep == ASSUME CleanupInv, NextSpace \/ Abort PROVE CleanupInv'
<1>1. PICK a \in {"list", "done", "failed"}, n \in 1 .. 3 :
         script' = [[script EXCEPT !.at = a] EXCEPT !.space = n]
  <2>1. CASE NextSpace
    <3>1. script.space \in 1 .. 3
      BY DEF CleanupInv, CleanupTypeOK
    <3>2. CASE script.space = 3
      BY <2>1, <3>2 DEF NextSpace, CleanupInv, CleanupTypeOK
    <3>3. CASE script.space # 3
      <4>1. script.space + 1 \in 1 .. 3
        BY <3>1, <3>3
      <4>. QED BY <2>1, <3>3, <4>1 DEF NextSpace, CleanupInv, CleanupTypeOK
    <3>. QED BY <3>2, <3>3
  <2>2. CASE Abort
    <3>1. script.space \in 1 .. 3
      BY DEF CleanupInv, CleanupTypeOK
    <3>2. script' = [[script EXCEPT !.at = "failed"] EXCEPT !.space = script.space]
      BY <2>2 DEF Abort, CleanupInv, CleanupTypeOK
    <3>. QED BY <3>1, <3>2
  <2>. QED BY <2>1, <2>2
<1>2. /\ script'.at = a /\ script'.count = script.count /\ script'.dryRun = script.dryRun
      /\ script.at \in {"list", "visit"} /\ UNCHANGED <<store, now, writes, changed, removed, wrong>>
  BY <1>1 DEF NextSpace, Abort, CleanupInv, CleanupTypeOK
<1>3. failures \in Nat /\ failures' \in Nat /\ failures' >= failures
  <2>1. failures' = failures \/ failures' = failures + 1
    BY DEF NextSpace, Abort
  <2>2. failures \in Nat
    BY DEF CleanupInv, CleanupTypeOK
  <2>. QED BY <2>1, <2>2
<1>4. CleanupTypeOK'
  BY <1>1, <1>2, <1>3 DEF CleanupInv, CleanupTypeOK
<1>5. Accounts'
  <2>1. script.count.expired \in Nat
    BY DEF CleanupInv, CleanupTypeOK, Counts
  <2>. QED BY <1>1, <1>2, <1>3, <2>1, BooksStayRight
<1>. QED BY <1>1, <1>2, <1>4, <1>5 DEF CleanupInv, Judged

LEMMA CountOne ==
    ASSUME NEW count \in Counts, NEW field \in {"expired", "malformed", "held"}
    PROVE  LET more == [count EXCEPT ![field] = count[field] + 1]
           IN  /\ more \in Counts /\ more.deleted = count.deleted
               /\ more.expired \in {count.expired, count.expired + 1}
               /\ field = "expired" => more.expired = count.expired + 1
<1>1. CASE field = "expired"
  <2>1. count.expired \in Nat /\ count.expired + 1 \in Nat
    BY DEF Counts
  <2>. QED BY <1>1, <2>1 DEF Counts
<1>2. CASE field = "malformed"
  <2>1. count.malformed \in Nat /\ count.malformed + 1 \in Nat
    BY DEF Counts
  <2>. QED BY <1>2, <2>1 DEF Counts
<1>3. CASE field = "held"
  <2>1. count.held \in Nat /\ count.held + 1 \in Nat
    BY DEF Counts
  <2>. QED BY <1>3, <2>1 DEF Counts
<1>. QED BY <1>1, <1>2, <1>3

\* After a visit: the record is passed over, or is to be deleted and was judged.
LEMMA VisitStep == ASSUME CleanupInv, Visit PROVE CleanupInv'
<1>. DEFINE key == Head(script.keys)
            metadata == ReadMetadata(Space[key], store[key])
<1>1. /\ script.at = "visit" /\ script.keys # <<>> /\ changed' = changed \ {key}
      /\ UNCHANGED <<store, now, failures, writes, removed, wrong>>
  BY DEF Visit
<1>2. key \in RecordKeys /\ Tail(script.keys) \in Seq(RecordKeys) /\ script.count \in Counts
  BY <1>1 DEF CleanupInv, CleanupTypeOK
<1>3. PICK a \in {"visit", "delete"}, keys \in {script.keys, Tail(script.keys)}, count \in Counts :
         /\ script' = [[[script EXCEPT !.at = a] EXCEPT !.keys = keys] EXCEPT !.count = count]
         /\ count.deleted = script.count.deleted
         /\ count.expired \in {script.count.expired, script.count.expired + 1}
         /\ a = "delete" => /\ keys = script.keys /\ ~script.dryRun
                            /\ count.expired = script.count.expired + 1
                            /\ store[key].there /\ ~metadata.hold
                            /\ metadata.expiresAt # NotADate /\ Expired(metadata)
  <2>. DEFINE more(field) == [script.count EXCEPT ![field] = script.count[field] + 1]
              To(a, keys, count) ==
                 [[[script EXCEPT !.at = a] EXCEPT !.keys = keys] EXCEPT !.count = count]
  <2>1. CASE script' = [script EXCEPT !.keys = Tail(@)]
    <3>1. script' = To("visit", Tail(script.keys), script.count)
      BY <1>1, <2>1 DEF CleanupInv, CleanupTypeOK
    <3>. QED BY <1>2, <3>1
  <2>2. ASSUME NEW field \in {"expired", "malformed", "held"},
               script' = [script EXCEPT !.keys = Tail(@), !.count[field] = @ + 1]
        PROVE  /\ script' = To("visit", Tail(script.keys), more(field))
               /\ more(field) \in Counts /\ more(field).deleted = script.count.deleted
               /\ more(field).expired \in {script.count.expired, script.count.expired + 1}
    <3>1. script' = To("visit", Tail(script.keys), more(field))
      BY <1>1, <1>2, <2>2 DEF CleanupInv, CleanupTypeOK, Counts
    <3>. QED BY <1>2, <3>1, CountOne
  <2>3. ASSUME script' = [script EXCEPT !.at = "delete", !.count.expired = @ + 1]
        PROVE  /\ script' = To("delete", script.keys, more("expired"))
               /\ more("expired") \in Counts /\ more("expired").deleted = script.count.deleted
               /\ more("expired").expired = script.count.expired + 1
    <3>1. script' = To("delete", script.keys, more("expired"))
      BY <1>1, <1>2, <2>3 DEF CleanupInv, CleanupTypeOK, Counts
    <3>. QED BY <1>2, <3>1, CountOne
  <2>4. \/ script' = [script EXCEPT !.keys = Tail(@)]
        \/ \E field \in {"expired", "malformed", "held"} :
              script' = [script EXCEPT !.keys = Tail(@), !.count[field] = @ + 1]
        \/ /\ script' = [script EXCEPT !.at = "delete", !.count.expired = @ + 1]
           /\ store[key].there /\ ~metadata.hold /\ metadata.expiresAt # NotADate
           /\ Expired(metadata) /\ ~script.dryRun
    BY DEF Visit
  <2>5. CASE \E field \in {"expired", "malformed", "held"} :
                script' = [script EXCEPT !.keys = Tail(@), !.count[field] = @ + 1]
    <3>1. PICK field \in {"expired", "malformed", "held"} :
             script' = [script EXCEPT !.keys = Tail(@), !.count[field] = @ + 1]
      BY <2>5
    <3>2. /\ script' = To("visit", Tail(script.keys), more(field))
          /\ more(field) \in Counts /\ more(field).deleted = script.count.deleted
          /\ more(field).expired \in {script.count.expired, script.count.expired + 1}
      BY <2>2, <3>1
    <3>. HIDE DEF more
    <3>. QED BY <3>2
  <2>6. CASE /\ script' = [script EXCEPT !.at = "delete", !.count.expired = @ + 1]
             /\ store[key].there /\ ~metadata.hold /\ metadata.expiresAt # NotADate
             /\ Expired(metadata) /\ ~script.dryRun
    <3>1. /\ script' = To("delete", script.keys, more("expired"))
          /\ more("expired") \in Counts /\ more("expired").deleted = script.count.deleted
          /\ more("expired").expired = script.count.expired + 1
      BY <2>3, <2>6
    <3>. HIDE DEF more, metadata
    <3>. QED BY <2>6, <3>1
  <2>. QED BY <2>1, <2>4, <2>5, <2>6
<1>. HIDE DEF metadata
<1>4. /\ script'.at = a /\ script'.keys = keys /\ script'.count = count
      /\ script'.dryRun = script.dryRun /\ script'.startedAt = script.startedAt
  BY <1>3 DEF CleanupInv, CleanupTypeOK
<1>5. CleanupTypeOK'
  BY <1>1, <1>2, <1>3 DEF CleanupInv, CleanupTypeOK
<1>6. Accounts'
  <2>1. /\ count.expired \in Nat /\ script.count.expired \in Nat /\ failures \in Nat
    BY <1>2, <1>3 DEF CleanupInv, CleanupTypeOK, Counts
  <2>2. count.expired >= script.count.expired + (IF a = "delete" THEN 1 ELSE 0)
    BY <1>3, <2>1
  <2>. QED BY <1>1, <1>3, <1>4, <2>1, <2>2, BooksStayRight
<1>7. Judged'
  <2>. SUFFICES ASSUME a = "delete" PROVE Judged'
    BY <1>4 DEF Judged
  <2>1. store[key] \in Storable
    <3>1. store[key] \in Storable \cup {NoRecord}
      BY <1>2 DEF CleanupInv, CleanupTypeOK
    <3>. QED BY <1>3, <3>1 DEF NoRecord
  <2>2. Space[key] \in {"history", "promotions", "audit"} /\ script.startedAt \in Nat
    BY <1>2, CleanupAssumption DEF CleanupInv, CleanupTypeOK
  <2>3. ~ShouldKeep(Space[key], store[key])
    BY <1>3, <2>1, <2>2, ExpiredMayGo DEF metadata
  <2>4. Head(script'.keys) = key /\ script'.keys # <<>> /\ ~script'.dryRun
    BY <1>1, <1>3, <1>4
  <2>. HIDE DEF key
  <2>5. ~ShouldKeep(Space[Head(script.keys)], store[Head(script.keys)])'
    BY <1>1, <1>3, <1>4, <2>3 DEF key, ShouldKeep
  <2>. QED BY <1>1, <1>3, <1>4, <2>4, <2>5 DEF Judged, key
<1>. QED BY <1>1, <1>5, <1>6, <1>7 DEF CleanupInv

\* A deletion that reaches the store or not, and that is answered or not.
LEMMA DeleteStep ==
    ASSUME CleanupInv, Delete \/ \E reached \in BOOLEAN : DeleteFails(reached)
    PROVE  CleanupInv'
<1>. DEFINE key == Head(script.keys)
            was == IF store[key].there THEN 1 ELSE 0
            To(count) == [[[script EXCEPT !.at = "visit"] EXCEPT !.keys = Tail(script.keys)]
                             EXCEPT !.count = count]
<1>1. script.at = "delete" /\ script.keys # <<>> /\ UNCHANGED <<now, writes, changed>>
  BY DEF Delete, DeleteFails, CleanupInv, Judged
<1>2. key \in RecordKeys /\ Tail(script.keys) \in Seq(RecordKeys) /\ script.count \in Counts
  BY <1>1 DEF CleanupInv, CleanupTypeOK
<1>3. ~(store[key].there /\ key \notin changed /\ ShouldKeep(Space[key], store[key]))
  BY <1>1 DEF CleanupInv, Judged
<1>4. /\ removed \in Nat /\ failures \in Nat /\ ~script.dryRun
      /\ script.count.deleted \in Nat /\ script.count.expired \in Nat
      /\ script.count.deleted <= removed /\ removed <= script.count.deleted + failures
      /\ removed + 1 <= script.count.expired
  BY <1>1 DEF CleanupInv, CleanupTypeOK, Counts, Judged, Accounts
<1>5. PICK gone \in {0, 1}, told \in {0, 1}, lost \in {0, 1}, count \in Counts :
         /\ script' = To(count) /\ store' \in {store, [store EXCEPT ![key] = NoRecord]}
         /\ count.deleted = script.count.deleted + told /\ count.expired = script.count.expired
         /\ removed' = removed + gone /\ failures' = failures + lost
         /\ told <= gone /\ gone <= told + lost /\ ~wrong'
  <2>1. CASE Delete
    <3>. DEFINE count == [script.count EXCEPT !.deleted = script.count.deleted + was]
    <3>1. was \in {0, 1} /\ script.count.deleted + was \in Nat
      BY <1>4
    <3>2. count \in Counts /\ count.deleted = script.count.deleted + was
          /\ count.expired = script.count.expired
      BY <1>2, <3>1 DEF Counts
    <3>3. script' = To(count)
      BY <1>1, <1>2, <2>1 DEF Delete, CleanupInv, CleanupTypeOK, Counts
    <3>4. /\ store' = [store EXCEPT ![key] = NoRecord] /\ removed' = removed + was
          /\ failures' = failures + 0 /\ ~wrong'
      <4>1. /\ store' = [store EXCEPT ![key] = NoRecord] /\ removed' = removed + was
            /\ failures' = failures
        BY <2>1 DEF Delete
      <4>2. ~wrong'
        BY <1>3, <2>1 DEF Delete, CleanupInv
      <4>3. failures = failures + 0
        BY <1>4
      <4>. QED BY <4>1, <4>2, <4>3
    <3>. HIDE DEF count, was, To, key
    <3>. QED BY <3>1, <3>2, <3>3, <3>4
  <2>2. CASE \E reached \in BOOLEAN : DeleteFails(reached)
    <3>1. PICK reached \in BOOLEAN : DeleteFails(reached)
      BY <2>2
    <3>. DEFINE count == [script.count EXCEPT !["malformed"] = script.count["malformed"] + 1]
                gone == IF reached /\ store[key].there THEN 1 ELSE 0
    <3>2. count \in Counts /\ count.deleted = script.count.deleted
      BY <1>2, CountOne
    <3>3. count.expired = script.count.expired
      BY <1>2 DEF Counts
    <3>4. script' = To(count)
      BY <1>1, <1>2, <3>1 DEF DeleteFails, CleanupInv, CleanupTypeOK, Counts
    <3>5. /\ store' \in {store, [store EXCEPT ![key] = NoRecord]} /\ removed' = removed + gone
          /\ failures' = failures + 1 /\ ~wrong'
      BY <1>3, <3>1 DEF DeleteFails, CleanupInv
    <3>6. gone \in {0, 1}
      OBVIOUS
    <3>7. script.count.deleted = script.count.deleted + 0
      BY <1>4
    <3>. HIDE DEF count, gone, To, key
    <3>. QED BY <3>2, <3>3, <3>4, <3>5, <3>6, <3>7
  <2>. QED BY <2>1, <2>2
<1>6. /\ script'.at = "visit" /\ script'.count = count /\ script'.dryRun = script.dryRun
  BY <1>5 DEF CleanupInv, CleanupTypeOK
<1>7. CleanupTypeOK'
  <2>1. store' \in [RecordKeys -> Storable \cup {NoRecord}]
    BY <1>2, <1>5 DEF CleanupInv, CleanupTypeOK
  <2>2. script' \in [at : {"idle", "list", "visit", "delete", "done", "failed"}, dryRun : BOOLEAN,
                     startedAt : Nat, space : 1 .. 3, keys : Seq(RecordKeys), count : Counts]
    <3>. HIDE DEF key
    <3>. QED BY <1>2, <1>5 DEF CleanupInv, CleanupTypeOK
  <2>3. removed' \in Nat /\ failures' \in Nat
    BY <1>4, <1>5
  <2>. QED BY <1>1, <2>1, <2>2, <2>3 DEF CleanupInv, CleanupTypeOK
<1>8. Accounts'
  <2>. HIDE DEF key, was, To
  <2>. QED BY <1>4, <1>5, <1>6 DEF Accounts
<1>. QED BY <1>5, <1>6, <1>7, <1>8 DEF CleanupInv, Judged

-----------------------------------------------------------------------------
(* The others' steps. *)

LEMMA OthersStep ==
    ASSUME CleanupInv, NEW key \in RecordKeys, NEW record \in Storable \cup {NoRecord},
           store' = [store EXCEPT ![key] = record], writes' \in Nat,
           \/ changed' = changed \cup {key}
           \/ record = NoRecord /\ changed' = changed,
           UNCHANGED <<now, script, failures, removed, wrong>>
    PROVE  CleanupInv'
<1>1. CleanupTypeOK'
  BY DEF CleanupInv, CleanupTypeOK
<1>2. Accounts'
  BY DEF CleanupInv, Accounts
<1>3. Judged'
  <2>. SUFFICES ASSUME script.at = "delete" PROVE Judged'
    BY DEF Judged
  <2>. DEFINE doomed == Head(script.keys)
  <2>1. script.keys # <<>> /\ ~script.dryRun
        /\ (store[doomed].there /\ doomed \notin changed => ~ShouldKeep(Space[doomed], store[doomed]))
    BY DEF CleanupInv, Judged
  <2>2. doomed \in RecordKeys
    BY <2>1 DEF CleanupInv, CleanupTypeOK
  <2>3. store'[doomed] = IF doomed = key THEN record ELSE store[doomed]
    BY <2>2 DEF CleanupInv, CleanupTypeOK
  <2>4. store'[doomed].there /\ doomed \notin changed' => store'[doomed] = store[doomed] /\ doomed \notin changed
    BY <2>3 DEF NoRecord
  <2>. QED BY <2>1, <2>4 DEF Judged, ShouldKeep
<1>. QED BY <1>1, <1>2, <1>3 DEF CleanupInv

LEMMA CleanupStep ==
    ASSUME NEW records, records \subseteq Storable
    PROVE  CleanupInv /\ [CleanupNext(records)]_cleanupVars => CleanupInv'
<1>. SUFFICES ASSUME CleanupInv, [CleanupNext(records)]_cleanupVars PROVE CleanupInv'
  OBVIOUS
<1>1. CASE UNCHANGED cleanupVars
  BY <1>1 DEF cleanupVars, CleanupInv, CleanupTypeOK, Judged, Accounts, ShouldKeep
<1>2. CASE \E dryRun \in BOOLEAN : Start(dryRun)
  BY <1>2, StartStep
<1>3. CASE List \/ NextSpace \/ Abort \/ Visit
  BY <1>3, ListStep, MoveOnStep, VisitStep
<1>4. CASE Delete \/ \E reached \in BOOLEAN : DeleteFails(reached)
  BY <1>4, DeleteStep
<1>5. CASE Pass
  <2>1. now' \in Nat /\ UNCHANGED <<store, script, failures, writes, changed, removed, wrong>>
    <3>1. now \in Nat /\ now' = now + 1
      BY <1>5 DEF Pass, CleanupInv, CleanupTypeOK
    <3>. QED BY <1>5, <3>1 DEF Pass
  <2>. QED BY <2>1 DEF CleanupInv, CleanupTypeOK, Judged, Accounts, ShouldKeep
<1>6. ASSUME NEW key \in RecordKeys, NEW record \in Storable, Write(key, record)
      PROVE  CleanupInv'
  <2>1. writes \in Nat /\ writes' = writes + 1
    BY <1>6 DEF Write, CleanupInv, CleanupTypeOK
  <2>2. writes' \in Nat
    BY <2>1
  <2>. QED BY <1>6, <2>2, OthersStep DEF Write
<1>7. ASSUME NEW key \in RecordKeys, Evict(key) PROVE CleanupInv'
  BY <1>7, OthersStep DEF Evict, CleanupInv, CleanupTypeOK
<1>8. ASSUME NEW key \in RecordKeys, NEW seenAt \in 0 .. MaxNow, Observe(key, seenAt)
      PROVE  CleanupInv'
  <2>1. seenAt + Ttl \in Nat
    BY CleanupAssumption
  <2>2. Record(seenAt + Ttl, Undefined, "no") \in Storable
    BY <2>1 DEF Record, Storable, Dates
  <2>. QED BY <1>6, <1>8, <2>2 DEF Observe
<1>9. ASSUME NEW key \in RecordKeys, NEW record \in records, Put(key, record) PROVE CleanupInv'
  BY <1>6, <1>9 DEF Put
<1>10. ASSUME NEW key \in RecordKeys, NEW hold \in {"yes", "no"}, Hold(key, hold)
       PROVE  CleanupInv'
  <2>1. store[key] \in Storable
    <3>1. store[key] \in Storable \cup {NoRecord} /\ store[key].there
      BY <1>10 DEF Hold, CleanupInv, CleanupTypeOK
    <3>. QED BY <3>1 DEF NoRecord
  <2>2. store[key] # Garbage
    BY <1>10 DEF Hold, Garbage
  <2>3. [store[key] EXCEPT !.hold = hold] \in Storable
    BY <2>1, <2>2 DEF Storable
  <2>. QED BY <1>6, <1>10, <2>3 DEF Hold
<1>. QED BY <1>1, <1>2, <1>3, <1>4, <1>5, <1>7, <1>8, <1>9, <1>10 DEF CleanupNext

\* Cleanup beside any writers deletes nothing that was to be kept when it was judged
\* and has not changed since, nothing on a dry run, and no more than it counts.
THEOREM CleanupsKeepWhatTheyShould ==
    ASSUME NEW records, records \subseteq Storable
    PROVE  CleanupSpec(records) => []CleanupKeepsWhatItShould
<1>1. CleanupInv => CleanupKeepsWhatItShould
  <2>. SUFFICES ASSUME CleanupInv PROVE CleanupKeepsWhatItShould
    OBVIOUS
  <2>1. /\ removed \in Nat /\ failures \in Nat
        /\ script.count.deleted \in Nat /\ script.count.expired \in Nat
    BY DEF CleanupInv, CleanupTypeOK, Counts
  <2>. QED BY <2>1 DEF CleanupInv, Accounts, CleanupKeepsWhatItShould
<1>2. CleanupInv /\ [CleanupNext(records)]_cleanupVars => CleanupInv'
  BY CleanupStep
<1>. QED BY <1>1, <1>2, InitialCleanup, PTL DEF CleanupSpec

-----------------------------------------------------------------------------
(***************************************************************************)
(* The two selector stores, on what the registry and the candidate history *)
(* store: counters start from a number, and no record has version 0, which *)
(* the memory store would match and the Redis client refuses to expect.    *)
(***************************************************************************)
StoreSpec == StoreInit /\ [][StoreNext]_storeVars

CommonPaths ==
    /\ \A patch \in Patches : \A f \in DOMAIN patch.increments :
          patch.defaultValue[f][1] \in {"number", "missing"}
    /\ 0 \in Versions =>
          /\ \A value \in Values : value.fields["version"] # Num(0)
          /\ \A patch \in Patches : /\ "version" \notin DOMAIN patch.increments
                                    /\ Num(0) \notin {patch.defaultValue["version"],
                                                      patch.set["version"]}

\* What is held as long as only plain values are.
Usual(value) ==
    /\ value \in JsonValue /\ Plain(value)
    /\ 0 \in Versions => value.fields["version"] # Num(0)

Holding == [value : JsonValue \cup {Absent}, expiresAt : Int]

\* Both hold the same, or one has forgotten what the other lets expire.
Same == /\ ReadLive(memory) = Live(redis)
        /\ ReadLive(memory) # Absent => memory = redis

StoreInv ==
    /\ clock \in Int /\ memory \in Holding /\ redis \in Holding
    /\ plain => /\ memory.value = Absent \/ Usual(memory.value)
                /\ ~closed => agreed /\ Same

-----------------------------------------------------------------------------

LEMMA InitialStores == StoreInit => StoreInv
BY DEF StoreInit, StoreInv, Nothing, Forever, Holding, Same, ReadLive, Live

LEMMA LiveIsHeld ==
    ASSUME StoreInv, plain, ~closed
    PROVE  /\ Live(redis) = ReadLive(memory)
           /\ ReadLive(memory) # Absent => Usual(ReadLive(memory)) /\ memory = redis
BY DEF StoreInv, Same, ReadLive

\* Both write the same entry, or nothing, and say the same.
LEMMA BothStep ==
    ASSUME StoreInv, NEW m, NEW r, Both(m, r), Agree(m[2], r[2]),
           \/ m[1] = memory /\ r[1] = redis
           \/ /\ m[1] = r[1] /\ m[1] \in Holding
              /\ m[1].value = Absent \/ (Plain(m[1].value) => Usual(m[1].value))
    PROVE  StoreInv'
<1>1. /\ plain /\ ~closed /\ memory' = m[1] /\ redis' = r[1] /\ agreed'
      /\ clock' = clock /\ closed' = closed
      /\ plain' = (m[1].value = Absent \/ Plain(m[1].value))
  BY DEF Both
<1>2. clock' \in Int /\ memory' \in Holding /\ redis' \in Holding
  BY <1>1 DEF StoreInv
<1>3. plain' => memory'.value = Absent \/ Usual(memory'.value)
  BY <1>1 DEF StoreInv
<1>4. Same'
  <2>1. CASE m[1] = memory /\ r[1] = redis
    BY <1>1, <2>1 DEF StoreInv, Same, ReadLive, Live
  <2>2. CASE m[1] = r[1] /\ m[1] \in Holding
    BY <1>1, <2>2 DEF Same, ReadLive, Live, Holding, StoreInv
  <2>. QED BY <2>1, <2>2
<1>. QED BY <1>1, <1>2, <1>3, <1>4 DEF StoreInv

LEMMA EntriesHold ==
    ASSUME StoreInv, NEW value \in JsonValue \cup {Absent}, NEW ttl \in Ttls
    PROVE  Entry(value, ttl) \in Holding /\ Entry(value, ttl).value = value
<1>1. ttl \in Int /\ clock \in Int
  BY StoreAssumption DEF StoreInv
<1>2. Expiry(ttl) \in Int
  BY <1>1 DEF Expiry, Forever
<1>. QED BY <1>2 DEF Entry, Holding

\* Calls that write a value given by the client.
LEMMA WriteStep ==
    ASSUME CommonPaths, StoreInv, NEW value \in Values, NEW ttl \in Ttls, NEW m, NEW r,
           Both(m, r), Agree(m[2], r[2]),
           \/ m[1] = memory /\ r[1] = redis
           \/ m[1] = Entry(value, ttl) /\ r[1] = Entry(value, ttl)
    PROVE  StoreInv'
<1>1. value \in JsonValue
  BY StoreAssumption
<1>2. Plain(value) => Usual(value)
  BY <1>1 DEF CommonPaths, Usual
<1>. QED BY <1>1, <1>2, EntriesHold, BothStep

LEMMA ReadStep == ASSUME StoreInv, Get \/ ListKeys \/ Del PROVE StoreInv'
<1>1. plain /\ ~closed
  BY DEF Get, ListKeys, Del, Both
<1>2. Live(redis) = ReadLive(memory)
  BY <1>1, LiveIsHeld
<1>3. Nothing \in Holding /\ Nothing.value = Absent
  BY DEF Nothing, Holding, Forever
<1>4. CASE Get
  BY <1>2, <1>4, BothStep DEF Get, Agree
<1>5. CASE ListKeys
  BY <1>2, <1>5, BothStep DEF ListKeys, Agree
<1>6. CASE Del
  BY <1>2, <1>3, <1>6, BothStep DEF Del, Agree
<1>. QED BY <1>4, <1>5, <1>6

LEMMA SetStep ==
    ASSUME CommonPaths, StoreInv, NEW value \in Values, NEW ttl \in Ttls, Set(value, ttl)
    PROVE  StoreInv'
BY WriteStep DEF Set, Agree

\* A plain record says its version alike to both, and is replied as it is.
LEMMA PlainReads ==
    ASSUME NEW value, Usual(value)
    PROVE  /\ value.shape = "object" /\ value # Absent /\ Replied(value) = value
           /\ \A f \in Fields : value.fields[f] \in Primitive /\ value.fields[f] # Nested
           /\ \A f \in Fields : value.fields[f][1] = "string" => value.fields[f] = Text(0)
           /\ \A n \in Int \ {Forever} :
                 StoredVersion(value) = n <=> ToNumber(value.fields["version"]) = n
<1>1. value.shape = "object" /\ value \in JsonValue
  BY DEF Usual, Plain, Flat
<1>2. value.fields \in [Fields -> Primitive]
  BY <1>1 DEF JsonValue, Array, Malformed, Empty
<1>3. value # Absent /\ value # Empty
  BY <1>1 DEF Absent, Empty
<1>4. /\ \A f \in Fields : value.fields[f] # Nested
      /\ \A f \in Fields : value.fields[f][1] = "string" => value.fields[f] = Text(0)
  BY DEF Usual, Plain, Flat
<1>5. \A n \in Int \ {Forever} :
         StoredVersion(value) = n <=> ToNumber(value.fields["version"]) = n
  <2>1. value.fields["version"][1] = "string" => value.fields["version"] = Text(0)
    BY <1>4, StoreAssumption
  <2>. QED BY <1>1, <2>1 DEF StoredVersion, ToNumber
<1>. QED BY <1>1, <1>2, <1>3, <1>4, <1>5 DEF Replied

\* A compare-and-set that one store refuses and the other calls an error agrees.
LEMMA RefusedOrError ==
    ASSUME NEW a, NEW b, a.said \in {"refused", "error"}, b.said \in {"refused", "error"},
           a.said = b.said => a = b
    PROVE  Agree(a, b)
BY DEF Agree

LEMMA CasStep ==
    ASSUME CommonPaths, StoreInv, NEW value \in Values, NEW ttl \in Ttls, NEW expected \in Versions,
           CompareAndSet(expected, value, ttl)
    PROVE  StoreInv'
<1>. DEFINE held == ReadLive(memory)
            matches == IF expected = Forever THEN held = Absent
                       ELSE held # Absent /\ StoredVersion(held) = expected
            m == MemoryCas(expected, value, ttl)
            r == RedisCas(expected, value, ttl)
<1>1. plain /\ ~closed /\ Both(m, r)
  BY DEF CompareAndSet, Both
<1>2. Live(redis) = held /\ (held # Absent => Usual(held))
  BY <1>1, LiveIsHeld
<1>3. Replied(held) = held
  BY <1>2, PlainReads DEF Replied, Absent, Empty
<1>4. expected \in Int
  BY StoreAssumption
<1>5. r = IF (expected # Forever /\ expected < 1) \/ ~Valid(ttl) THEN <<redis, Error>>
          ELSE IF ~matches THEN <<redis, Answer("refused", held)>>
          ELSE <<Entry(value, ttl), Answer("written", held)>>
  <2>1. CASE expected = Forever
    BY <1>2, <1>3, <2>1 DEF RedisCas
  <2>2. CASE expected # Forever /\ held = Absent
    BY <1>2, <1>3, <2>2 DEF RedisCas, Absent
  <2>3. CASE expected # Forever /\ held # Absent
    BY <1>2, <1>3, <1>4, <2>3, PlainReads DEF RedisCas
  <2>. QED BY <2>1, <2>2, <2>3
<1>6. m = IF expected # Forever /\ expected < 0 THEN <<memory, Error>>
          ELSE IF ~matches THEN <<memory, Answer("refused", held)>>
          ELSE IF ~Valid(ttl) THEN <<memory, Error>>
          ELSE <<Entry(value, ttl), Answer("written", held)>>
  BY DEF MemoryCas
\* Nothing that is held has the version 0 that only the memory store would match.
<1>7. expected = 0 => ~matches
  <2>. SUFFICES ASSUME expected = 0, held # Absent PROVE StoredVersion(held) # 0
    BY DEF Forever
  <2>1. held.fields["version"] # Num(0) /\ held.fields["version"] \in Primitive
    BY <1>2, StoreAssumption, PlainReads DEF Usual
  <2>. QED BY <2>1 DEF StoredVersion, Forever, Num, Primitive, Missing, Nested
<1>8. Error.said = "error" /\ \A said, v : Answer(said, v).said = said
  BY DEF Error, Answer
<1>. HIDE DEF matches, held, m, r
<1>9. CASE (expected # Forever /\ expected < 1) \/ ~Valid(ttl)
  <2>1. r = <<redis, Error>>
    BY <1>5, <1>9
  <2>2. m[1] = memory /\ m[2].said \in {"refused", "error"} /\ (m[2].said = "error" => m[2] = Error)
    BY <1>4, <1>6, <1>7, <1>8, <1>9
  <2>3. Agree(m[2], r[2])
    BY <1>8, <2>1, <2>2, RefusedOrError
  <2>. QED BY <1>1, <2>1, <2>2, <2>3, WriteStep
<1>10. CASE ~((expected # Forever /\ expected < 1) \/ ~Valid(ttl))
  <2>1. ~(expected # Forever /\ expected < 0) /\ Valid(ttl)
    BY <1>4, <1>10
  <2>2. CASE ~matches
    <3>1. m = <<memory, Answer("refused", held)>> /\ r = <<redis, Answer("refused", held)>>
      BY <1>5, <1>6, <1>10, <2>1, <2>2
    <3>. QED BY <1>1, <3>1, WriteStep DEF Agree
  <2>3. CASE matches
    <3>1. m = <<Entry(value, ttl), Answer("written", held)>> /\ r = m
      BY <1>5, <1>6, <1>10, <2>1, <2>3
    <3>. QED BY <1>1, <3>1, WriteStep DEF Agree
  <2>. QED BY <2>2, <2>3
<1>. QED BY <1>9, <1>10

LEMMA CasFieldStep ==
    ASSUME CommonPaths, StoreInv, NEW value \in Values, NEW ttl \in Ttls, NEW field \in Fields,
           NEW expected, CompareAndSetJsonField(field, expected, value, ttl)
    PROVE  StoreInv'
<1>. DEFINE held == ReadLive(memory)
            m == MemoryCasField(field, expected, value, ttl)
            r == RedisCasField(field, expected, value, ttl)
<1>1. plain /\ ~closed /\ Both(m, r)
  BY DEF CompareAndSetJsonField, Both
<1>2. Live(redis) = held /\ (held # Absent => Usual(held))
  BY <1>1, LiveIsHeld
<1>3. Replied(held) = held
  BY <1>2, PlainReads DEF Replied, Absent, Empty
<1>4. held # Absent => held.shape = "object" /\ Flat(held)
  BY <1>2 DEF Usual, Plain, Flat
<1>5. Absent.shape \notin {"object", "array"}
  BY DEF Absent
<1>. DEFINE matches == held # Absent /\ held.fields[field] = expected
<1>6. m = IF held # Absent /\ ~matches THEN <<memory, Answer("refused", held)>>
          ELSE IF held = Absent THEN <<memory, Answer("refused", held)>>
          ELSE IF ~Valid(ttl) THEN <<memory, Error>>
          ELSE <<Entry(value, ttl), Answer("written", held)>>
  BY <1>4 DEF MemoryCasField
<1>7. r = IF ~Valid(ttl) THEN <<redis, Error>>
          ELSE IF ~matches THEN <<redis, Answer("refused", held)>>
          ELSE <<Entry(value, ttl), Answer("written", held)>>
  BY <1>2, <1>3, <1>4, <1>5 DEF RedisCasField
<1>8. Error.said = "error" /\ \A said, v : Answer(said, v).said = said
  BY DEF Error, Answer
<1>9. matches => held # Absent
  OBVIOUS
<1>. HIDE DEF matches, held, m, r
<1>10. CASE ~matches
  <2>1. m = <<memory, Answer("refused", held)>> /\ r \in {<<redis, Error>>, <<redis, Answer("refused", held)>>}
    BY <1>6, <1>7, <1>10
  <2>2. Agree(m[2], r[2])
    BY <1>8, <2>1, RefusedOrError
  <2>. QED BY <1>1, <2>1, <2>2, WriteStep
<1>11. CASE matches
  <2>1. CASE Valid(ttl)
    <3>1. m = <<Entry(value, ttl), Answer("written", held)>> /\ r = m
      BY <1>6, <1>7, <1>9, <1>11, <2>1
    <3>. QED BY <1>1, <3>1, WriteStep DEF Agree
  <2>2. CASE ~Valid(ttl)
    <3>1. m = <<memory, Error>> /\ r = <<redis, Error>>
      BY <1>6, <1>7, <1>9, <1>11, <2>2
    <3>. QED BY <1>1, <3>1, WriteStep DEF Agree
  <2>. QED BY <2>1, <2>2
<1>. QED BY <1>10, <1>11

\* A merge counts from a number or from nothing in both stores, and builds one record.
LEMMA MergeStep ==
    ASSUME CommonPaths, StoreInv, NEW patch \in Patches, NEW ttl \in Ttls,
           AtomicJsonMerge(patch, ttl)
    PROVE  StoreInv'
<1>. DEFINE held == ReadLive(memory)
            fields == IF held = Absent THEN patch.defaultValue ELSE held.fields
            base == Defaulted(fields, patch)
            inMemory == [f \in Fields |-> MemoryCounter(base[f])]
            inRedis == [f \in Fields |-> RedisCounter(base[f])]
            refuses == \/ ~Valid(ttl)
                       \/ \E f \in DOMAIN patch.increments : base[f][1] \notin {"number", "missing"}
            m == MemoryMerge(patch, ttl)
            r == RedisMerge(patch, ttl)
<1>1. plain /\ ~closed /\ Both(m, r)
  BY DEF AtomicJsonMerge, Both
<1>2. Live(redis) = held /\ (held # Absent => Usual(held))
  BY <1>1, LiveIsHeld
<1>3. /\ held # Absent => /\ Flat(held) /\ held.shape \notin {"malformed", "empty"}
                          /\ held.fields \in [Fields -> Primitive]
                          /\ \A f \in Fields : held.fields[f][1] = "string" => held.fields[f] = Text(0)
      /\ Absent.shape \notin {"malformed", "empty"}
  BY <1>2 DEF Usual, Plain, Flat, Absent, JsonValue, Array, Malformed, Empty
<1>4. JsonPatch(patch)
  BY StoreAssumption
<1>5. PICK some \in SUBSET Fields :
         some = DOMAIN patch.increments /\ patch.increments \in [some -> Int]
  BY <1>4 DEF JsonPatch
<1>6. DOMAIN patch.increments = some
  BY <1>5
<1>7. /\ patch.defaultValue \in [Fields -> Primitive] /\ patch.set \in [Fields -> Primitive]
      /\ fields \in [Fields -> Primitive]
  BY <1>3, <1>4 DEF JsonPatch
<1>8. \A f \in Fields : /\ base[f] \in Primitive
                        /\ base[f] = IF fields[f] = Missing THEN patch.defaultValue[f] ELSE fields[f]
  <2>. HIDE DEF fields
  <2>. QED BY <1>7 DEF Defaulted
<1>9. \A f \in some : base[f][1] = "string" => base[f] = Text(0)
  <2>. SUFFICES ASSUME NEW f \in some, base[f][1] = "string" PROVE base[f] = Text(0)
    OBVIOUS
  <2>1. patch.defaultValue[f][1] # "string"
    BY <1>6 DEF CommonPaths
  <2>2. held # Absent /\ base[f] = held.fields[f]
    BY <1>8, <2>1
  <2>. QED BY <1>3, <2>2
<1>. HIDE DEF base
<1>10. m = IF refuses THEN <<memory, Error>>
           ELSE <<Entry(Merged(base, patch, inMemory), ttl), Answer("merged", Merged(base, patch, inMemory))>>
  BY <1>3 DEF MemoryMerge, base
<1>11. \A f \in some : Countable(base[f]) <=> base[f][1] \in {"number", "missing"}
  BY <1>9 DEF Countable
<1>12. r = IF refuses THEN <<redis, Error>>
           ELSE <<Entry(Merged(base, patch, inRedis), ttl), Answer("merged", Merged(base, patch, inRedis))>>
  <2>1. refuses <=> \/ ~Valid(ttl)
                    \/ held.shape \in {"malformed", "empty"}
                    \/ \E f \in DOMAIN patch.increments : ~Countable(base[f])
    BY <1>3, <1>6, <1>11
  <2>2. r = IF \/ ~Valid(ttl)
               \/ held.shape \in {"malformed", "empty"}
               \/ \E f \in DOMAIN patch.increments : ~Countable(base[f])
            THEN <<redis, Error>>
            ELSE <<Entry(Merged(base, patch, inRedis), ttl), Answer("merged", Merged(base, patch, inRedis))>>
    BY <1>2 DEF RedisMerge, base
  <2>. HIDE DEF refuses, r, inRedis, held
  <2>. QED BY <2>1, <2>2
<1>13. CASE refuses
  <2>1. m = <<memory, Error>> /\ r = <<redis, Error>>
    BY <1>10, <1>12, <1>13
  <2>. HIDE DEF m, r
  <2>. QED BY <1>1, <2>1, BothStep DEF Agree
<1>14. CASE ~refuses
  <2>. DEFINE merged == Merged(base, patch, inMemory)
  <2>1. \A f \in some : inMemory[f] = inRedis[f] /\ inMemory[f] \in Int
    <3>1. \A f \in some : base[f][1] \in {"number", "missing"} /\ base[f] \in Primitive
      BY <1>6, <1>8, <1>14
    <3>. QED BY <3>1 DEF MemoryCounter, RedisCounter, ToNumber, Primitive, Missing, Nested
  <2>2. Merged(base, patch, inRedis) = merged
    BY <1>6, <2>1 DEF Merged
  <2>3. merged \in JsonValue
    <3>1. ASSUME NEW f \in some PROVE inMemory[f] + patch.increments[f] \in Int
      <4>1. inMemory[f] \in Int /\ patch.increments[f] \in Int
        BY <1>5, <2>1
      <4>. HIDE DEF inMemory
      <4>. QED BY <4>1
    <3>2. \A f \in some : Num(inMemory[f] + patch.increments[f]) \in Primitive
      BY <3>1 DEF Num, Primitive
    <3>. HIDE DEF inMemory
    <3>. QED BY <1>6, <1>7, <1>8, <3>2 DEF Merged, Object, JsonValue
  <2>4. Plain(merged) => Usual(merged)
    <3>. SUFFICES ASSUME 0 \in Versions PROVE merged.fields["version"] # Num(0)
      BY <2>3 DEF Usual
    <3>1. /\ "version" \notin some
          /\ patch.defaultValue["version"] # Num(0) /\ patch.set["version"] # Num(0)
      BY <1>6 DEF CommonPaths
    <3>2. base["version"] # Num(0)
      BY <1>2, <1>8, <3>1, StoreAssumption DEF Usual
    <3>3. merged.fields["version"] = IF patch.set["version"] # Missing THEN patch.set["version"]
                                     ELSE base["version"]
      BY <1>6, <3>1, StoreAssumption DEF Merged, Object
    <3>. QED BY <3>1, <3>2, <3>3
  <2>5. m = <<Entry(merged, ttl), Answer("merged", merged)>> /\ r = m
    BY <1>10, <1>12, <1>14, <2>2
  <2>6. Entry(merged, ttl) \in Holding /\ Entry(merged, ttl).value = merged
    BY <2>3, EntriesHold
  <2>. HIDE DEF m, r, merged
  <2>. QED BY <1>1, <2>4, <2>5, <2>6, BothStep DEF Agree
<1>. QED BY <1>13, <1>14

\* Time passes for both; the memory store is closed and forgets.
LEMMA TimeStep == ASSUME StoreInv, Tick \/ Close PROVE StoreInv'
<1>1. CASE Tick
  <2>1. clock \in Int /\ clock' = clock + 1 /\ UNCHANGED <<memory, redis, closed, agreed, plain>>
    BY <1>1 DEF Tick, StoreInv
  <2>2. memory.expiresAt \in Int /\ redis.expiresAt \in Int
    BY DEF StoreInv, Holding
  <2>3. Same => Same'
    BY <2>1, <2>2 DEF Same, ReadLive, Live
  <2>4. clock' \in Int
    BY <2>1
  <2>. QED BY <2>1, <2>3, <2>4 DEF StoreInv
<1>2. CASE Close
  BY <1>2 DEF Close, StoreInv, Nothing, Holding, Forever
<1>. QED BY <1>1, <1>2

LEMMA StoreStep == ASSUME CommonPaths PROVE StoreInv /\ [StoreNext]_storeVars => StoreInv'
<1>. SUFFICES ASSUME StoreInv, [StoreNext]_storeVars PROVE StoreInv'
  OBVIOUS
<1>1. CASE UNCHANGED storeVars
  BY <1>1 DEF storeVars, StoreInv, Same, ReadLive, Live
<1>2. CASE Get \/ Del \/ ListKeys
  BY <1>2, ReadStep
<1>3. CASE Close \/ Tick
  BY <1>3, TimeStep
<1>4. ASSUME NEW value \in Values, NEW ttl \in Ttls,
             \/ Set(value, ttl)
             \/ \E version \in Versions : CompareAndSet(version, value, ttl)
             \/ \E field \in Fields, expected \in Expectations :
                   CompareAndSetJsonField(field, expected, value, ttl)
      PROVE  StoreInv'
  BY <1>4, SetStep, CasStep, CasFieldStep
<1>5. ASSUME NEW patch \in Patches, NEW ttl \in Ttls, AtomicJsonMerge(patch, ttl)
      PROVE  StoreInv'
  BY <1>5, MergeStep
<1>. QED BY <1>1, <1>2, <1>3, <1>4, <1>5 DEF StoreNext

\* "Implements the same capabilities for common registry paths": for any records,
\* patches, versions and times to live, as long as what is held is plain.
THEOREM StoresAgreeOnCommonPaths ==
    ASSUME CommonPaths
    PROVE  StoreSpec => []StoresAgree
<1>1. StoreInv => StoresAgree
  BY DEF StoreInv, Same, StoresAgree
<1>2. StoreInv /\ [StoreNext]_storeVars => StoreInv'
  BY StoreStep
<1>. QED BY <1>1, <1>2, InitialStores, PTL DEF StoreSpec

-----------------------------------------------------------------------------

\* Counting the elements no later than each numbers a finite totally ordered set from 1 on.
LEMMA RanksNumberAnOrder ==
    ASSUME NEW S, IsFiniteSet(S), NEW R,
           \A i \in S : <<i, i>> \in R,
           \A i, j \in S : <<i, j>> \in R \/ <<j, i>> \in R,
           \A i, j \in S : <<i, j>> \in R /\ <<j, i>> \in R => i = j,
           \A i, j, k \in S : <<i, j>> \in R /\ <<j, k>> \in R => <<i, k>> \in R,
           NEW rank, rank = [i \in S |-> Cardinality({j \in S : <<j, i>> \in R})]
    PROVE  /\ rank \in Bijection(S, 1 .. Cardinality(S))
           /\ \A i, j \in S : <<i, j>> \in R <=> rank[i] <= rank[j]
<1>. DEFINE below(i) == {j \in S : <<j, i>> \in R}
<1>1. Cardinality(S) \in Nat
  BY FS_CardinalityType
<1>2. \A i \in S : rank[i] \in 1 .. Cardinality(S)
  <2>. TAKE i \in S
  <2>1. IsFiniteSet(below(i)) /\ Cardinality(below(i)) <= Cardinality(S)
    BY FS_Subset
  <2>2. i \in below(i)
    OBVIOUS
  <2>3. rank[i] = Cardinality(below(i))
    OBVIOUS
  <2>. HIDE DEF below
  <2>4. below(i) # {} /\ Cardinality(below(i)) \in Nat /\ Cardinality(below(i)) # 0
    BY <2>1, <2>2, FS_CardinalityType, FS_EmptySet
  <2>. QED BY <1>1, <2>1, <2>3, <2>4
<1>3. \A i, j \in S : <<i, j>> \in R => rank[i] <= rank[j]
  <2>. SUFFICES ASSUME NEW i \in S, NEW j \in S, <<i, j>> \in R PROVE rank[i] <= rank[j]
    OBVIOUS
  <2>1. below(i) \subseteq below(j)
    OBVIOUS
  <2>2. IsFiniteSet(below(j))
    BY FS_Subset
  <2>3. Cardinality(below(i)) <= Cardinality(below(j))
    BY <2>1, <2>2, FS_Subset
  <2>. QED BY <2>3
<1>4. \A i, j \in S : <<i, j>> \in R /\ i # j => rank[i] < rank[j]
  <2>. SUFFICES ASSUME NEW i \in S, NEW j \in S, <<i, j>> \in R, i # j PROVE rank[i] < rank[j]
    OBVIOUS
  <2>1. below(i) \subseteq below(j) /\ j \in below(j) /\ j \notin below(i)
    OBVIOUS
  <2>2. IsFiniteSet(below(j))
    BY FS_Subset
  <2>3. Cardinality(below(i)) # Cardinality(below(j))
    BY <2>1, <2>2, FS_Subset
  <2>4. rank[i] = Cardinality(below(i)) /\ rank[j] = Cardinality(below(j))
    OBVIOUS
  <2>5. rank[i] <= rank[j] /\ rank[i] # rank[j]
    <3>. HIDE DEF below
    <3>. QED BY <1>3, <2>3, <2>4
  <2>6. rank[i] \in Nat /\ rank[j] \in Nat
    BY <1>1, <1>2
  <2>. HIDE DEF below
  <2>. QED BY <2>5, <2>6
<1>n. \A i \in S : rank[i] \in Nat
  BY <1>1, <1>2
<1>5. \A i, j \in S : rank[i] <= rank[j] => <<i, j>> \in R
  <2>. TAKE i, j \in S
  <2>. HAVE rank[i] <= rank[j]
  <2>1. CASE i = j
    BY <2>1
  <2>2. CASE i # j
    <3>0. rank[i] \in Nat /\ rank[j] \in Nat
      BY ONLY <1>n, i \in S, j \in S
    <3>2. ~ rank[j] < rank[i]
      BY ONLY <3>0, rank[i] <= rank[j]
    <3>1. ~ <<j, i>> \in R
      BY ONLY <1>4, <2>2, <3>2, i \in S, j \in S
    <3>. QED BY <3>1
  <2>. QED BY <2>1, <2>2
<1>6. rank \in Injection(S, 1 .. Cardinality(S))
  <2>1. rank \in [S -> 1 .. Cardinality(S)]
    BY <1>2
  <2>2. \A i, j \in S : rank[i] = rank[j] => i = j
    <3>. TAKE i, j \in S
    <3>. HAVE rank[i] = rank[j]
    <3>0. rank[i] \in Nat /\ rank[j] \in Nat
      BY ONLY <1>n, i \in S, j \in S
    <3>2. rank[i] <= rank[j] /\ rank[j] <= rank[i]
      BY ONLY <3>0, rank[i] = rank[j]
    <3>1. <<i, j>> \in R /\ <<j, i>> \in R
      BY ONLY <1>5, <3>2, i \in S, j \in S
    <3>. QED BY <3>1
  <2>. QED BY <2>1, <2>2 DEF Injection, IsInjective
<1>7. rank \in Surjection(S, 1 .. Cardinality(S))
  <2>1. IsFiniteSet(1 .. Cardinality(S)) /\ Cardinality(1 .. Cardinality(S)) = Cardinality(S)
    BY <1>1, FS_Interval
  <2>. QED BY <1>6, <2>1, FS_Injection
<1>. QED BY <1>3, <1>5, <1>6, <1>7 DEF Bijection

\* What is no earlier than a line no earlier than another is no earlier than that one.
LEMMA NoEarlierIsTransitive ==
    ASSUME NEW p \in Line, NEW q \in Line, NEW r \in Line, ~Earlier(p, q), ~Earlier(q, r)
    PROVE  ~Earlier(p, r)
BY DEF Earlier, Line

LEMMA NeverBothEarlier ==
    ASSUME NEW p \in Line, NEW q \in Line, Earlier(p, q)
    PROVE  ~Earlier(q, p)
BY DEF Earlier, Line

(***************************************************************************)
(* Sorting keeps every point once, and puts none after a later one.        *)
(***************************************************************************)
LEMMA SortedIsInOrder ==
    ASSUME NEW lines \in Seq(Line), NEW n, n = Cardinality(ValidLines(lines))
    PROVE  /\ n \in Nat
           /\ \E at \in Bijection(1 .. n, ValidLines(lines)) :
                 \A k \in 1 .. n : Sorted(lines)[k] = lines[at[k]]
           /\ Sorted(lines) \in Seq(Line) /\ Len(Sorted(lines)) = n
           /\ \A k, l \in 1 .. n : k <= l => ~Earlier(Sorted(lines)[l], Sorted(lines)[k])
<1>. DEFINE S == ValidLines(lines)
            R == {pair \in S \X S : Before(lines, pair[1], pair[2])}
            rank == [i \in S |-> Cardinality({j \in S : <<j, i>> \in R})]
            at == [k \in 1 .. n |-> CHOOSE i \in S : rank[i] = k]
<1>1. S \subseteq DOMAIN lines /\ DOMAIN lines = 1 .. Len(lines) /\ Len(lines) \in Nat
  BY DEF ValidLines
<1>2. IsFiniteSet(S) /\ n \in Nat
  <2>1. IsFiniteSet(1 .. Len(lines))
    BY <1>1, FS_Interval
  <2>2. IsFiniteSet(S)
    BY <1>1, <2>1, FS_Subset
  <2>. QED BY <2>2, FS_CardinalityType
<1>3. \A i \in S : i \in Nat /\ lines[i] \in Line
  BY <1>1
<1>4. \A i, j \in S : <<i, j>> \in R <=> Before(lines, i, j)
  OBVIOUS
<1>. HIDE DEF S, R
<1>5. /\ \A i \in S : <<i, i>> \in R
      /\ \A i, j \in S : <<i, j>> \in R \/ <<j, i>> \in R
      /\ \A i, j \in S : <<i, j>> \in R /\ <<j, i>> \in R => i = j
      /\ \A i, j, k \in S : <<i, j>> \in R /\ <<j, k>> \in R => <<i, k>> \in R
  <2>1. \A i, j \in S : <<i, j>> \in R <=>
           \/ lines[i].time < lines[j].time
           \/ lines[i].time = lines[j].time /\ lines[i].origin < lines[j].origin
           \/ lines[i].time = lines[j].time /\ lines[i].origin = lines[j].origin /\ i <= j
    <3>. TAKE i, j \in S
    <3>1. <<i, j>> \in R <=> Before(lines, i, j)
      BY <1>4
    <3>2. /\ i \in Nat /\ lines[i].time \in Int /\ lines[i].origin \in Int
          /\ j \in Nat /\ lines[j].time \in Int /\ lines[j].origin \in Int
      BY <1>3 DEF Line
    <3>. QED BY ONLY <3>1, <3>2 DEF Before, Earlier
  <2>2. \A i \in S : i \in Nat /\ lines[i].time \in Int /\ lines[i].origin \in Int
    BY <1>3 DEF Line
  <2>3. /\ \A i \in S : <<i, i>> \in R
        /\ \A i, j \in S : <<i, j>> \in R \/ <<j, i>> \in R
    <3>1. \A i \in S : <<i, i>> \in R
      BY ONLY <2>1, <2>2
    <3>2. ASSUME NEW i \in S, NEW j \in S PROVE <<i, j>> \in R \/ <<j, i>> \in R
      BY ONLY SMTT(30), <2>1, <2>2, i \in S, j \in S
    <3>. QED BY <3>1, <3>2
  <2>4. \A i, j \in S : <<i, j>> \in R /\ <<j, i>> \in R => i = j
    <3>1. ASSUME NEW i \in S, NEW j \in S, <<i, j>> \in R, <<j, i>> \in R PROVE i = j
      BY ONLY SMTT(30), <2>1, <2>2, <3>1, i \in S, j \in S
    <3>. QED BY <3>1
  <2>5. \A i, j, k \in S : <<i, j>> \in R /\ <<j, k>> \in R => <<i, k>> \in R
    <3>1. ASSUME NEW i \in S, NEW j \in S, NEW k \in S, <<i, j>> \in R, <<j, k>> \in R
          PROVE  <<i, k>> \in R
      <4>1. \/ lines[i].time < lines[j].time
            \/ lines[i].time = lines[j].time /\ lines[i].origin < lines[j].origin
            \/ lines[i].time = lines[j].time /\ lines[i].origin = lines[j].origin /\ i <= j
        BY ONLY <2>1, <3>1, i \in S, j \in S
      <4>2. \/ lines[j].time < lines[k].time
            \/ lines[j].time = lines[k].time /\ lines[j].origin < lines[k].origin
            \/ lines[j].time = lines[k].time /\ lines[j].origin = lines[k].origin /\ j <= k
        BY ONLY <2>1, <3>1, j \in S, k \in S
      <4>3. \/ lines[i].time < lines[k].time
            \/ lines[i].time = lines[k].time /\ lines[i].origin < lines[k].origin
            \/ lines[i].time = lines[k].time /\ lines[i].origin = lines[k].origin /\ i <= k
        BY ONLY <2>2, <4>1, <4>2, i \in S, j \in S, k \in S
      <4>. QED BY ONLY <2>1, <4>3, i \in S, k \in S
    <3>. QED BY <3>1
  <2>. QED BY <2>3, <2>4, <2>5
<1>6. /\ rank \in Bijection(S, 1 .. Cardinality(S))
      /\ \A i, j \in S : <<i, j>> \in R <=> rank[i] <= rank[j]
  BY <1>2, <1>5, RanksNumberAnOrder
<1>7. \A i \in S : rank[i] = LinePlace(lines, i)
  <2>. TAKE i \in S
  <2>1. {j \in S : <<j, i>> \in R} = {j \in ValidLines(lines) : Before(lines, j, i)}
    BY <1>4 DEF S
  <2>. QED BY <2>1 DEF LinePlace
<1>8. n = Cardinality(S)
  BY DEF S
<1>. HIDE DEF rank
<1>9. \A k \in 1 .. n : \E i \in S : rank[i] = k
  BY <1>6, <1>8 DEF Bijection, Surjection
<1>10. \A k \in 1 .. n : at[k] \in S /\ rank[at[k]] = k
  BY <1>9
<1>11. \A i, j \in S : rank[i] = rank[j] => i = j
  BY <1>6 DEF Bijection, Injection, IsInjective
<1>12. \A i \in S : rank[i] \in 1 .. n /\ at[rank[i]] = i
  BY <1>6, <1>8, <1>10, <1>11 DEF Bijection, Injection
<1>13. at \in Bijection(1 .. n, S)
  <2>1. at \in [1 .. n -> S]
    BY <1>10
  <2>2. \A k, l \in 1 .. n : at[k] = at[l] => k = l
    BY <1>10
  <2>3. \A i \in S : \E k \in 1 .. n : at[k] = i
    BY <1>12
  <2>. QED BY <2>1, <2>2, <2>3 DEF Bijection, Injection, Surjection, IsInjective
<1>14. Sorted(lines) = [k \in 1 .. n |-> lines[at[k]]]
  <2>1. \A k \in 1 .. n : (CHOOSE i \in S : LinePlace(lines, i) = k) = at[k]
    BY <1>7
  <2>2. Sorted(lines) = [k \in 1 .. n |-> lines[CHOOSE i \in S : LinePlace(lines, i) = k]]
    BY <1>8 DEF Sorted, S
  <2>. HIDE DEF at
  <2>. QED BY <2>1, <2>2
<1>15. \A k, l \in 1 .. n : k <= l => ~Earlier(lines[at[l]], lines[at[k]])
  <2>. SUFFICES ASSUME NEW k \in 1 .. n, NEW l \in 1 .. n, k <= l
                PROVE  ~Earlier(lines[at[l]], lines[at[k]])
    OBVIOUS
  <2>1. <<at[k], at[l]>> \in R
    BY <1>6, <1>10
  <2>2. at[k] \in S /\ at[l] \in S
    BY <1>10
  <2>. HIDE DEF at
  <2>. QED BY <1>3, <1>4, <2>1, <2>2, NeverBothEarlier DEF Before
<1>16. \A k \in 1 .. n : lines[at[k]] \in Line
  BY <1>3, <1>10
<1>. HIDE DEF at
<1>17. Sorted(lines) \in Seq(Line) /\ Len(Sorted(lines)) = n
  BY <1>2, <1>14, <1>16
<1>. QED BY <1>2, <1>13, <1>14, <1>15, <1>17 DEF S

\* What is sorted holds the points of the lines, and no line that is none.
LEMMA SortedKeepsThePoints ==
    ASSUME NEW lines \in Seq(Line)
    PROVE  /\ PointsOf(Sorted(lines)) = PointsOf(lines)
           /\ ValidLines(Sorted(lines)) = DOMAIN Sorted(lines)
<1>. DEFINE n == Cardinality(ValidLines(lines))
<1>1. PICK at \in Bijection(1 .. n, ValidLines(lines)) :
         \A k \in 1 .. n : Sorted(lines)[k] = lines[at[k]]
  BY SortedIsInOrder
<1>2. DOMAIN Sorted(lines) = 1 .. n
  BY DEF Sorted
<1>. HIDE DEF n
<1>3. \A k \in 1 .. n : at[k] \in ValidLines(lines)
  BY DEF Bijection, Injection
<1>4. \A i \in ValidLines(lines) : \E k \in 1 .. n : at[k] = i
  BY DEF Bijection, Surjection
<1>5. \A i \in ValidLines(lines) : lines[i] # BadLine
  BY DEF ValidLines
<1>6. ValidLines(Sorted(lines)) = DOMAIN Sorted(lines)
  BY <1>1, <1>2, <1>3, <1>5 DEF ValidLines
<1>. QED BY <1>1, <1>2, <1>3, <1>4, <1>6 DEF PointsOf

(***************************************************************************)
(* What an append of a point writes: the points it read and its own, in    *)
(* order, less the earliest of them beyond the limit.  A full file loses   *)
(* one point, and a point that was lost to a full file before stays        *)
(* earlier than what is kept.                                              *)
(***************************************************************************)
LEMMA AppendKeepsTheLatest ==
    ASSUME NEW lines \in Seq(Line), NEW point \in Line, point # BadLine,
           NEW written, written = Retain(Sorted(Append(Sorted(lines), point)))
    PROVE  /\ written \in Seq(Line) /\ Len(written) <= TrendLimit
           /\ ValidLines(written) = DOMAIN written
           /\ \A i \in 1 .. Len(written) - 1 : ~Earlier(written[i + 1], written[i])
           /\ PointsOf(written) \subseteq PointsOf(lines) \cup {point}
           /\ \A lost \in (PointsOf(lines) \cup {point}) \ PointsOf(written) :
                 /\ Len(written) = TrendLimit
                 /\ \A kept \in PointsOf(written) : ~Earlier(kept, lost)
           /\ \A lost \in Line :
                 /\ Len(lines) = TrendLimit /\ ValidLines(lines) = DOMAIN lines
                 /\ \A kept \in PointsOf(lines) : ~Earlier(kept, lost)
                 => /\ Len(written) = TrendLimit
                    /\ \A kept \in PointsOf(written) : ~Earlier(kept, lost)
<1>. DEFINE read == Sorted(lines)
            all == Append(read, point)
            m == Len(read) + 1
            sorted == Sorted(all)
            first == IF m > TrendLimit THEN m - TrendLimit + 1 ELSE 1
<1>1. /\ read \in Seq(Line) /\ Len(read) = Cardinality(ValidLines(lines))
      /\ PointsOf(read) = PointsOf(lines) /\ ValidLines(read) = DOMAIN read
  BY SortedIsInOrder, SortedKeepsThePoints
<1>. HIDE DEF read
<1>2. TrendLimit \in Nat \ {0} /\ Len(read) \in Nat /\ m \in Nat /\ first \in 1 .. m
  BY <1>1, TrendAssumption
<1>3. /\ all \in Seq(Line) /\ Len(all) = m /\ all[m] = point /\ DOMAIN all = 1 .. m
      /\ \A i \in 1 .. m : i # m => i \in DOMAIN read /\ all[i] = read[i]
  BY <1>1, <1>2
<1>4. ValidLines(all) = 1 .. m
  <2>1. \A i \in 1 .. m : all[i] # BadLine
    BY <1>1, <1>3 DEF ValidLines
  <2>. QED BY <1>3, <2>1 DEF ValidLines
<1>5. PointsOf(all) = PointsOf(lines) \cup {point}
  <2>1. PointsOf(all) = {all[i] : i \in 1 .. m}
    BY <1>4 DEF PointsOf
  <2>2. PointsOf(read) = {read[i] : i \in 1 .. Len(read)}
    BY <1>1 DEF PointsOf
  <2>. HIDE DEF all
  <2>3. \A i \in 1 .. Len(read) : i \in 1 .. m /\ i # m /\ all[i] = read[i]
    BY <1>2, <1>3
  <2>4. m \in 1 .. m /\ \A i \in 1 .. m : i = m \/ i \in 1 .. Len(read)
    BY <1>2
  <2>. HIDE DEF m
  <2>. QED BY <1>1, <1>3, <2>1, <2>2, <2>3, <2>4
<1>6. Cardinality(1 .. m) = m
  BY <1>2, FS_Interval
<1>. HIDE DEF all
<1>7. PICK at \in Bijection(1 .. m, 1 .. m) : \A k \in 1 .. m : sorted[k] = all[at[k]]
  BY <1>3, <1>4, <1>6, SortedIsInOrder
<1>8. /\ sorted \in Seq(Line) /\ Len(sorted) = m
      /\ \A k, l \in 1 .. m : k <= l => ~Earlier(sorted[l], sorted[k])
  BY <1>3, <1>4, <1>6, SortedIsInOrder
<1>9. /\ PointsOf(sorted) = PointsOf(lines) \cup {point} /\ ValidLines(sorted) = 1 .. m
  BY <1>3, <1>5, <1>8, SortedKeepsThePoints
<1>10. \A k \in 1 .. m : at[k] = m \/ sorted[k] \in PointsOf(lines)
  <2>. TAKE k \in 1 .. m
  <2>1. at[k] \in 1 .. m
    BY DEF Bijection, Injection
  <2>2. CASE at[k] # m
    BY <1>1, <1>3, <1>7, <2>1, <2>2 DEF PointsOf
  <2>. QED BY <2>2
<1>11. written = SubSeq(sorted, first, m)
  BY <1>8 DEF Retain, all, read
<1>. HIDE DEF sorted, m
<1>12. /\ written \in Seq(Line) /\ Len(written) = m - first + 1
       /\ \A i \in 1 .. Len(written) : /\ first + i - 1 \in first .. m
                                       /\ written[i] = sorted[first + i - 1]
  BY <1>2, <1>8, <1>11
<1>13. \A k \in first .. m : /\ k \in 1 .. m /\ k - first + 1 \in 1 .. Len(written)
                             /\ written[k - first + 1] = sorted[k]
  <2>. TAKE k \in first .. m
  <2>1. k \in 1 .. m /\ k - first + 1 \in 1 .. Len(written) /\ first + (k - first + 1) - 1 = k
    BY <1>2, <1>12
  <2>. QED BY <1>12, <2>1
<1>14. Len(written) <= TrendLimit /\ (first # 1 => Len(written) = TrendLimit)
  BY <1>2, <1>12
<1>. HIDE DEF first
<1>15. ValidLines(written) = 1 .. Len(written)
  <2>1. \A i \in 1 .. Len(written) : written[i] # BadLine
    BY <1>9, <1>12, <1>13 DEF ValidLines
  <2>. QED BY <1>12, <2>1 DEF ValidLines
<1>16. PointsOf(written) = {sorted[k] : k \in first .. m}
  <2>1. PointsOf(written) = {written[i] : i \in 1 .. Len(written)}
    BY <1>15 DEF PointsOf
  <2>2. \A i \in 1 .. Len(written) : \E k \in first .. m : written[i] = sorted[k]
    BY <1>12
  <2>3. \A k \in first .. m : \E i \in 1 .. Len(written) : written[i] = sorted[k]
    BY <1>13
  <2>4. PointsOf(written) \subseteq {sorted[k] : k \in first .. m}
    BY <2>1, <2>2
  <2>5. {sorted[k] : k \in first .. m} \subseteq PointsOf(written)
    BY <2>1, <2>3
  <2>. QED BY <2>4, <2>5
<1>17. \A i \in 1 .. Len(written) - 1 : ~Earlier(written[i + 1], written[i])
  <2>. TAKE i \in 1 .. Len(written) - 1
  <2>1. /\ i \in 1 .. Len(written) /\ i + 1 \in 1 .. Len(written)
        /\ first + i - 1 \in 1 .. m /\ first + (i + 1) - 1 \in 1 .. m
        /\ first + i - 1 <= first + (i + 1) - 1
    BY <1>2, <1>12, <1>13
  <2>. QED BY <1>8, <1>12, <2>1
<1>18. PointsOf(sorted) = {sorted[k] : k \in 1 .. m}
  BY <1>9 DEF PointsOf
<1>19. PointsOf(written) \subseteq PointsOf(lines) \cup {point}
  BY <1>9, <1>13, <1>16, <1>18
<1>20. ASSUME NEW lost \in (PointsOf(lines) \cup {point}) \ PointsOf(written)
       PROVE  Len(written) = TrendLimit /\ \A kept \in PointsOf(written) : ~Earlier(kept, lost)
  <2>1. PICK k \in 1 .. m : lost = sorted[k]
    BY <1>9, <1>18
  <2>2. k \notin first .. m
    BY <1>16, <2>1
  <2>3. k < first /\ first # 1
    BY <1>2, <2>1, <2>2
  <2>4. \A l \in first .. m : l \in 1 .. m /\ k <= l
    BY <1>2, <2>3
  <2>. QED BY <1>8, <1>14, <1>16, <2>1, <2>3, <2>4
<1>21. ASSUME NEW lost \in Line, Len(lines) = TrendLimit, ValidLines(lines) = DOMAIN lines,
              \A kept \in PointsOf(lines) : ~Earlier(kept, lost)
       PROVE  Len(written) = TrendLimit /\ \A kept \in PointsOf(written) : ~Earlier(kept, lost)
  <2>1. Len(read) = TrendLimit
    BY <1>1, <1>2, <1>21, FS_Interval
  <2>2. m = TrendLimit + 1 /\ first = 2 /\ 1 \in 1 .. m
    BY <1>2, <2>1 DEF first, m
  <2>3. \A k \in 1 .. m : sorted[k] \in Line
    BY <1>8
  <2>4. CASE sorted[1] \in PointsOf(lines)
    <3>1. \A k \in 2 .. m : ~Earlier(sorted[k], lost)
      BY <1>2, <1>8, <1>13, <1>21, <2>2, <2>3, <2>4, NoEarlierIsTransitive
    <3>. QED BY <1>14, <1>16, <2>2, <3>1
  <2>5. CASE at[1] = m
    <3>1. \A k \in 2 .. m : k \in 1 .. m /\ k # 1
      BY <1>2
    <3>2. \A k \in 2 .. m : at[k] # m
      BY <2>2, <2>5, <3>1 DEF Bijection, Injection, IsInjective
    <3>3. \A k \in 2 .. m : sorted[k] \in PointsOf(lines)
      BY <1>10, <3>1, <3>2
    <3>. QED BY <1>14, <1>16, <1>21, <2>2, <3>3
  <2>. QED BY <1>10, <2>2, <2>4, <2>5
<1>. QED BY <1>12, <1>14, <1>15, <1>17, <1>19, <1>20, <1>21

-----------------------------------------------------------------------------

TrendSpec == TrendInit /\ [][TrendNext]_trendVars

InTrendOrder(lines) == \A i \in 1 .. Len(lines) - 1 : ~Earlier(lines[i + 1], lines[i])

\* The file is full of points, none of them earlier than this one.
FullWithout(lines, lost) ==
    /\ Len(lines) = TrendLimit /\ ValidLines(lines) = DOMAIN lines
    /\ \A kept \in PointsOf(lines) : ~Earlier(kept, lost)

FileKeepsTheLatest ==
    /\ PointsOf(trend) \subseteq landed
    /\ \A lost \in landed \ (PointsOf(trend) \cup lapped) : FullWithout(trend, lost)
    /\ trend \notin EarlierFiles => Len(trend) <= TrendLimit /\ InTrendOrder(trend)

\* What an append is about to write keeps the latest of what it read, and its own point.
WriteKeepsTheLatest(append, known, overwritten) ==
    /\ append.had \subseteq known
    /\ PointsOf(append.points) \subseteq append.had \cup {append.point}
    /\ \A lost \in (append.had \cup {append.point}) \ (PointsOf(append.points) \cup overwritten) :
          FullWithout(append.points, lost)
    /\ Len(append.points) <= TrendLimit /\ InTrendOrder(append.points)

TrendTypeOK ==
    /\ trend \in Seq(Line) /\ trendClock \in Nat
    /\ landed \subseteq Line /\ IsFiniteSet(landed) /\ lapped \subseteq Line
    /\ appender \in [Writers -> [step : {"idle", "read", "replace"}, point : Line,
                                 points : Seq(Line), had : SUBSET Line]]
    /\ \A w \in Writers : appender[w].step # "idle" => appender[w].point # BadLine

TrendInv ==
    /\ TrendTypeOK
    /\ FileKeepsTheLatest
    /\ \A w \in Writers : appender[w].step = "replace" => WriteKeepsTheLatest(appender[w], landed, lapped)

LEMMA TrendInvHoldsAtFirst == TrendInit => TrendInv
<1>. SUFFICES ASSUME TrendInit PROVE TrendInv
  OBVIOUS
<1>1. trend \in Seq(Line) /\ landed = PointsOf(trend) /\ lapped = {} /\ trend \in EarlierFiles
  BY TrendAssumption DEF TrendInit
<1>2. landed \subseteq Line /\ IsFiniteSet(landed)
  <2>1. ValidLines(trend) \subseteq 1 .. Len(trend) /\ Len(trend) \in Nat
    BY <1>1 DEF ValidLines
  <2>2. IsFiniteSet(ValidLines(trend))
    <3>1. IsFiniteSet(1 .. Len(trend))
      BY <2>1, FS_Interval
    <3>. QED BY <2>1, <3>1, FS_Subset
  <2>3. [i \in ValidLines(trend) |-> trend[i]] \in Surjection(ValidLines(trend), PointsOf(trend))
    BY DEF Surjection, PointsOf
  <2>4. IsFiniteSet(PointsOf(trend))
    BY <2>2, <2>3, FS_Surjection
  <2>. QED BY <1>1, <2>1, <2>4 DEF PointsOf
<1>3. TrendTypeOK
  BY <1>1, <1>2 DEF TrendTypeOK, TrendInit, Idle, BadLine, Line
<1>4. FileKeepsTheLatest
  BY <1>1 DEF FileKeepsTheLatest
<1>. QED BY <1>3, <1>4 DEF TrendInv, TrendInit, Idle

LEMMA StepsKeepTrendInv == TrendInv /\ [TrendNext]_trendVars => TrendInv'
<1>. SUFFICES ASSUME TrendInv, [TrendNext]_trendVars PROVE TrendInv'
  OBVIOUS
<1>. USE DEF TrendInv
<1>1. CASE UNCHANGED trendVars
  BY <1>1 DEF trendVars, TrendTypeOK, FileKeepsTheLatest, WriteKeepsTheLatest
<1>2. CASE TrendTick
  BY <1>2, TrendAssumption DEF TrendTick, TrendTypeOK, FileKeepsTheLatest, WriteKeepsTheLatest
<1>3. ASSUME NEW w \in Writers, BuildPoint(w) PROVE TrendInv'
  <2>. DEFINE number == Cardinality(landed) + Cardinality({v \in Writers : appender[v].step # "idle"})
  <2>1. PICK origin \in Origins :
           appender' = [appender EXCEPT
              ![w] = [Idle EXCEPT !.step = "read",
                                  !.point = [time |-> trendClock, origin |-> origin, rest |-> number]]]
    BY <1>3 DEF BuildPoint
  <2>2. number \in Nat
    <3>1. IsFiniteSet({v \in Writers : appender[v].step # "idle"})
      BY TrendAssumption, FS_Subset
    <3>. QED BY <3>1, FS_CardinalityType DEF TrendTypeOK
  <2>. HIDE DEF number
  <2>3. [time |-> trendClock, origin |-> origin, rest |-> number] \in Line \ {BadLine}
    BY <2>2, TrendAssumption DEF TrendTypeOK, Line, BadLine
  <2>4. UNCHANGED <<trend, trendClock, landed, lapped>>
    BY <1>3 DEF BuildPoint
  <2>5. \A v \in Writers : v # w => appender'[v] = appender[v]
    BY <2>1
  <2>6. /\ appender'[w].step = "read"
        /\ appender'[w].point = [time |-> trendClock, origin |-> origin, rest |-> number]
    BY <2>1 DEF Idle, TrendTypeOK
  <2>7. TrendTypeOK'
    <3>1. BadLine \in Line
      BY DEF BadLine, Line
    <3>2. appender'[w] \in [step : {"idle", "read", "replace"}, point : Line,
                             points : Seq(Line), had : SUBSET Line]
      <4>. DEFINE point == [time |-> trendClock, origin |-> origin, rest |-> number]
      <4>1. appender'[w] = [step |-> "read", point |-> point, points |-> <<>>, had |-> {}]
        <5>1. appender'[w] = [Idle EXCEPT !.step = "read", !.point = point]
          BY <2>1 DEF TrendTypeOK
        <5>. HIDE DEF point
        <5>. QED BY <5>1 DEF Idle
      <4>2. point \in Line
        BY <2>3
      <4>. HIDE DEF point
      <4>. QED BY <4>1, <4>2
    <3>3. appender' = [appender EXCEPT ![w] = appender'[w]]
      BY <2>1 DEF TrendTypeOK
    <3>. QED BY <2>3, <2>4, <2>5, <2>6, <3>2, <3>3 DEF TrendTypeOK
  <2>. QED BY <2>4, <2>5, <2>6, <2>7 DEF FileKeepsTheLatest, WriteKeepsTheLatest
<1>4. ASSUME NEW w \in Writers, ReadTrend(w) PROVE TrendInv'
  <2>. DEFINE point == appender[w].point
              written == Retain(Sorted(Append(Sorted(trend), point)))
  <2>1. /\ appender' = [appender EXCEPT ![w].step = "replace", ![w].points = written,
                                        ![w].had = landed]
        /\ UNCHANGED <<trend, trendClock, landed, lapped>> /\ appender[w].step = "read"
    BY <1>4 DEF ReadTrend, ReadObservabilityTrendPoints
  <2>2. point \in Line /\ point # BadLine /\ trend \in Seq(Line)
    BY <2>1 DEF TrendTypeOK
  <2>3. /\ written \in Seq(Line) /\ Len(written) <= TrendLimit
        /\ ValidLines(written) = DOMAIN written
        /\ InTrendOrder(written)
        /\ PointsOf(written) \subseteq PointsOf(trend) \cup {point}
        /\ \A lost \in (PointsOf(trend) \cup {point}) \ PointsOf(written) : FullWithout(written, lost)
        /\ \A lost \in Line : FullWithout(trend, lost) => FullWithout(written, lost)
    <3>. HIDE DEF point
    <3>1. /\ \A lost \in (PointsOf(trend) \cup {point}) \ PointsOf(written) :
                 /\ Len(written) = TrendLimit
                 /\ \A kept \in PointsOf(written) : ~Earlier(kept, lost)
          /\ \A lost \in Line :
                 /\ Len(trend) = TrendLimit /\ ValidLines(trend) = DOMAIN trend
                 /\ \A kept \in PointsOf(trend) : ~Earlier(kept, lost)
                 => /\ Len(written) = TrendLimit
                    /\ \A kept \in PointsOf(written) : ~Earlier(kept, lost)
      BY <2>2, AppendKeepsTheLatest
    <3>2. /\ written \in Seq(Line) /\ Len(written) <= TrendLimit
          /\ ValidLines(written) = DOMAIN written
          /\ \A i \in 1 .. Len(written) - 1 : ~Earlier(written[i + 1], written[i])
          /\ PointsOf(written) \subseteq PointsOf(trend) \cup {point}
      BY <2>2, AppendKeepsTheLatest
    <3>. HIDE DEF written
    <3>. QED BY <3>1, <3>2 DEF FullWithout, InTrendOrder
  <2>. HIDE DEF written
  <2>4. \A v \in Writers : v # w => appender'[v] = appender[v]
    BY <2>1 DEF TrendTypeOK
  <2>5. appender'[w] = [step |-> "replace", point |-> point, points |-> written, had |-> landed]
    BY <2>1 DEF TrendTypeOK
  <2>6. TrendTypeOK'
    BY <2>1, <2>2, <2>3, <2>4, <2>5 DEF TrendTypeOK
  <2>. HIDE DEF point
  <2>7. WriteKeepsTheLatest(appender'[w], landed', lapped')
    <3>1. PointsOf(written) \subseteq landed \cup {point}
      BY <2>3 DEF FileKeepsTheLatest
    <3>2. \A lost \in (landed \cup {point}) \ (PointsOf(written) \cup lapped) :
             FullWithout(written, lost)
      BY <2>3 DEF FileKeepsTheLatest, TrendTypeOK
    <3>3. /\ appender'[w].points = written /\ appender'[w].had = landed
          /\ appender'[w].point = point
      BY <2>5
    <3>4. /\ landed \subseteq landed' /\ lapped' = lapped
          /\ Len(written) <= TrendLimit /\ InTrendOrder(written)
      BY <2>1, <2>3 DEF FileKeepsTheLatest
    <3>5. \A lost \in (landed \cup {point}) \ (PointsOf(written) \cup lapped') : FullWithout(written, lost)
      BY <3>2, <3>4
    <3>. QED BY <3>1, <3>3, <3>4, <3>5 DEF WriteKeepsTheLatest
  <2>. QED BY <2>1, <2>4, <2>6, <2>7 DEF FileKeepsTheLatest, WriteKeepsTheLatest
<1>5. ASSUME NEW w \in Writers, ReplaceFile(w) PROVE TrendInv'
  <2>1. /\ appender[w].step = "replace" /\ trend' = appender[w].points
        /\ landed' = landed \cup {appender[w].point}
        /\ lapped' = lapped \cup (landed \ appender[w].had)
        /\ appender' = [appender EXCEPT ![w] = Idle] /\ trendClock' = trendClock
    BY <1>5 DEF ReplaceFile
  <2>2. WriteKeepsTheLatest(appender[w], landed, lapped)
    BY <2>1
  <2>3. FileKeepsTheLatest'
    BY <2>1, <2>2 DEF FileKeepsTheLatest, WriteKeepsTheLatest
  <2>4. IsFiniteSet(landed')
    BY <2>1, FS_AddElement DEF TrendTypeOK
  <2>5. \A v \in Writers : appender'[v] = IF v = w THEN Idle ELSE appender[v]
    BY <2>1 DEF TrendTypeOK
  <2>6. TrendTypeOK'
    <3>1. Idle \in [step : {"idle", "read", "replace"}, point : Line, points : Seq(Line),
                    had : SUBSET Line] /\ Idle.step = "idle"
      BY DEF Idle, BadLine, Line
    <3>. QED BY <2>1, <2>4, <2>5, <3>1 DEF TrendTypeOK
  <2>7. \A v \in Writers : appender'[v].step = "replace" => WriteKeepsTheLatest(appender'[v], landed', lapped')
    <3>. TAKE v \in Writers
    <3>. HAVE appender'[v].step = "replace"
    <3>1. appender'[v] = appender[v]
      BY <2>5 DEF Idle
    <3>. QED BY <2>1, <3>1 DEF WriteKeepsTheLatest
  <2>. QED BY <2>3, <2>6, <2>7
<1>6. ASSUME NEW w \in Writers, FailAppend(w) PROVE TrendInv'
  <2>1. /\ UNCHANGED <<trend, trendClock, landed, lapped>>
        /\ appender' = [appender EXCEPT ![w] = Idle]
    BY <1>6 DEF FailAppend
  <2>2. \A v \in Writers : appender'[v] = IF v = w THEN Idle ELSE appender[v]
    BY <2>1 DEF TrendTypeOK
  <2>3. Idle \in [step : {"idle", "read", "replace"}, point : Line, points : Seq(Line),
                  had : SUBSET Line] /\ Idle.step = "idle"
    BY DEF Idle, BadLine, Line
  <2>4. TrendTypeOK'
    BY <2>1, <2>2, <2>3 DEF TrendTypeOK
  <2>. QED BY <2>1, <2>2, <2>3, <2>4 DEF FileKeepsTheLatest, WriteKeepsTheLatest
<1>. QED BY <1>1, <1>2, <1>3, <1>4, <1>5, <1>6 DEF TrendNext

(***************************************************************************)
(* A point that landed is lost only to an append that had read the file    *)
(* before it, or to a full file of points no earlier: for any scripts,     *)
(* files, limit and clock (appendObservabilityTrendPoint).                 *)
(***************************************************************************)
THEOREM TrendKeepsTheLatestAlways == TrendSpec => []TrendKeepsTheLatest
<1>1. TrendInv => TrendKeepsTheLatest
  BY DEF TrendInv, FileKeepsTheLatest, FullWithout, InTrendOrder, TrendKeepsTheLatest
<1>. QED BY <1>1, TrendInvHoldsAtFirst, StepsKeepTrendInv, PTL DEF TrendSpec
=============================================================================
