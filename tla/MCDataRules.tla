------------------------------ MODULE MCDataRules ------------------------------
(***************************************************************************)
(* The parts of the system that share no state with one another, checked   *)
(* in one run: a behaviour belongs to one part, the one that takes its     *)
(* first step, and the other parts stay as they were.  With values of      *)
(* their constants for TLC.                                                *)
(***************************************************************************)
EXTENDS SelectorStore, RegistryCleanup, CandidateRanking, CandidateLocators, QualityReports,
        TrendHistory, LiveExportAssert, RuntimeSettings

VARIABLE part    \* the part this behaviour is about

Init ==
    /\ part = "none"
    /\ StoreInit /\ CleanupInit /\ RankingInit /\ LocatorInit /\ ReportInit /\ TrendInit
    /\ AssertInit /\ SettingsInit

In(name) == part \in {"none", name} /\ part' = name

-----------------------------------------------------------------------------
(* Selector stores *)

StoreFields == {"version", "status", "seen"}
Stored(version, status, seen) ==
    Object([f \in StoreFields |-> CASE f = "version" -> version [] f = "status" -> status
                                    [] f = "seen" -> seen])
StoreValues ==
    {Stored(Num(1), Text(0), Missing), Stored(Num(2), Missing, Num(1)),
     Stored(Text(2), Missing, Text(1)), Array, Empty}
Patch(defaults, increments, sets) ==
    [defaultValue |-> defaults, increments |-> increments, set |-> sets]
None0 == [f \in StoreFields |-> Missing]
StorePatches ==
    {Patch([None0 EXCEPT !["seen"] = Num(0), !["status"] = Text(0)], "seen" :> 1, None0),
     Patch(None0, "status" :> 1, [None0 EXCEPT !["version"] = Num(2)])}
StoreExpectations == {Text(0), Num(1)}
StoreVersions == {-1, 0, 1, 2}
StoreTtls == {-1, 0, 2}

(* Registry cleanup *)

CleanupSpace == ("h" :> "history") @@ ("a" :> "audit")
CleanupRecords ==
    {Record(1, Undefined, "no"), Record(Undefined, 0, "no"), Record(0, 0, "yes"),
     Record(NotADate, Undefined, "malformed"), Garbage, Record(Undefined, NotADate, "no")}

(* Candidates *)

RankingAlphabet == <<"#save", "body", "button", "card", "go", "menu", "odd", "save", "status",
                     "textbox", "token">>
Element(testId, test, role, name, text, css, labelled, visible) ==
    [testId |-> testId, test |-> test, role |-> role, name |-> name, text |-> text, css |-> css,
     labelled |-> labelled, visible |-> visible]
Elements ==
    {Element("save", "", "button", "save", "save", "card", FALSE, TRUE),
     Element("", "save", "button", "save", "go", "card", TRUE, TRUE),
     Element("go", "", "textbox", "odd", "menu", "", TRUE, TRUE),
     Element("save", "", "button", "save", "save", "card", FALSE, FALSE),
     Element("", "", "button", "token", "token", "", TRUE, TRUE)}
Target(text, l, words, testId, id, shown, class) ==
    [text |-> text, locator |-> l, words |-> words, testId |-> testId, id |-> id,
     shown |-> shown, class |-> class]
Targets ==
    {Target("", Locator("raw", "", ""), {}, "", "", "", ""),
     Target("#save", Locator("raw", "#save", ""), {"save"}, "", "save", "", ""),
     Target("page.getByTestId", Locator("testId", "save", ""), {"page", "testId", "save"},
            "save", "", "", ""),
     Target("text=go.card", Locator("raw", "go", ""), {"text", "go", "card"}, "", "", "go", "card")}
RegistryEntries ==
    {[id |-> "s1", locator |-> Locator("testId", "save", ""), confidence |-> 950000],
     [id |-> "s2", locator |-> Locator("css", "card", ""), confidence |-> 300000]}
Promising == [NoHistory EXCEPT !.attempts = 6, !.validated = 3, !.promoted = 1]
Refused   == [NoHistory EXCEPT !.attempts = 4, !.rejected = 2]
Histories ==
    {<<>>,
     (<<"", "testId", Locator("testId", "save", "")>> :> Promising)
        @@ (<<"s1", "registry", Locator("testId", "save", "")>> :> Refused),
     (<<"", "roleName", Locator("role", "button", "save")>> :> Refused)
        @@ (<<"", "cssFallback", Locator("css", "card", "")>> :> Promising)}
UpTo(n, set) == UNION {[1 .. m -> set] : m \in 0 .. n}
RankingQueries ==
    [selectorId : {""}, type : {"click", "type"}, target : Targets, elements : UpTo(2, Elements),
     entries : UpTo(2, RegistryEntries), histories : Histories, maxSuggestions : {5},
     maxCandidates : {0, 3}]

(* Display strings *)

Characters == {"x", Backslash, Template} \cup Quotes
LocatorTexts == UpTo(3, Characters) \ {<<>>}
FrameSelectors == {<<>>} \cup {<<t>> : t \in UpTo(2, Characters) \ {<<>>}}
                         \cup {<< <<"x">>, <<"backslash">> >>}

(* Reports *)

Case(project, file, results, quarantined) ==
    [project |-> project, file |-> file, results |-> results, quarantined |-> quarantined]
Steady == Case("chromium", <<"a", "b">>, <<"passed">>, FALSE)
CaseKinds ==
    {Steady,
     Case("chromium", <<"a">>, <<"passed">>, TRUE),
     Case("firefox", <<"a", "b">>, <<"failed", "timedOut", "passed">>, FALSE),
     Case("firefox", <<"c">>, <<"failed", "interrupted">>, TRUE),
     Case("chromium", <<"c">>, <<"failed", "skipped">>, FALSE),
     Case("firefox", <<"c">>, <<"strange">>, FALSE),
     Case("chromium", <<"a">>, <<>>, FALSE)}
\* None, or many steady cases with up to two others: one in fifty is on the target.
ReportInputs ==
    {[files |-> 0, count |-> [k \in CaseKinds |-> 0]]} \cup
    {[files |-> 1, count |-> [k \in CaseKinds |->
                                 IF k = Steady THEN many ELSE IF k \in {one, another} THEN 1 ELSE 0]] :
        many \in {0, 49, 97}, one \in CaseKinds, another \in CaseKinds}
ReportGovernances ==
    {NoGovernance, [attempted |-> 0, failed |-> 0], [attempted |-> 20, failed |-> 1],
     [attempted |-> 20, failed |-> 2]}
ReportTriagePolicies ==
    {[defaultOwner |-> "unassigned", owners |-> <<>>, threshold |-> 2],
     [defaultOwner |-> "qa", threshold |-> 3,
      owners |-> <<[prefix |-> <<"a">>, owner |-> "web"],
                   [prefix |-> <<"a", "b">>, owner |-> "core"]>>]}
Rule(metric, operator, threshold, block) ==
    [metric |-> metric, operator |-> operator, threshold |-> threshold, block |-> block]
ReportPolicies ==
    {SloAlertPolicy,
     <<Rule("passRate", "lte", 980, TRUE), Rule("flakeRate", "gte", 0, FALSE)>>,
     <<Rule("speed", "lt", 1, TRUE)>>}

(* Trend history *)

Point(time, origin, rest) == [time |-> time, origin |-> origin, rest |-> rest]
TrendFiles == {<<>>, <<BadLine, Point(0, 2, 0)>>, <<Point(2, 1, 1), Point(0, 1, 0)>>}

(* Live export assertion *)

AssertExpressions ==
    {[metrics |-> {"runs", "flaky"}, labels |-> {"suite"}, equals |-> "status" :> "failed"],
     [metrics |-> {"flaky"}, labels |-> {}, equals |-> <<>>],
     [metrics |-> {}, labels |-> {"elsewhere"}, equals |-> <<>>]}
AssertSeries ==
    {[metric |-> "runs", labels |-> ("status" :> "passed") @@ ("suite" :> "x")],
     [metric |-> "runs", labels |-> ("status" :> "failed")],
     [metric |-> "flaky", labels |-> ("project" :> "p")]}

(* Settings *)

Word(number, leading, entries) ==
    [number |-> number, leading |-> leading, entries |-> entries, service |-> {}, scheme |-> "",
     name |-> TRUE]
Name(text) == Word({}, {}, {text})
Numeral(n, text) == Word({100 * n}, {n}, {text})
SettingReadings ==
    ("" :> [Word({0}, {}, {""}) EXCEPT !.name = FALSE]) @@
    (" " :> [Word({0}, {}, {""}) EXCEPT !.name = FALSE]) @@
    ("1" :> Numeral(1, "1")) @@ ("51" :> Numeral(51, "51")) @@
    ("100" :> Numeral(100, "100")) @@ ("10001" :> Numeral(10001, "10001")) @@
    ("-1" :> [Numeral(-1, "-1") EXCEPT !.name = FALSE]) @@
    ("0.5" :> Word({50}, {0}, {"0.5"})) @@ ("20x" :> Word({}, {20}, {"20x"})) @@
    ("2e3" :> Word({200000}, {2}, {"2e3"})) @@
    ("off" :> Name("off")) @@ ("true" :> Name("true")) @@ ("y" :> Name("y")) @@
    ("guarded" :> Name("guarded")) @@ ("production" :> Name("production")) @@
    ("silent" :> Name("silent")) @@ ("click" :> Name("click")) @@
    ("click,fly" :> [Word({}, {}, {"click", "fly"}) EXCEPT !.name = FALSE]) @@
    ("fly," :> [Word({}, {}, {"fly", ""}) EXCEPT !.name = FALSE]) @@
    ("service.name=production" :> [Name("service.name=production") EXCEPT !.service = {"production"}, !.name = FALSE]) @@
    ("rediss://h" :> [Name("rediss://h") EXCEPT !.scheme = "rediss", !.name = FALSE]) @@
    ("http://h" :> [Name("http://h") EXCEPT !.scheme = "http", !.name = FALSE])
SettingTexts == DOMAIN SettingReadings

-----------------------------------------------------------------------------

Next ==
    \/ /\ In("stores") /\ StoreNext
       /\ UNCHANGED <<cleanupVars, rankingVars, locatorVars, reportVars, trendVars, assertVars, settingVars>>
    \/ /\ In("cleanup") /\ CleanupNext(CleanupRecords)
       /\ UNCHANGED <<storeVars, rankingVars, locatorVars, reportVars, trendVars, assertVars, settingVars>>
    \/ /\ In("ranking") /\ Analyze
       /\ UNCHANGED <<storeVars, cleanupVars, locatorVars, reportVars, trendVars, assertVars, settingVars>>
    \/ /\ In("history") /\ HistoryNext
       /\ UNCHANGED <<storeVars, cleanupVars, locatorVars, reportVars, trendVars, assertVars, settingVars>>
    \/ /\ In("locators") /\ LocatorNext
       /\ UNCHANGED <<storeVars, cleanupVars, rankingVars, reportVars, trendVars, assertVars, settingVars>>
    \/ /\ In("reports") /\ ReportNext
       /\ UNCHANGED <<storeVars, cleanupVars, rankingVars, locatorVars, trendVars, assertVars, settingVars>>
    \/ /\ In("trend") /\ TrendNext
       /\ UNCHANGED <<storeVars, cleanupVars, rankingVars, locatorVars, reportVars, assertVars, settingVars>>
    \/ /\ In("assertion") /\ AssertNext
       /\ UNCHANGED <<storeVars, cleanupVars, rankingVars, locatorVars, reportVars, trendVars,
                      settingVars>>
    \/ /\ In("settings") /\ SettingsNext
       /\ UNCHANGED <<storeVars, cleanupVars, rankingVars, locatorVars, reportVars, trendVars,
                      assertVars>>

Spec == Init /\ [][Next]_<<part, storeVars, cleanupVars, rankingVars, locatorVars, reportVars,
                           trendVars, assertVars, settingVars>>
=============================================================================
