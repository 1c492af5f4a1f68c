--------------------------- MODULE CandidateRanking ---------------------------
(***************************************************************************)
(* How self-healing finds and ranks the locators to try after a failed     *)
(* action: the heuristic suggestions (suggestionEngine.ts), the seeds a    *)
(* DOM snapshot gives (domCandidateExtraction.ts), the registry's entries, *)
(* the history of a candidate (historyRepository.ts) and the merge of them *)
(* all into one ranking (candidateScoring.ts).                             *)
(*                                                                         *)
(* A text is one of Alphabet; what a failed target gives away (an id, a    *)
(* test id, a text, a class) is a field of it.  Signals are integers in    *)
(* millionths and scores in thousandths, rounded half up where the code    *)
(* calls toFixed(3).                                                       *)
(***************************************************************************)
EXTENDS Integers, Sequences, SequencesExt, FiniteSets

CONSTANTS
    Alphabet,     \* the texts, in the order of localeCompare
    Generic,      \* texts too common to be a candidate
    Unquotable,   \* texts with every kind of quote, which have no display string
    Hidden,       \* texts the snapshot redacted or that are too long
    Queries,      \* the failed actions that are analysed
    MaxEvents     \* bound on what is recorded of a candidate

VARIABLES
    history,      \* what is recorded of one candidate
    query,        \* the failed action analysed last
    ranking       \* its candidates, best first

rankingVars == <<history, query, ranking>>

None == ""
Kinds == <<"raw", "label", "role", "roleRegex", "testId", "text", "css">>

\* What a locator, an element of a snapshot, a failed target and a history consist of.
Phrase == Range(Alphabet) \cup {None}
StructuredLocator == [kind : Range(Kinds), value : Phrase, name : Phrase]
SnapshotElement == [testId : Phrase, test : Phrase, role : Phrase, name : Phrase, text : Phrase,
                    css : Phrase, labelled : BOOLEAN, visible : BOOLEAN]
FailedTarget == [text : STRING, locator : StructuredLocator, words : SUBSET STRING,
                 testId : Phrase, id : Phrase, shown : Phrase, class : Phrase]
CandidateHistory == [attempts : Nat, validated : Nat, guardedApplySucceeded : Nat,
                     guardedApplyFailed : Nat, promoted : Nat, rejected : Nat, rolledBack : Nat]

ASSUME RankingAssumption ==
    /\ Alphabet \in Seq(STRING) /\ {"button", "textbox", "status", "body"} \subseteq Range(Alphabet)
    /\ \A q \in Queries :
          /\ q.target \in FailedTarget /\ IsFiniteSet(q.target.words)
          /\ q.selectorId \in STRING /\ q.maxSuggestions \in Int /\ q.maxCandidates \in Int
          /\ q.elements \in Seq(SnapshotElement)
          /\ q.entries \in Seq([id : STRING, locator : StructuredLocator, confidence : Int])
          /\ \A id \in DOMAIN q.histories : q.histories[id] \in CandidateHistory

Position(seq, x) == CHOOSE i \in DOMAIN seq : seq[i] = x

\* A structured locator; `name` is None unless it is a role.
Locator(kind, value, name) == [kind |-> kind, value |-> value, name |-> name]

\* describeCandidateLocator: two locators have one display string only if they are
\* equal; some have none.
Describable(locator) == {locator.value, locator.name} \cap Unquotable = {}

\* localeCompare of display strings.
Order(text) == IF text = None THEN 0 ELSE Position(Alphabet, text)
Place(locator) ==
    LET base == Len(Alphabet) + 1
    IN  (Position(Kinds, locator.kind) * base + Order(locator.value)) * base + Order(locator.name)

-----------------------------------------------------------------------------
(* Scores *)

Million == 1000000
Clamp(n) == IF n < 0 THEN 0 ELSE IF n > Million THEN Million ELSE n
ToFixed(n) == (n + 500) \div 1000

\* scoringPolicy.ts, in hundredths.
Weight == [role |-> 28, name |-> 22, unique |-> 25, history |-> 15, similarity |-> 10]
BaseSignal == [original |-> 36, testId |-> 95, roleName |-> 78, ariaLabel |-> 72, text |-> 58,
               cssFallback |-> 42, fallback |-> 20]
Reliability == [testId |-> 95, roleName |-> 90, ariaLabel |-> 82, text |-> 58,
                cssFallback |-> 42, registry |-> 88]

\* tokenize: the words of a display string; those of a raw target are its own.
Words(locator, target) ==
    CASE locator.kind = "raw" -> target.words
      [] locator.kind \in {"role", "roleRegex"} /\ locator.name # None ->
             {"page", "role", locator.value, "name", locator.name}
      [] OTHER -> {"page", locator.kind, locator.value}

SimilaritySignal(locator, target) ==
    LET words == Words(locator, target) IN
    IF target.text = None THEN Million \div 2
    ELSE IF target.words = {} THEN 0
    ELSE (Cardinality(words \cap target.words) * Million)
            \div Cardinality(words \cup target.words)

Signals(role, name, unique, similarity) ==
    [role |-> IF role THEN Million ELSE 0, name |-> IF name THEN Million ELSE 0,
     unique |-> unique, history |-> Million \div 2, similarity |-> similarity]

ScoreSignals(s) ==
    ToFixed(Clamp((s.role * Weight.role + s.name * Weight.name + s.unique * Weight.unique
                   + s.history * Weight.history + s.similarity * Weight.similarity) \div 100))

LargerOf(m, n) == IF m > n THEN m ELSE n

\* Mutant of HistorySignal: even odds until the candidate was attempted.
HistorySignal_Bug(h) ==
    LET positive == h.validated + h.guardedApplySucceeded + h.promoted * 2
        negative == h.guardedApplyFailed + h.rejected * 2
        count    == positive + negative
        confidence == ((positive + 1) * Million) \div (count + 2)
        known    == LargerOf(h.attempts, count)
        weight   == IF known > 10 THEN 10 ELSE known
    IN
    IF h.attempts = 0 THEN Million \div 2
    ELSE Clamp(((10 - weight) * (Million \div 2) + weight * confidence) \div 10)

\* historySignal: confidence in the candidate, weighed by how much is known.
HistorySignal(h) ==
    LET positive == h.validated + h.guardedApplySucceeded + h.promoted * 2
        negative == h.guardedApplyFailed + h.rejected * 2
        count    == positive + negative
        confidence == ((positive + 1) * Million) \div (count + 2)
        known    == LargerOf(h.attempts, count)
        weight   == IF known > 10 THEN 10 ELSE known
    IN
    IF h.attempts = 0 /\ count = 0 THEN Million \div 2
    ELSE Clamp(((10 - weight) * (Million \div 2) + weight * confidence) \div 10)

Candidate(locator, strategy, score, selectorId) ==
    [locator |-> locator, strategy |-> strategy, score |-> score, selectorId |-> selectorId]

\* buildSelfHealingCandidateId, within one page object, action and target.
Id(candidate) == <<candidate.selectorId, candidate.strategy, candidate.locator>>

\* applyHistory: the history of this candidate replaces the even odds it was scored with.
ApplyHistory(candidate, histories) ==
    IF Id(candidate) \notin DOMAIN histories THEN candidate
    ELSE LET delta == ((HistorySignal(histories[Id(candidate)]) - Million \div 2)
                          * Weight.history) \div 100
         IN  [candidate EXCEPT !.score = ToFixed(Clamp(@ * 1000 + delta))]

-----------------------------------------------------------------------------
(* Suggestions from the failed target *)

GenericFallback(type) ==
    CASE type = "click" -> Locator("role", "button", None)
      [] type = "type"  -> Locator("role", "textbox", None)
      [] OTHER          -> Locator("css", "body", None)
RoleForAction(type) == CASE type = "type" -> "textbox" [] type = "read" -> "status" [] OTHER -> "button"

\* createSeeds, in order: what is given away is turned into locators, and the first
\* strategy to give a locator has it.
Seed(given, locator, strategy) ==
    IF given # None /\ Describable(locator) THEN <<[locator |-> locator, strategy |-> strategy]>>
    ELSE <<>>
KeepFirst(kept, seed) ==
    IF \E i \in DOMAIN kept : kept[i].locator = seed.locator THEN kept ELSE Append(kept, seed)
FirstOfEach(seeds) == FoldLeft(KeepFirst, <<>>, seeds)

CreateSeeds(type, t) ==
    FirstOfEach(
        (IF t.text = None THEN <<>> ELSE
            <<[locator |-> t.locator, strategy |-> "original"]>>
            \o Seed(t.testId, Locator("testId", t.testId, None), "testId")
            \o Seed(t.id, Locator("testId", t.id, None), "testId")
            \o Seed(t.id, Locator("roleRegex", RoleForAction(type), t.id), "roleName")
            \o Seed(t.id, Locator("label", t.id, None), "ariaLabel")
            \o Seed(t.shown, Locator("text", t.shown, None), "text")
            \o Seed(t.shown, Locator("roleRegex", RoleForAction(type), t.shown), "roleName")
            \o Seed(t.class, Locator("css", t.class, None), "cssFallback"))
        \o Seed("fallback", GenericFallback(type), "fallback"))

\* Best first, ties in the order of the display strings.
Better(c, d) == c.score > d.score \/ (c.score = d.score /\ Place(c.locator) < Place(d.locator))
BestFirst(candidates, max) ==
    LET rank(c) == 1 + Cardinality({d \in candidates : Better(d, c)})
        size == Cardinality(candidates)
    IN  [i \in 1 .. (IF size < max THEN size ELSE max) |-> CHOOSE c \in candidates : rank(c) = i]

\* generateRankedLocatorSuggestions.
Suggestions(type, target, selectorId, max) ==
    LET score(seed) == ScoreSignals(Signals(seed.strategy = "roleName",
                           seed.strategy \in {"roleName", "ariaLabel", "text"},
                           BaseSignal[seed.strategy] * 10000,
                           SimilaritySignal(seed.locator, target)))
        seeds == CreateSeeds(type, target)
    IN  BestFirst({Candidate(seeds[i].locator, seeds[i].strategy, score(seeds[i]), selectorId) :
                       i \in DOMAIN seeds}, max)

-----------------------------------------------------------------------------
(* Seeds from the DOM *)

\* normalizeText.
Normal(text) == IF text \in Hidden THEN None ELSE text

RoleCompatible(type, role) ==
    CASE type = "type"  -> role = "textbox"
      [] type = "read"  -> TRUE
      [] type = "click" -> role = "button"
      [] OTHER          -> type # "navigate"

\* The attribute locatorCountsBy counts an element under.
TestIdKey(e) == IF e.testId # None THEN <<"data-testid", e.testId>>
                ELSE IF e.test # None THEN <<"data-test", e.test>> ELSE <<None, None>>

\* Exactly one visible element, of those counted under the key.
One(alike) == Cardinality(alike) = 1

\* The seeds of the i-th visible element.
SeedsOf(type, elements, i) ==
    LET e    == elements[i]
        name == Normal(e.name)
        text == Normal(e.text)
        seed(given, locator, strategy, unique) ==
            IF given /\ Describable(locator)
            THEN <<[locator |-> locator, strategy |-> strategy, unique |-> unique,
                    role |-> e.role # None, named |-> name # None]>>
            ELSE <<>>
        sameTestId == {j \in DOMAIN elements : TestIdKey(elements[j]) = <<"data-testid", e.testId>>}
        sameTest   == {j \in DOMAIN elements : TestIdKey(elements[j]) = <<"data-test", e.test>>}
        sameName   == {j \in DOMAIN elements : elements[j].role = e.role /\ elements[j].name = name}
        sameText   == {j \in DOMAIN elements : elements[j].text = text}
        samePath   == {j \in DOMAIN elements : elements[j].css = e.css}
    IN
    seed(e.testId # None, Locator("testId", e.testId, None), "testId", One(sameTestId))
    \o seed(e.test # None, Locator("testId", e.test, None), "testId", One(sameTest))
    \o seed(e.role # None /\ name # None /\ RoleCompatible(type, e.role),
            Locator("role", e.role, name), "roleName", One(sameName))
    \o seed(name # None /\ e.labelled, Locator("label", name, None), "ariaLabel", TRUE)
    \o seed(text # None /\ type \in {"click", "read", "wait", "unknown"} /\ text \notin Generic,
            Locator("text", text, None), "text", One(sameText))
    \o seed(e.css # None, Locator("css", e.css, None), "cssFallback", One(samePath))

\* extractDomCandidateSeeds: of the visible elements, the first to give a locator has it.
KeepVisible(shown, e) == IF e.visible THEN Append(shown, e) ELSE shown
DomSeeds(type, all) ==
    LET elements == FoldLeft(KeepVisible, <<>>, all)
    IN  FirstOfEach(FlattenSeq([i \in DOMAIN elements |-> SeedsOf(type, elements, i)]))

-----------------------------------------------------------------------------
(* One ranking of all *)

\* scoreDomCandidate; the seeds are all of visible elements.
DomCandidate(seed, target, selectorId) ==
    LET unique == Reliability[seed.strategy] * 10000
        signals == Signals(seed.role \/ seed.strategy = "roleName", seed.named,
                           IF seed.unique THEN unique ELSE (unique * 55) \div 100,
                           SimilaritySignal(seed.locator, target))
    IN  Candidate(seed.locator, seed.strategy, ScoreSignals(signals), selectorId)

\* scoreRegistryCandidate: never below the confidence of the entry.
RegistryCandidate(entry, target, selectorId) ==
    LET signals == Signals(FALSE, FALSE, Reliability["registry"] * 10000,
                           SimilaritySignal(entry.locator, target))
    IN  Candidate(entry.locator, "registry",
                  LargerOf(ScoreSignals(signals), ToFixed(Clamp(entry.confidence))),
                  IF selectorId = None THEN entry.id ELSE selectorId)

\* Mutant of Admit: the last candidate of a locator has it.
Admit_Bug(table, candidate) ==
    {c \in table : c.locator # candidate.locator} \cup {candidate}

\* A candidate takes its locator from another if it scores more, or as much.
Admit(table, candidate) ==
    IF \E c \in table : c.locator = candidate.locator /\ c.score > candidate.score THEN table
    ELSE {c \in table : c.locator # candidate.locator} \cup {candidate}

\* All that is considered, in the order of the three loops.
Considered(q) ==
    LET heuristic == Suggestions(q.type, q.target, q.selectorId, q.maxSuggestions)
        dom == DomSeeds(q.type, q.elements)
        found == heuristic
                 \o [i \in DOMAIN dom |-> DomCandidate(dom[i], q.target, q.selectorId)]
                 \o [i \in DOMAIN q.entries |-> RegistryCandidate(q.entries[i], q.target, q.selectorId)]
    IN  [i \in DOMAIN found |-> ApplyHistory(found[i], q.histories)]

\* rankSelfHealingCandidates.
Rank(q) == BestFirst(FoldLeft(Admit, {}, Considered(q)), LargerOf(1, q.maxCandidates))

-----------------------------------------------------------------------------

NoHistory == [attempts |-> 0, validated |-> 0, guardedApplySucceeded |-> 0,
              guardedApplyFailed |-> 0, promoted |-> 0, rejected |-> 0, rolledBack |-> 0]
NoQuery == [type |-> "none"]

RankingInit == history = NoHistory /\ query = NoQuery /\ ranking = <<>>

Events(h) == h.attempts + h.promoted + h.rejected + h.rolledBack

\* recordObservation, of a candidate that was ranked: it may have been validated,
\* and if so applied with success or without.
RecordObservation(accepted, applied) ==
    /\ Events(history) < MaxEvents
    /\ applied # "no" => accepted
    /\ history' = [history EXCEPT !.attempts = @ + 1,
                       !.validated = @ + (IF accepted THEN 1 ELSE 0),
                       !.guardedApplySucceeded = @ + (IF applied = "succeeded" THEN 1 ELSE 0),
                       !.guardedApplyFailed = @ + (IF applied = "failed" THEN 1 ELSE 0)]
    /\ UNCHANGED <<query, ranking>>

\* recordOutcome, of the review of a promotion.
RecordOutcome(outcome) ==
    /\ Events(history) < MaxEvents
    /\ history' = [history EXCEPT ![outcome] = @ + 1]
    /\ UNCHANGED <<query, ranking>>

\* analyzeSelfHealingFailure with DOM capture and registry reads enabled.
Analyze ==
    /\ query = NoQuery
    /\ query' \in Queries
    /\ ranking' = Rank(query')
    /\ UNCHANGED history

HistoryNext ==
    \/ \E accepted \in BOOLEAN, applied \in {"no", "succeeded", "failed"} :
          RecordObservation(accepted, applied)
    \/ \E outcome \in {"promoted", "rejected", "rolledBack"} : RecordOutcome(outcome)

-----------------------------------------------------------------------------

\* Elements a Playwright locator of this candidate would match, as the snapshot
\* shows them.
Matched(locator, elements) ==
    {i \in DOMAIN elements :
        LET e == elements[i] IN
        /\ e.visible
        /\ CASE locator.kind = "testId" -> e.testId = locator.value
             [] locator.kind = "role"   -> e.role = locator.value /\ e.name = locator.name
             [] locator.kind = "text"   -> e.text = locator.value
             [] locator.kind = "css"    -> e.css = locator.value
             [] OTHER                   -> FALSE}

\* Labels are always said to be unique, and on pages that mix data-testid with
\* data-test the two are counted apart and looked up together.
UniquenessIsCounted(seed, elements) ==
    /\ seed.unique /\ seed.strategy # "ariaLabel"
    /\ seed.strategy = "testId" =>
           ~({"data-testid", "data-test"}
                 \subseteq {TestIdKey(elements[i])[1] : i \in DOMAIN elements})

(***************************************************************************)
(* The ranking rests on the best evidence.  Of all that was considered for *)
(* a locator only the best score counts, from whichever source and in      *)
(* whatever order it came (rankSelfHealingCandidates, lines 324-404), and  *)
(* no locator is missing that beats one ranked.  And a seed that scores as *)
(* unique in the snapshot matches no two visible elements                  *)
(* (locatorCountsBy).                                                      *)
(***************************************************************************)
RankingRestsOnEvidence ==
    query # NoQuery =>
        LET all == Range(Considered(query))
            best == {c \in all : \A d \in all : d.locator = c.locator => d.score <= c.score}
            scored == {[locator |-> c.locator, score |-> c.score] : c \in best}
            seeds == DomSeeds(query.type, query.elements)
        IN  /\ [i \in DOMAIN ranking |-> [locator |-> ranking[i].locator, score |-> ranking[i].score]]
                   = BestFirst(scored, LargerOf(1, query.maxCandidates))
            /\ \A i \in DOMAIN seeds :
                   UniquenessIsCounted(seeds[i], query.elements)
                       => Cardinality(Matched(seeds[i].locator, query.elements)) <= 1

(***************************************************************************)
(* What is recorded counts the way it should (historySignal), whatever was *)
(* recorded before: a promotion or a successful application never lowers   *)
(* the signal of a candidate, a rejection never raises it.                 *)
(***************************************************************************)
HistoryCountsTheRightWay ==
    [][ LET before == HistorySignal(history)
            after  == HistorySignal(history')
        IN  /\ history'.rejected > history.rejected => after <= before
            /\ \/ history'.promoted > history.promoted
               \/ history'.guardedApplySucceeded > history.guardedApplySucceeded
               => after >= before ]_rankingVars
=============================================================================
