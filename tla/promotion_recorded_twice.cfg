SPECIFICATION Spec
CONSTANTS
    Reviewer = {r1, r2}
    Promotion = {p1}
    Selector = {s1}
    Locator = {l0, l1}
    s1 = s1
    l0 = l0
    l1 = l1
    NoLocator = NoLocator
    NoPromotion = NoPromotion
    SelectorOf <- OneSelector
    Proposed <- OneProposal
    InitialRecord <- SeededRecord
    DirectConfidence = {"seeded"}
    Mode = "local"
    Evidenced = {}
    BlindRetry = {"record"}
    MaxVersion = 3
    MaxDeletes = 0
    MaxFaults = 1
INVARIANT
    ClaimExclusive
CHECK_DEADLOCK FALSE
