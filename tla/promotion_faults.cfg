SPECIFICATION FairSpec
CONSTANTS
    Reviewer = {r1, r2}
    Promotion = {p1}
    Selector = {s1}
    Locator = {l0, l1}
    s1 = s1
    l0 = l0
    l1 = l1
    NoLocator = NoLocator
    NoPromotion = NoPromotion
    SelectorOf <- OneSelector
    Proposed <- OneProposal
    InitialRecord <- SeededRecord
    DirectConfidence = {"seeded"}
    Mode = "local"
    Evidenced = {}
    BlindRetry = {"record", "upsert", "merge"}
    MaxVersion = 2
    MaxDeletes = 1
    MaxFaults = 1
INVARIANTS
    
    AppliedNamesItsWrite
    EffectsAreReal

    
CHECK_DEADLOCK FALSE
