SPECIFICATION RepairSpec
CONSTANTS
    Client = {c1}
    Id = {a, b}
    Place = {p1, p2}
    p1 = p1
    p2 = p2
    NoId = NoId
    NoPlace = NoPlace
    InitialStores <- AnyStores
    UpsertPlaces <- InPlace
    HasCas = TRUE
    Blind = {a, b}
    Limit = 2
    RepairLimits = {1, 4}
    MaxVersion = 2
    MaxDeletes = 0
    MaxFaults = 1
SYMMETRY Interchangeable
INVARIANTS
    RepairRestores
PROPERTIES
    SettledDeletesOnlyStale
    UpgradeReplacesWhatWasRead
CHECK_DEADLOCK FALSE
