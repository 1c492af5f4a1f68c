SPECIFICATION RepairSpec
CONSTANTS
    Client = {c1}
    Id = {a}
    Place = {p1, p2}
    p1 = p1
    p2 = p2
    NoId = NoId
    NoPlace = NoPlace
    InitialStores <- ExactStores
    UpsertPlaces <- Anywhere
    HasCas = TRUE
    Blind = {}
    Limit = 2
    RepairLimits = {4}
    MaxVersion = 2
    MaxDeletes = 0
    MaxFaults = 0
PROPERTIES
    RepairDeletesOnlyStale
CHECK_DEADLOCK FALSE
