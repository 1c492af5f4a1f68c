SPECIFICATION Spec
CONSTANTS
    Client = {c1, c2}
    Id = {a, b}
    Place = {p1, p2}
    p1 = p1
    p2 = p2
    NoId = NoId
    NoPlace = NoPlace
    InitialStores <- AllStores
    UpsertPlaces <- Anywhere
    HasCas = TRUE
    Blind = {b}
    Limit = 2
    MaxVersion = 2
    MaxDeletes = 1
    MaxFaults = 1
SYMMETRY Interchangeable
INVARIANTS
    IndexFollowsRecords
    LookupFindsSteady
PROPERTIES
    
    VersionsAdvanceByOne
CHECK_DEADLOCK FALSE
