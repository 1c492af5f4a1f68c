SPECIFICATION Spec
CONSTANTS
    Fields <- StoreFields
    Values <- StoreValues
    Patches <- StorePatches
    Expectations <- StoreExpectations
    Versions <- StoreVersions
    Ttls <- StoreTtls
    MaxTime = 2
    MaxCount = 2
    RecordKeys = {"h", "a"}
    Space <- CleanupSpace
    Retention = 1
    Ttl = 1
    Limit = 3
    MaxNow = 2
    MaxScans = 2
    MaxFaults = 1
    MaxWrites = 2
    Alphabet <- RankingAlphabet
    Generic = {"menu"}
    Unquotable = {"odd"}
    Hidden = {"token"}
    Queries <- RankingQueries
    MaxEvents = 12
    Texts <- LocatorTexts
    Selectors <- FrameSelectors
    Inputs <- ReportInputs
    Governances <- ReportGovernances
    TriagePolicies <- ReportTriagePolicies
    Policies <- ReportPolicies
    Writers = {"w1", "w2"}
    Origins = {1, 2}
    EarlierFiles <- TrendFiles
    TrendLimit = 2
    MaxTrendTime = 1
    MaxAppends = 4
    CoreMetrics = {"runs"}
    Expressions <- AssertExpressions
    ExpectedAlerts = {"a1"}
    SeriesPool <- AssertSeries
    MaxAttempts = 2
    MaxRequestFaults = 1
    RawTexts <- SettingTexts
    ReadsAs <- SettingReadings
INVARIANTS
    StoresAgree
    
    
    DisplayStringsRoundTrip
    ReportsAgree
    TrendKeepsTheLatest
    
    
PROPERTY
    HistoryCountsTheRightWay
CHECK_DEADLOCK FALSE
