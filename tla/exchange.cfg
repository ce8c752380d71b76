SPECIFICATION Spec
CONSTANTS
    MaxTime = 4
    ServerSkew = 2
    SourceLists <- Lists
    Primary = "pool"
    Fallbacks <- PublicServers
    HttpsSources <- WebServers
    WarnInterval = 3
    MaxTry = 1
    Interval = 1
    Granule = 2
    ClientSkew <- Behind
INVARIANTS TypeOK ClockAccuracy MeasurementSound EndToEnd LabelDescribesStamps
