\* Two runs at once beside an operator that enrolls and updates.
CONSTANTS
    Run = {r1, r2}
    Artifact = {a1}
    Version = {1, 2}
    Backend = {b1}
    Hash = {h1}
    Offered <- MCOffered
    Supported = {b1}
    Results <- MCResults
    None = None
SPECIFICATION FairSpec
INVARIANTS TypeOK RanAndMeasured DecisionFitsRun ReportedNotOlder ScanFindsTheTwoBest
PROPERTIES LaunchedWasTrusted EveryRunEnds
