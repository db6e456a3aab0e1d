\* Three connections for two workers, beside the thread that prewarms the
\* catalogue of one of two suites; one load may raise.
CONSTANTS
    Connections = {c1, c2, c3}
    MaxWorkers = 2
    Suites = {"lm_eval", "swe_mini"}
    Prewarm = prewarm
    Prewarmed = "lm_eval"
    LoadFailures = 1
SPECIFICATION Spec
INVARIANTS
    TypeOK
    
    ActiveIsExact
    NoRequestWaitsForAnother
    OneLoader
PROPERTIES
    LoadedOnce
    AcceptedEnds
CHECK_DEADLOCK FALSE
