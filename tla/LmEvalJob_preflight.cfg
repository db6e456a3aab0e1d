\* As LmEvalJob_lm_eval, for what the preflight script concludes.
CONSTANTS
    t1 = t1
    t2 = t2
    t3 = t3
    Calls <- AllTasks
    Tasks <- TaskList
    ProfileTasks <- AllTasks
    CategoryOf <- Category
    Balanced <- BalancedCategories
    StopsOf <- OwnStop
    GenToks <- TaskLimit
    Plans <- OneBlock
    MinGenToks = 4
    MaxConcurrency = 2
    CallAttempts = 2
    BatchSize = 2
    Retries = 1
    BaseDelay = 4
    DelayCap = 3
    Dirs = {d1, d2}
    Needed = {d1}
SPECIFICATION Spec
INVARIANT
    PassedMeansAnswered
