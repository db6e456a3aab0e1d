\* Three tasks in two batches, one or two requests at a time that are tried
\* twice, one retry of the datasets, one directory that the job does not
\* need.
CONSTANTS
    t1 = t1
    t2 = t2
    t3 = t3
    Calls <- AllTasks
    Tasks <- TaskList
    ProfileTasks <- AllTasks
    CategoryOf <- Category
    Balanced <- BalancedCategories
    StopsOf <- OwnStop
    GenToks <- TaskLimit
    Plans <- OneBlock
    MinGenToks = 4
    MaxConcurrency = 2
    CallAttempts = 2
    BatchSize = 2
    Retries = 1
    BaseDelay = 4
    DelayCap = 3
    Dirs = {d1, d2}
    Needed = {d1}
SPECIFICATION Spec
INVARIANTS
    TypeOK
    
    
    PermitsBalanced
    OneEventPerResponse
PROPERTIES
    RepairKeepsData
    JobEnds
