\* One lm-eval job in two task batches, two requests at a time that may both
\* cancel, clear or create; Lemonade may refuse to pin.
CONSTANTS
    Jobs = {j1}
    Callers = {c1, c2}
    Shared = judge
    Models <- AllModels
    ModelOf <- OwnModel
    JudgeOf <- NoJudge
    Swe = {}
    Bench = {}
    Batches <- TwoBatches
    DefaultLimit = 1
    Limits = {}
    Restarts = FALSE
    Replies = {"ok", "unsupported", "error"}
SPECIFICATION FairSpec
INVARIANTS
    TypeOK
    RunningIsOwned
    CancellingIsHeard
    
PROPERTIES
    SlotsGoToQueuedJobs
    CancelCompletes
