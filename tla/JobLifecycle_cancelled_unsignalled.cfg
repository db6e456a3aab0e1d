\* One job, one request at a time: enough to cancel a job just as it starts.
CONSTANTS
    Jobs = {j1}
    Callers = {c1}
    Shared = judge
    Models <- AllModels
    ModelOf <- OwnModel
    JudgeOf <- NoJudge
    Swe = {}
    Bench = {}
    Batches <- OneProcess
    DefaultLimit = 1
    Limits = {}
    Restarts = FALSE
    Replies = {"ok"}
SPECIFICATION Spec
INVARIANTS
    CancelledIsSignalled
