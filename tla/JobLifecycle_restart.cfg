\* A Lemonade Bench job and a SWE Mini job with its judge; the application may
\* stop at any point and start again, benchmarks end by themselves.
CONSTANTS
    Jobs = {b1, s1}
    Callers = {c1}
    Shared = judge
    Models <- AllModels
    ModelOf <- OwnModel
    JudgeOf <- JudgeModel
    Swe = {s1}
    Bench = {b1}
    Batches <- OneProcess
    DefaultLimit = 1
    Limits = {}
    Restarts = TRUE
    Replies = {"ok"}
SPECIFICATION EndingSpec
INVARIANTS
    QueuedIsTracked
    SlotAccounting
PROPERTIES
    QueueDrains
    ImplementsQueue
