\* Two tasks with one attempt each, judged by the candidate or without a pin.
CONSTANTS
    Candidate = candidate
    Judge = judge
    MaxLoaded = 1
    Modes = {"plain", "same"}
    NTasks = 2
    PassCount = 1
SPECIFICATION Spec
INVARIANTS
    RestartKeepsResults
