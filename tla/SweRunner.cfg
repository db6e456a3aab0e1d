\* Two tasks with up to two attempts each, on a host that keeps one model, judged
\* by another model.
CONSTANTS
    Candidate = candidate
    Judge = judge
    MaxLoaded = 1
    Modes = {"handoff"}
    NTasks = 2
    PassCount = 2
SPECIFICATION Spec
INVARIANTS
    TypeOK
    AgentIsProtected
    
    
    SummaryIsWhole
    
PROPERTIES
    JobEnds
