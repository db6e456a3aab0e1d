\* One job, two request threads that serve the page and others; buttons are
\* pressed, requests fail, the application may stop and start again.
CONSTANTS
    Jobs = {j1}
    Readers = {r1, r2}
    Keys = {leaderboard}
    MaxEntries = 1
    Restarts = TRUE
    Clears = FALSE
    Presses = TRUE
SPECIFICATION PageSpec
SYMMETRY Symmetric
INVARIANTS
    PageTypeOK

    
