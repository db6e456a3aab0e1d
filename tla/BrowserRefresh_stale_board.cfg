\* One job, a page nobody touches.
CONSTANTS
    Jobs = {j1}
    Readers = {r1, r2}
    Keys = {leaderboard}
    MaxEntries = 1
    Restarts = FALSE
    Clears = FALSE
    Presses = FALSE
SPECIFICATION PageSpec
SYMMETRY Symmetric
INVARIANTS
    BoardShowsFinished
