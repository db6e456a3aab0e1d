\* One job, two requests at a time, room for one of two responses; builds may
\* fail, but not forever, and the application may stop at any point and start
\* again.
CONSTANTS
    Jobs = {j1}
    Readers = {r1, r2}
    Keys = {leaderboard, page}
    MaxEntries = 1
    Restarts = TRUE
    Clears = TRUE
SPECIFICATION RecoveringSpec
INVARIANTS
    TypeOK
    
    OneBuilder
PROPERTIES
    RequestsEnd
