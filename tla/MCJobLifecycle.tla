--------------------------- MODULE MCJobLifecycle ---------------------------
\* Values for the constants of JobLifecycle.
EXTENDS JobLifecycle

CONSTANT Shared  \* the model that judges SWE Mini jobs

OwnModel    == [j \in Jobs |-> j]
JudgeModel  == [j \in Swe |-> Shared]
NoJudge     == [j \in {} |-> Shared]
AllModels   == Jobs \cup {Shared}

OneProcess == [j \in Jobs |-> 0]
TwoBatches == [j \in Jobs |-> 2]
=============================================================================
