--------------------------- MODULE BrowserRefresh ---------------------------
(***************************************************************************)
(* One open page of the browser application (static/app.js) in front of    *)
(* ResultsCache: the list of jobs it polls, the buttons that replace that  *)
(* list, and the leaderboard it loads again when it sees a job end.        *)
(*                                                                         *)
(* The requests for the leaderboard are those of ResultsCache, with all    *)
(* their steps at the server.  A request for the list of jobs reads the    *)
(* job files at one point; the model lets the page have the answer at that *)
(* point, since a list that arrives later is only shown later.             *)
(*                                                                         *)
(* The page was opened while there was no job, and nobody presses its      *)
(* refresh buttons.                                                        *)
(***************************************************************************)
EXTENDS ResultsCache

CONSTANT Presses  \* does anybody press the cancel and clear buttons?

ASSUME PressesAssumption == Presses \in BOOLEAN

VARIABLES
    jobs,      \* state.jobs, as stages of the job files
    watched,   \* history: the jobs the page has known as active
    poll,      \* the poll under way and the jobs known as active before it
    asked,     \* a leaderboard request is about to be sent
    fetching,  \* the request threads that serve this page's leaderboard
    board,     \* the leaderboard shown, or the failure to load it
    news       \* history: the jobs as last announced when it was shown

pageVars == <<jobs, watched, poll, asked, fetching, board, news>>
serverVars == <<diskVars, cacheVars, responses, reader>>

Ended == {"ended", "finished"}
NoJobs == NoSnapshot.shows
IdlePoll == [sent |-> FALSE, active |-> {}]

\* The types, and that one request for the leaderboard is under way at a time
\* (app.js:153-160): it is yet to be sent, or one request thread serves it.
PageTypeOK ==
    /\ jobs \in Files
    /\ watched \subseteq Jobs
    /\ poll \in [sent : BOOLEAN, active : SUBSET Jobs]
    /\ asked \in BOOLEAN
    /\ fetching \in {{}} \cup {{r} : r \in Readers}
    /\ asked => fetching = {}
    /\ board \in [shows : Files, failed : BOOLEAN]
    /\ news \in Files

PageInit ==
    /\ Init
    /\ jobs = NoJobs
    /\ watched = {}
    /\ poll = IdlePoll
    /\ asked = TRUE
    /\ fetching = {}
    /\ board = [shows |-> NoJobs, failed |-> FALSE]
    /\ news = NoJobs

-----------------------------------------------------------------------------
(***************************************************************************)
(* The leaderboard.                                                        *)
(***************************************************************************)

\* Mutant: a request of its own for every call.
LoadLeaderboard_EachTime == asked' = TRUE

\* singleFlight: a call joins the request under way, if there is one.
LoadLeaderboard == asked' = (asked \/ fetching = {})

FetchSend(r) ==
    /\ asked
    /\ Request(r)
    /\ asked' = FALSE
    /\ fetching' = fetching \cup {r}
    /\ UNCHANGED <<jobs, watched, poll, board, news>>

FetchDone(r) ==
    /\ r \in fetching
    /\ Finish(r)
    /\ fetching' = fetching \ {r}
    /\ board' = [shows |-> reader[r].shows, failed |-> FALSE]
    /\ news' = announced[generation]
    /\ UNCHANGED <<jobs, watched, poll, asked>>

\* An error answer; or no answer in time, with the server still at work.
FetchFails(r) ==
    /\ r \in fetching
    /\ BuildFails(r) \/ UNCHANGED serverVars
    /\ fetching' = fetching \ {r}
    /\ board' = [board EXCEPT !.failed = TRUE]
    /\ UNCHANGED <<jobs, watched, poll, asked, news>>

-----------------------------------------------------------------------------
(***************************************************************************)
(* The list of jobs.                                                       *)
(***************************************************************************)

Active(files) == {j \in Jobs : files[j] = "active"}

\* The list of jobs the server has replaces the one of the page.
ShowJobs ==
    /\ jobs' = record
    /\ watched' = watched \cup Active(record)

\* loadJobs notes which jobs the page knows as active before it asks.
PollSend ==
    /\ ~poll.sent
    /\ poll' = [sent |-> TRUE, active |-> Active(jobs)]
    /\ UNCHANGED <<serverVars, jobs, watched, asked, fetching, board, news>>

\* A job that was active then and is terminal now: load the results.
PollAnswered ==
    /\ poll.sent
    /\ ShowJobs
    /\ IF \E j \in poll.active : record[j] \in Ended
       THEN LoadLeaderboard ELSE UNCHANGED asked
    /\ poll' = IdlePoll
    /\ UNCHANGED <<serverVars, fetching, board, news>>

\* The error is counted and the next poll comes later.
PollFails ==
    /\ poll.sent
    /\ poll' = IdlePoll
    /\ UNCHANGED <<serverVars, jobs, watched, asked, fetching, board, news>>

\* The answer to the cancel and the clear buttons carries the list of jobs;
\* what they do at the server, the steps of the jobs do.  The cancel button
\* is for jobs that are active and does not look for jobs that ended; the
\* clear buttons load the results.
CancelAnswered ==
    /\ Presses
    /\ Active(jobs) # {}
    /\ ShowJobs
    /\ UNCHANGED <<serverVars, poll, asked, fetching, board, news>>

ClearAnswered ==
    /\ Presses
    /\ ShowJobs
    /\ LoadLeaderboard
    /\ UNCHANGED <<serverVars, poll, fetching, board, news>>

-----------------------------------------------------------------------------
\* The server goes on: jobs, other pages, and the requests of this one.
ServerStep ==
    /\ \/ \E j \in Jobs : JobStep(j)
       \/ \E r \in Readers \ fetching :
            Request(r) \/ ReaderStep(r) \/ BuildFails(r)
       \/ \E r \in fetching : reader[r].pc # "answered" /\ ReaderStep(r)
    /\ UNCHANGED pageVars

\* What was under way gets no answer.
ServerRestart ==
    /\ Restart
    /\ poll' = IdlePoll
    /\ fetching' = {}
    /\ board' = [board EXCEPT !.failed = @ \/ fetching # {}]
    /\ UNCHANGED <<jobs, watched, asked, news>>

PageNext ==
    \/ ServerStep
    \/ ServerRestart
    \/ \E r \in Readers : FetchSend(r) \/ FetchDone(r) \/ FetchFails(r)
    \/ PollSend
    \/ PollAnswered
    \/ PollFails
    \/ CancelAnswered
    \/ ClearAnswered

PageSpec == PageInit /\ [][PageNext]_<<vars, pageVars>>

-----------------------------------------------------------------------------
\* A board that replaces another shows everything that had been announced
\* when the other was shown, whichever snapshots and cached responses the
\* answers come from: one request at a time is what keeps them in order
\* (app.js:153-160, 387-397).  What was not announced may be lost again: one
\* generation can have two snapshots, the second built by a request that
\* waited, and the response made from the first may be cached last.
BoardKeepsUp ==
    [][\A r \in fetching : FetchDone(r) => NoOlder(board'.shows, news, reborn')]_
        <<vars, pageVars>>

\* README.md:141: leaderboard data is refreshed when jobs reach a terminal
\* state.  A page that has known a job as active and as finished, has nothing
\* under way and met no failure, shows the results of that job.
BoardShowsFinished ==
    \A j \in watched \ reborn :
        /\ jobs[j] = "finished" /\ record[j] = "finished"
        /\ worker[j] = "done" /\ clearing[j] = "no"
        /\ ~asked /\ fetching = {} /\ ~board.failed
        => board.shows[j] \in Ended
=============================================================================
