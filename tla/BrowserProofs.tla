---------------------------- MODULE BrowserProofs ----------------------------
(***************************************************************************)
(* One page in front of the results service.  Whatever the page does, its  *)
(* steps are steps of ResultsCache, so what is proved of that holds under  *)
(* it; and because its requests for the leaderboard follow one another,    *)
(* the freshness of each answer becomes an order of what the page shows.   *)
(***************************************************************************)
EXTENDS BrowserRefresh, ResultsProofs

-----------------------------------------------------------------------------
(***************************************************************************)
(* The page is a client of the service.                                    *)
(***************************************************************************)

\* The threads that serve this page are threads of the service.
FetchersAreReaders == fetching \subseteq Readers

\* A step of the page is a step of the service, or leaves it alone.
LEMMA PageStep ==
    ASSUME FetchersAreReaders, [PageNext]_<<vars, pageVars>>
    PROVE  [Next]_vars /\ FetchersAreReaders'
<1>0. FetchersAreReaders'
    BY DEF FetchersAreReaders, PageNext, ServerStep, ServerRestart, FetchSend,
           FetchDone, FetchFails, PollSend, PollAnswered, PollFails,
           CancelAnswered, ClearAnswered, pageVars
<1> SUFFICES [Next]_vars
    BY <1>0
<1>1. CASE ServerStep
    <2>1. CASE \E j \in Jobs : JobStep(j)
        BY <2>1 DEF Next
    <2>2. CASE \E r \in Readers : Request(r) \/ ReaderStep(r) \/ BuildFails(r)
        BY <2>2 DEF Next
    <2>3. QED
        BY <1>1, <2>1, <2>2 DEF ServerStep, FetchersAreReaders
<1>2. CASE ServerRestart
    BY <1>2 DEF ServerRestart, Next
<1>3. ASSUME NEW r \in Readers, FetchSend(r) \/ FetchDone(r) \/ FetchFails(r)
      PROVE  [Next]_vars
    BY <1>3 DEF FetchSend, FetchDone, FetchFails, ReaderStep, Next, vars,
                serverVars
<1>4. CASE PollSend \/ PollAnswered \/ PollFails \/ CancelAnswered
              \/ ClearAnswered
    BY <1>4 DEF PollSend, PollAnswered, PollFails, CancelAnswered,
                ClearAnswered, vars, serverVars
<1>5. CASE UNCHANGED <<vars, pageVars>>
    BY <1>5
<1>6. QED
    BY <1>1, <1>2, <1>3, <1>4, <1>5 DEF PageNext

\* Every behaviour of the service behind a page is a behaviour of the service
\* (app.js uses it by its requests only), so TypeOK, AnswerIsFresh and
\* OneBuilder hold behind a page as well.
THEOREM PageIsAClient == PageSpec => Spec
<1>1. PageInit => Init /\ FetchersAreReaders
    BY DEF PageInit, FetchersAreReaders
<1>2. FetchersAreReaders /\ [PageNext]_<<vars, pageVars>>
          => [Next]_vars /\ FetchersAreReaders'
    BY PageStep
<1>3. QED
    BY <1>1, <1>2, PTL DEF PageSpec, Spec

-----------------------------------------------------------------------------
(***************************************************************************)
(* The types, and that one request is under way at a time.                 *)
(***************************************************************************)

LEMMA PageInitTypes == PageInit => PageTypeOK
<1>1. NoJobs \in Files
    BY Values DEF NoJobs, Snapshot
<1>2. QED
    BY <1>1 DEF PageInit, PageTypeOK, IdlePoll

LEMMA PageNextTypes ==
    ASSUME TypeOK, PageTypeOK, [PageNext]_<<vars, pageVars>>
    PROVE  PageTypeOK'
<1>1. /\ record \in Files
      /\ \A r \in Readers : reader[r].shows \in Files
      /\ announced[generation] \in Files
      /\ Active(record) \subseteq Jobs /\ Active(jobs) \subseteq Jobs
    BY FilesTypes DEF Active, TypeOK
<1>2. CASE ServerStep \/ UNCHANGED <<vars, pageVars>>
    BY <1>2 DEF ServerStep, pageVars, PageTypeOK
<1>3. CASE ServerRestart
    BY <1>3 DEF ServerRestart, PageTypeOK, IdlePoll
<1>4. ASSUME NEW r \in Readers, FetchSend(r)
      PROVE  PageTypeOK'
    <2>1. fetching' = {r}
        BY <1>4 DEF FetchSend, PageTypeOK
    <2>2. fetching' \in {{}} \cup {{q} : q \in Readers}
        BY <2>1
    <2>3. QED
        BY <1>4, <2>2 DEF FetchSend, PageTypeOK
<1>5. ASSUME NEW r \in Readers, FetchDone(r) \/ FetchFails(r)
      PROVE  PageTypeOK'
    <2>1. fetching' = {}
        <3>1. PICK q \in Readers : fetching = {q}
            BY <1>5 DEF FetchDone, FetchFails, PageTypeOK
        <3>2. QED
            BY <1>5, <3>1 DEF FetchDone, FetchFails
    <2>2. CASE FetchDone(r)
        BY <1>1, <2>1, <2>2 DEF FetchDone, PageTypeOK
    <2>3. CASE FetchFails(r)
        <3>1. [board EXCEPT !.failed = TRUE] \in [shows : Files, failed : BOOLEAN]
            BY DEF PageTypeOK
        <3>2. QED
            BY <2>1, <2>3, <3>1 DEF FetchFails, PageTypeOK
    <2>4. QED
        BY <1>5, <2>2, <2>3
<1>6. CASE PollSend \/ PollFails
    <2>1. poll' \in [sent : BOOLEAN, active : SUBSET Jobs]
        <3>1. IdlePoll \in [sent : BOOLEAN, active : SUBSET Jobs]
            BY DEF IdlePoll
        <3>2. [sent |-> TRUE, active |-> Active(jobs)]
                  \in [sent : BOOLEAN, active : SUBSET Jobs]
            BY <1>1
        <3>3. QED
            BY <1>6, <3>1, <3>2 DEF PollSend, PollFails
    <2>2. QED
        BY <1>6, <2>1 DEF PollSend, PollFails, PageTypeOK
<1>7. CASE PollAnswered \/ CancelAnswered \/ ClearAnswered
    <2>1. jobs' \in Files /\ watched' \subseteq Jobs
        BY <1>1, <1>7 DEF PollAnswered, CancelAnswered, ClearAnswered,
                          ShowJobs, PageTypeOK
    <2>2. poll' \in [sent : BOOLEAN, active : SUBSET Jobs]
        <3>1. IdlePoll \in [sent : BOOLEAN, active : SUBSET Jobs]
            BY DEF IdlePoll
        <3>2. poll' \in {poll, IdlePoll}
            BY <1>7 DEF PollAnswered, CancelAnswered, ClearAnswered
        <3>3. QED
            BY <3>1, <3>2 DEF PageTypeOK
    <2>3. asked' \in BOOLEAN /\ (asked' => fetching = {})
        <3>1. asked' \in {asked, asked \/ fetching = {}}
            BY <1>7 DEF PollAnswered, CancelAnswered, ClearAnswered,
                        LoadLeaderboard
        <3>2. asked \in BOOLEAN /\ (asked => fetching = {})
            BY DEF PageTypeOK
        <3>3. QED
            BY <3>1, <3>2
    <2>4. QED
        BY <1>7, <2>1, <2>2, <2>3
        DEF PollAnswered, CancelAnswered, ClearAnswered, PageTypeOK
<1>8. QED
    BY <1>2, <1>3, <1>4, <1>5, <1>6, <1>7 DEF PageNext

\* The variables of a page keep their types, and its request for the
\* leaderboard is the only one: singleFlight (app.js:153-160) holds against
\* polls, buttons, errors, requests given up and restarts of the server.
THEOREM PageTypeCorrect == PageSpec => []PageTypeOK
<1>1. TypeOK /\ PageTypeOK /\ [PageNext]_<<vars, pageVars>> => PageTypeOK'
    BY PageNextTypes
<1>2. QED
    BY <1>1, PageInitTypes, PageIsAClient, ResultsTypeCorrect, PTL DEF PageSpec

-----------------------------------------------------------------------------
(***************************************************************************)
(* The order of what the page shows.                                       *)
(***************************************************************************)

\* What had been announced when the board was shown is announced still.
NewsIsAnnounced == NoOlder(announced[generation], news, reborn)

\* The request under way came later than that.
FetchIsLater ==
    \A r \in fetching :
        /\ reader[r].pc # "idle"
        /\ NoOlder(announced[reader[r].since], news, reborn)

PageInv == FreshInv /\ PageTypeOK /\ NewsIsAnnounced /\ FetchIsLater

LEMMA PageInvFetchers == PageInv => FetchersAreReaders
BY DEF PageInv, PageTypeOK, FetchersAreReaders

\* A step of the service announces nothing older.
LEMMA AnnouncedGrows ==
    ASSUME FreshInv, [Next]_vars
    PROVE  /\ reborn \subseteq reborn'
           /\ NoOlder(announced'[generation'], announced[generation], reborn')
<1>0. /\ announced[generation] \in Files
      /\ record \in Files
      /\ generation \in Nat \ {0}
      /\ announced'[generation'] \in Files
    BY FilesTypes, NextFresh DEF FreshInv, TypeOK
<1>1. ASSUME UNCHANGED <<announced, generation>>, reborn \subseteq reborn'
      PROVE  NoOlder(announced'[generation'], announced[generation], reborn')
    BY <1>0, <1>1, NoOlderOrders
<1>2. ASSUME NEW j \in Jobs, JobStep(j)
      PROVE  /\ reborn \subseteq reborn'
             /\ NoOlder(announced'[generation'], announced[generation], reborn')
    <2>1. reborn \subseteq reborn'
        BY <1>2, JobFiles
    <2>2. CASE Invalidate /\ reborn' = reborn
        BY <1>0, <2>2 DEF Invalidate, FreshInv, DiskIsNew, AsNewAs
    <2>3. CASE UNCHANGED cacheVars
        BY <1>1, <2>1, <2>3 DEF cacheVars
    <2>4. QED
        BY <1>2, <2>1, <2>2, <2>3
        DEF JobStep, CreateJob, DropJob, WriteReleasing, WriteReleased,
            WriteFinished, WriteSummary, AnnounceFinished, ClearCheck,
            ClearRemove, ClearAnnounce
<1>3. ASSUME NEW r \in Readers, Request(r) \/ ReaderStep(r) \/ BuildFails(r)
      PROVE  UNCHANGED <<announced, generation, reborn>>
    BY <1>3 DEF Request, BuildFails, ReaderStep, Enter, Wake, ReadJobs,
                Summarize, Publish, Respond, Finish, diskVars, cacheVars
<1>4. CASE Restart
    <2>1. record' \in Files /\ generation' \in Nat \ {0} /\ reborn' = reborn
        BY <1>4, RestartTypes DEF FreshInv, TypeOK, Restart
    <2>2. announced'[generation'] = record'
        BY <1>4, <2>1 DEF Restart
    <2>3. NoOlder(record', record, reborn)
        BY <1>0, <1>4 DEF Restart, NoOlder, Files, Stage, Rank
    <2>4. NoOlder(record, announced[generation], reborn)
        BY DEF FreshInv, DiskIsNew, AsNewAs
    <2>5. QED
        BY <1>0, <2>1, <2>2, <2>3, <2>4, NoOlderOrders
<1>5. QED
    BY <1>1, <1>2, <1>3, <1>4 DEF Next, vars, cacheVars, diskVars

\* A request that is under way stays so, and began when it began.
LEMMA BeginningStays ==
    ASSUME FreshInv, NEW r \in Readers, reader[r].pc # "idle",
           \/ \E j \in Jobs : JobStep(j)
           \/ \E q \in Readers \ {r} :
                 Request(q) \/ ReaderStep(q) \/ BuildFails(q)
           \/ reader[r].pc # "answered" /\ ReaderStep(r)
    PROVE  /\ reader'[r].pc # "idle"
           /\ reader'[r].since = reader[r].since
           /\ announced'[reader[r].since] = announced[reader[r].since]
<1>1. /\ reader \in [Readers -> Reader]
      /\ reader[r] \in Reader
      /\ generation \in Nat \ {0}
      /\ reader[r].since \in 1..generation
    BY DEF FreshInv, TypeOK, ReadersAreNew, ReaderIsNew
<1>2. /\ Notified[r].pc # "idle"
      /\ Notified[r].since = reader[r].since
    BY <1>1 DEF Notified, Reader
<1>3. CASE \E j \in Jobs : JobStep(j)
    <2>1. \/ UNCHANGED <<reader, announced>>
          \/ Invalidate
        BY <1>3
        DEF JobStep, CreateJob, DropJob, WriteReleasing, WriteReleased,
            WriteFinished, WriteSummary, AnnounceFinished, ClearCheck,
            ClearRemove, ClearAnnounce, cacheVars
    <2>2. QED
        BY <1>1, <1>2, <2>1 DEF Invalidate
<1>4. ASSUME NEW q \in Readers \ {r},
             Request(q) \/ ReaderStep(q) \/ BuildFails(q)
      PROVE  announced' = announced /\ reader'[r] \in {reader[r], Notified[r]}
    <2>1. announced' = announced
        BY <1>4 DEF Request, BuildFails, ReaderStep, Enter, Wake, ReadJobs,
                    Summarize, Publish, Respond, Finish, cacheVars
    <2>2. ASSUME Request(q) \/ Finish(q)
          PROVE  reader'[r] = reader[r]
        BY <1>1, <2>2 DEF Request, Finish
    <2>3. CASE BuildFails(q)
        BY <1>1, <2>3 DEF BuildFails, Notified
    <2>4. ASSUME ReadJobs(q)
          PROVE  reader'[r] = reader[r]
        BY <1>1, <2>4 DEF ReadJobs
    <2>5. CASE Enter(q) \/ Wake(q)
        BY <1>1, <2>5 DEF Enter, Wake, Answer, BuildOrWait
    <2>6. ASSUME NEW j \in Jobs, Summarize(q, j)
          PROVE  reader'[r] = reader[r]
        BY <1>1, <2>6 DEF Summarize
    <2>7. CASE Publish(q)
        BY <1>1, <2>7 DEF Publish, Notified
    <2>8. ASSUME NEW key \in Keys, Respond(q, key)
          PROVE  reader'[r] = reader[r]
        BY <1>1, <2>8 DEF Respond
    <2>9. QED
        BY <1>4, <2>1, <2>2, <2>3, <2>4, <2>5, <2>6, <2>7, <2>8 DEF ReaderStep
<1>5. ASSUME reader[r].pc # "answered", ReaderStep(r)
      PROVE  /\ announced' = announced
             /\ reader'[r].pc # "idle"
             /\ reader'[r].since = reader[r].since
    <2>1. CASE Enter(r) \/ Wake(r)
        BY <1>1, <2>1 DEF Enter, Wake, Answer, BuildOrWait, Reader
    <2>2. CASE ReadJobs(r)
        BY <1>1, <2>2 DEF ReadJobs, Reader, cacheVars
    <2>3. ASSUME NEW j \in Jobs, Summarize(r, j)
          PROVE  /\ announced' = announced
                 /\ reader'[r].pc # "idle"
                 /\ reader'[r].since = reader[r].since
        BY <1>1, <2>3 DEF Summarize, Reader, cacheVars
    <2>4. CASE Publish(r) /\ reader[r].generation = generation
        BY <1>1, <1>2, NotifiedTypes, <2>4 DEF Publish, Reader, FreshInv
    <2>5. CASE Publish(r) /\ reader[r].generation # generation
        BY <1>1, NotifiedTypes, <2>5 DEF Publish, IdleReader, FreshInv
    <2>6. ASSUME NEW key \in Keys, Respond(r, key)
          PROVE  /\ announced' = announced
                 /\ reader'[r].pc # "idle"
                 /\ reader'[r].since = reader[r].since
        BY <1>1, <2>6 DEF Respond, Reader, cacheVars
    <2>7. QED
        BY <1>5, <2>1, <2>2, <2>3, <2>4, <2>5, <2>6 DEF ReaderStep, Finish
<1>6. QED
    BY <1>2, <1>3, <1>4, <1>5

\* What the page goes by stays true while it shows the same board.
LEMMA NewsStays ==
    ASSUME PageInv, [PageNext]_<<vars, pageVars>>, news' = news
    PROVE  /\ NewsIsAnnounced'
           /\ \A r \in fetching :
                 /\ reader'[r].pc # "idle"
                 /\ reader'[r].since = reader[r].since
                 /\ announced'[reader[r].since] = announced[reader[r].since]
                 => NoOlder(announced'[reader'[r].since], news, reborn')
<1>1. /\ reborn \subseteq reborn'
      /\ NoOlder(announced'[generation'], announced[generation], reborn')
    BY PageInvFetchers, PageStep, AnnouncedGrows DEF PageInv
<1>2. /\ news \in Files
      /\ announced[generation] \in Files
      /\ announced'[generation'] \in Files
    <2>1. TypeOK /\ TypeOK'
        BY PageInvFetchers, PageStep, NextFresh DEF PageInv, FreshInv
    <2>2. /\ generation \in 1..generation
          /\ generation' \in 1..generation'
        BY <2>1 DEF TypeOK
    <2>3. QED
        BY <2>1, <2>2 DEF TypeOK, PageInv, PageTypeOK
<1>3. NoOlder(announced[generation], news, reborn')
    BY <1>1, <1>2, NoOlderOrders DEF PageInv, NewsIsAnnounced
<1>4. ASSUME NEW r \in fetching
      PROVE  NoOlder(announced[reader[r].since], news, reborn')
    <2>1. r \in Readers /\ reader[r].since \in 1..generation
        BY DEF PageInv, PageTypeOK, FetchIsLater, FreshInv, ReadersAreNew,
               ReaderIsNew
    <2>2. announced[reader[r].since] \in Files
        BY <2>1, FilesTypes DEF PageInv, FreshInv
    <2>3. NoOlder(announced[reader[r].since], news, reborn)
        BY DEF PageInv, FetchIsLater
    <2>4. QED
        BY <1>1, <1>2, <2>2, <2>3, NoOlderOrders
<1>5. QED
    BY <1>1, <1>2, <1>3, <1>4, NoOlderOrders DEF NewsIsAnnounced

\* The page starts with what it goes by.
LEMMA PageInitInv == PageInit => PageInv
<1> SUFFICES ASSUME PageInit PROVE PageInv
    OBVIOUS
<1>1. FreshInv /\ PageTypeOK
    BY InitFresh, PageInitTypes DEF PageInit
<1>2. announced[generation] = NoJobs
    BY DEF PageInit, Init, NoJobs, NoSnapshot
<1>3. news = NoJobs /\ fetching = {} /\ news \in Files
    BY <1>1 DEF PageInit, PageTypeOK
<1>4. QED
    BY <1>1, <1>2, <1>3, NoOlderOrders
    DEF PageInv, NewsIsAnnounced, FetchIsLater

\* Every step keeps what the page goes by.
LEMMA PageNextInv ==
    ASSUME PageInv, [PageNext]_<<vars, pageVars>>
    PROVE  PageInv'
<1>1. FreshInv' /\ PageTypeOK'
    BY PageInvFetchers, PageStep, NextFresh, PageNextTypes
    DEF PageInv, FreshInv
<1>2. ASSUME news' = news, fetching' = {}
      PROVE  PageInv'
    BY <1>1, <1>2, NewsStays DEF PageInv, FetchIsLater
<1>3. ASSUME UNCHANGED <<announced, reader, news, fetching>>
      PROVE  PageInv'
    BY <1>1, <1>3, NewsStays DEF PageInv, FetchIsLater
<1>4. CASE ServerStep
    <2>1. news' = news /\ fetching' = fetching
        BY <1>4 DEF ServerStep, pageVars
    <2>2. ASSUME NEW r \in fetching
          PROVE  /\ reader'[r].pc # "idle"
                 /\ reader'[r].since = reader[r].since
                 /\ announced'[reader[r].since] = announced[reader[r].since]
        <3>1. r \in Readers /\ fetching = {r} /\ reader[r].pc # "idle"
            BY DEF PageInv, PageTypeOK, FetchIsLater
        <3>2. QED
            BY <1>4, <3>1, BeginningStays DEF ServerStep, PageInv
    <2>3. QED
        BY <1>1, <2>1, <2>2, NewsStays DEF PageInv, FetchIsLater
<1>5. CASE ServerRestart
    BY <1>2, <1>5 DEF ServerRestart
<1>6. ASSUME NEW r \in Readers, FetchSend(r)
      PROVE  PageInv'
    <2>1. news' = news /\ fetching' = {r} /\ generation' = generation
        BY <1>6 DEF FetchSend, Request, cacheVars, PageInv, PageTypeOK
    <2>2. reader'[r].pc = "enter" /\ reader'[r].since = generation
        BY <1>6 DEF FetchSend, Request, PageInv, FreshInv, TypeOK, Reader
    <2>3. NewsIsAnnounced'
        BY <2>1, NewsStays
    <2>4. QED
        BY <1>1, <2>1, <2>2, <2>3 DEF PageInv, FetchIsLater, NewsIsAnnounced
<1>7. ASSUME NEW r \in Readers, FetchDone(r)
      PROVE  PageInv'
    <2>1. fetching' = {}
        BY <1>7 DEF FetchDone, PageInv, PageTypeOK
    <2>2. news' = announced'[generation'] /\ news' \in Files
        BY <1>1, <1>7 DEF FetchDone, Finish, cacheVars, PageTypeOK
    <2>3. QED
        BY <1>1, <2>1, <2>2, NoOlderOrders
        DEF PageInv, NewsIsAnnounced, FetchIsLater
<1>8. ASSUME NEW r \in Readers, FetchFails(r)
      PROVE  PageInv'
    <2>1. fetching' = {} /\ news' = news
        BY <1>8 DEF FetchFails, PageInv, PageTypeOK
    <2>2. QED
        BY <1>2, <2>1
<1>9. CASE PollSend \/ PollAnswered \/ PollFails \/ CancelAnswered
              \/ ClearAnswered
    BY <1>3, <1>9 DEF PollSend, PollAnswered, PollFails, CancelAnswered,
                      ClearAnswered, serverVars, cacheVars
<1>10. CASE UNCHANGED <<vars, pageVars>>
    BY <1>3, <1>10 DEF vars, cacheVars, pageVars
<1>11. QED
    BY <1>4, <1>5, <1>6, <1>7, <1>8, <1>9, <1>10 DEF PageNext

\* singleFlight (app.js:153-160) keeps the answers in the order of their
\* requests: a board that replaces another is no older than what had been
\* announced when the other was shown, for any number of jobs, request
\* threads, response cache keys, restarts and lost answers.
THEOREM BoardsKeepUp == PageSpec => BoardKeepsUp
<1>1. ASSUME PageInv, [PageNext]_<<vars, pageVars>>,
             NEW r \in fetching, FetchDone(r)
      PROVE  NoOlder(board'.shows, news, reborn')
    <2>1. /\ r \in Readers
          /\ reader[r].since \in 1..generation
          /\ NoOlder(announced[reader[r].since], news, reborn)
        BY <1>1 DEF PageInv, PageTypeOK, FetchIsLater, FreshInv,
                    ReadersAreNew, ReaderIsNew
    <2>2. NoOlder(reader[r].shows, announced[reader[r].since], reborn)
        BY <1>1, <2>1 DEF FetchDone, Finish, PageInv, FreshInv, ReadersAreNew,
                          ReaderIsNew, AsNewAs
    <2>3. /\ reader[r].shows \in Files
          /\ announced[reader[r].since] \in Files
          /\ news \in Files
        BY <1>1, <2>1, FilesTypes DEF PageInv, FreshInv, PageTypeOK
    <2>4. board'.shows = reader[r].shows /\ reborn' = reborn
        BY <1>1 DEF FetchDone, Finish, diskVars
    <2>5. QED
        BY <2>1, <2>2, <2>3, <2>4, NoOlderOrders
<1>2. PageInv /\ [PageNext]_<<vars, pageVars>> =>
          [\A r \in fetching : FetchDone(r) => NoOlder(board'.shows, news, reborn')]_
              <<vars, pageVars>>
    BY <1>1
<1>3. PageInv /\ [PageNext]_<<vars, pageVars>> => PageInv'
    BY PageNextInv
<1>4. QED
    BY <1>2, <1>3, PageInitInv, PTL DEF PageSpec, BoardKeepsUp
=============================================================================
