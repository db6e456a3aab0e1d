--------------------------- MODULE ResultsProofs ----------------------------
(***************************************************************************)
(* Theorems about ResultsCache: its types, its single builder, and the     *)
(* freshness of every answer.                                              *)
(***************************************************************************)
EXTENDS ResultsCache, FiniteSetTheorems, TLAPS

-----------------------------------------------------------------------------
(***************************************************************************)
(* Types.                                                                  *)
(***************************************************************************)

\* What the constants built from Jobs contain.
LEMMA Values ==
    /\ NoSnapshot \in Snapshot
    /\ NoSnapshot.version = 0
    /\ IdleReader \in Reader
    /\ IdleReader.pc = "idle"
BY DEF NoSnapshot, Snapshot, Files, Stage, IdleReader, Reader, ReaderPc

\* The requests that wait keep their type when they are notified.
LEMMA NotifiedTypes ==
    ASSUME TypeOK PROVE Notified \in [Readers -> Reader]
BY DEF TypeOK, Notified, Reader, ReaderPc

\* An invalidation adds one announcement and keeps the types.
LEMMA InvalidateTypes ==
    ASSUME TypeOK, Invalidate
    PROVE  /\ generation' \in Nat \ {0}
           /\ cache' \in Snapshot
           /\ announced' \in [1..generation' -> Files]
           /\ reader' \in [Readers -> Reader]
           /\ UNCHANGED <<building, responses>>
BY Values, NotifiedTypes DEF TypeOK, Invalidate

\* Writing a job file keeps the types.
LEMMA WriteRecordTypes ==
    ASSUME TypeOK, NEW j \in Jobs, NEW stage \in Stage, WriteRecord(j, stage)
    PROVE  record' \in Files /\ reborn' \subseteq Jobs
BY DEF TypeOK, WriteRecord, Files

\* Every step of a job keeps the types.
LEMMA JobStepTypes ==
    ASSUME TypeOK, NEW j \in Jobs, JobStep(j)
    PROVE  TypeOK'
<1>1. CASE CreateJob(j)
    <2>1. "active" \in Stage BY DEF Stage
    <2> QED BY <1>1, <2>1, WriteRecordTypes
            DEF TypeOK, CreateJob, WorkerPc, cacheVars
<1>2. CASE DropJob(j) \/ WriteReleasing(j) \/ WriteReleased(j)
    <2>1. "ended" \in Stage BY DEF Stage
    <2> QED BY <1>2, <2>1, WriteRecordTypes
            DEF TypeOK, DropJob, WriteReleasing, WriteReleased, WorkerPc,
                cacheVars
<1>3. CASE WriteFinished(j)
    <2>1. "finished" \in Stage BY DEF Stage
    <2> QED BY <1>3, <2>1, WriteRecordTypes
            DEF TypeOK, WriteFinished, WorkerPc, cacheVars
<1>4. CASE WriteSummary(j)
    BY <1>4 DEF TypeOK, WriteSummary, WorkerPc, Files, Stage, cacheVars
<1>5. CASE AnnounceFinished(j)
    BY <1>5, InvalidateTypes DEF TypeOK, AnnounceFinished, WorkerPc
<1>6. CASE ClearCheck(j)
    BY <1>6 DEF TypeOK, ClearCheck, cacheVars
<1>7. CASE ClearRemove(j)
    BY <1>7 DEF TypeOK, ClearRemove, Files, Stage, cacheVars
<1>8. CASE ClearAnnounce(j)
    BY <1>8, InvalidateTypes DEF TypeOK, ClearAnnounce
<1> QED
    BY <1>1, <1>2, <1>3, <1>4, <1>5, <1>6, <1>7, <1>8 DEF JobStep

\* One more element in a set that is smaller than a bound.
LEMMA OneMore ==
    ASSUME NEW S, NEW x, NEW n \in Nat, IsFiniteSet(S), Cardinality(S) < n,
           Cardinality(S) \in Nat
    PROVE  IsFiniteSet(S \cup {x}) /\ Cardinality(S \cup {x}) <= n
BY FS_AddElement

\* The response cache stays within its bound.
LEMMA RespondTypes ==
    ASSUME TypeOK, NEW r \in Readers, NEW key \in Keys, Respond(r, key)
    PROVE  TypeOK'
<1> DEFINE kept == IF responses.generation = reader[r].generation
                   THEN responses.entries ELSE {}
           cached == {e \in kept : e.key = key}
           new == [key |-> key, shows |-> reader[r].shows]
<1>1. /\ kept \subseteq Entry
      /\ IsFiniteSet(kept)
      /\ Cardinality(kept) \in Nat
      /\ Cardinality(kept) <= MaxEntries
    BY FS_EmptySet, FS_CardinalityType, ResultsAssumption DEF TypeOK
<1>2. /\ reader[r] \in Reader
      /\ new \in Entry
    BY DEF TypeOK, Reader, Entry
<1>3. /\ UNCHANGED <<diskVars, cacheVars>>
      /\ \/ /\ cached # {}
            /\ \E e \in cached :
                reader' = [reader EXCEPT ![r].pc = "answered",
                                         ![r].generation = 0,
                                         ![r].shows = e.shows]
            /\ UNCHANGED responses
         \/ /\ cached = {}
            /\ reader' = [reader EXCEPT ![r].pc = "answered",
                                        ![r].generation = 0]
            /\ \E dropped \in SUBSET kept :
                /\ Cardinality(dropped) =
                       IF Cardinality(kept) < MaxEntries THEN 0 ELSE 1
                /\ responses' = [generation |-> reader[r].generation,
                                 entries |-> (kept \ dropped) \cup {new}]
    BY DEF Respond
<1>4. CASE cached # {}
    <2>1. PICK e \in cached :
              reader' = [reader EXCEPT ![r].pc = "answered",
                                       ![r].generation = 0,
                                       ![r].shows = e.shows]
        BY <1>3, <1>4
    <2>2. e.shows \in Files BY <1>1 DEF Entry
    <2>3. reader' \in [Readers -> Reader]
        BY <2>1, <2>2, <1>2 DEF TypeOK, Reader, ReaderPc
    <2> QED BY <2>3, <1>3, <1>4 DEF TypeOK, diskVars, cacheVars
<1>5. CASE cached = {}
    <2>1. PICK dropped \in SUBSET kept :
              /\ Cardinality(dropped) =
                     IF Cardinality(kept) < MaxEntries THEN 0 ELSE 1
              /\ responses' = [generation |-> reader[r].generation,
                               entries |-> (kept \ dropped) \cup {new}]
        BY <1>3, <1>5
    <2>2. /\ IsFiniteSet(kept \ dropped)
          /\ Cardinality(kept \ dropped) \in Nat
          /\ Cardinality(kept \ dropped) < MaxEntries
        <3>1. IsFiniteSet(dropped) BY <1>1, <2>1, FS_Subset
        <3>2. CASE Cardinality(kept) < MaxEntries
            <4>1. dropped = {} BY <2>1, <3>1, <3>2, FS_EmptySet
            <4> QED BY <4>1, <3>2, <1>1
        <3>3. CASE ~(Cardinality(kept) < MaxEntries)
            <4>1. PICK e : dropped = {e} BY <2>1, <3>1, <3>3, FS_Singleton
            <4>2. Cardinality(kept \ {e}) = Cardinality(kept) - 1
                BY <4>1, <1>1, FS_RemoveElement
            <4>3. IsFiniteSet(kept \ {e}) BY <1>1, FS_RemoveElement
            <4>4. MaxEntries \in Nat BY ResultsAssumption
            <4>5. Cardinality(kept \ {e}) \in Nat BY <4>3, FS_CardinalityType
            <4> HIDE DEF kept
            <4> QED BY <4>1, <4>2, <4>3, <4>4, <4>5, <1>1
        <3> QED BY <3>2, <3>3
    <2>3. /\ IsFiniteSet((kept \ dropped) \cup {new})
          /\ Cardinality((kept \ dropped) \cup {new}) <= MaxEntries
        <3>1. MaxEntries \in Nat BY ResultsAssumption
        <3> HIDE DEF kept, new
        <3> QED BY <2>2, <3>1, OneMore
    <2>4. responses' \in [generation : Nat, entries : SUBSET Entry]
        BY <1>1, <1>2, <2>1 DEF Reader
    <2>5. /\ IsFiniteSet(responses'.entries)
          /\ Cardinality(responses'.entries) <= MaxEntries
        BY <2>1, <2>3
    <2>6. reader' \in [Readers -> Reader]
        <3>1. reader' = [reader EXCEPT ![r].pc = "answered",
                                       ![r].generation = 0]
            BY <1>3, <1>5
        <3> QED BY <1>2, <3>1 DEF TypeOK, Reader, ReaderPc
    <2> QED BY <2>4, <2>5, <2>6, <1>3 DEF TypeOK, diskVars, cacheVars
<1> QED BY <1>4, <1>5

\* Every other step of a request keeps the types.
LEMMA ReaderTypes ==
    ASSUME TypeOK, NEW r \in Readers,
           Request(r) \/ ReaderStep(r) \/ BuildFails(r)
    PROVE  TypeOK'
<1>1. /\ reader[r] \in Reader
      /\ record \in Files
      /\ cache \in Snapshot
      /\ generation \in Nat
    BY DEF TypeOK
<1>2. CASE Request(r)
    BY <1>1, <1>2 DEF TypeOK, Request, Reader, ReaderPc, diskVars, cacheVars
<1>3. ASSUME Answer(r, cache)
      PROVE  /\ reader' \in [Readers -> Reader]
             /\ building' \in BOOLEAN
    BY <1>1, <1>3 DEF TypeOK, Answer, Reader, ReaderPc, Snapshot
<1>4. ASSUME BuildOrWait(r)
      PROVE  /\ reader' \in [Readers -> Reader]
             /\ building' \in BOOLEAN
    BY <1>1, <1>4 DEF TypeOK, BuildOrWait, Reader, ReaderPc
<1>5. CASE Enter(r) \/ Wake(r)
    <2>1. Answer(r, cache) \/ BuildOrWait(r) BY <1>5 DEF Enter, Wake
    <2>2. UNCHANGED <<diskVars, generation, cache, announced, responses>>
        BY <1>5 DEF Enter, Wake
    <2> QED BY <2>1, <2>2, <1>3, <1>4 DEF TypeOK, diskVars
<1>6. CASE ReadJobs(r)
    BY <1>1, <1>6 DEF TypeOK, ReadJobs, Reader, ReaderPc, diskVars, cacheVars
<1>7. CASE \E j \in Jobs : Summarize(r, j)
    <2>1. PICK j \in Jobs : Summarize(r, j) BY <1>7
    <2>2. summary' \in Files
        BY <1>1, <2>1 DEF TypeOK, Summarize, Reader, Files
    <2>3. reader' \in [Readers -> Reader]
        BY <1>1, <2>1, <2>2 DEF TypeOK, Summarize, Reader, Files
    <2> QED BY <2>1, <2>2, <2>3 DEF TypeOK, Summarize, cacheVars
<1>8. CASE Publish(r)
    <2>1. reader' \in [Readers -> Reader]
        <3>1. [IdleReader EXCEPT !.pc = "enter", !.since = reader[r].since]
                  \in Reader
            BY <1>1, Values DEF Reader, ReaderPc
        <3>2. Notified[r] = reader[r]
            BY <1>8 DEF Notified, Publish
        <3>3. [Notified EXCEPT ![r].pc = "respond"] \in [Readers -> Reader]
            BY <1>1, <3>2, NotifiedTypes DEF Reader, ReaderPc
        <3> QED BY <1>8, <3>1, <3>3, NotifiedTypes DEF Publish
    <2>2. cache' \in Snapshot
        BY <1>1, <1>8 DEF Publish, Snapshot, Reader
    <2> QED BY <2>1, <2>2, <1>8 DEF TypeOK, Publish, diskVars
<1>9. CASE \E key \in Keys : Respond(r, key)
    BY <1>9, RespondTypes
<1>10. CASE Finish(r)
    BY <1>10, Values DEF TypeOK, Finish, diskVars, cacheVars
<1>11. CASE BuildFails(r)
    <2>1. reader' \in [Readers -> Reader]
        BY <1>11, NotifiedTypes, Values DEF BuildFails
    <2> QED BY <1>11, <2>1 DEF TypeOK, BuildFails, diskVars
<1> QED
    BY <1>2, <1>5, <1>6, <1>7, <1>8, <1>9, <1>10, <1>11 DEF ReaderStep

\* A restart keeps the types.
LEMMA RestartTypes ==
    ASSUME TypeOK, Restart PROVE TypeOK'
<1>1. /\ record' \in Files
      /\ worker' \in [Jobs -> WorkerPc]
      /\ generation' \in Nat \ {0}
    BY DEF TypeOK, Restart, Files, Stage, WorkerPc
<1>2. announced' \in [1..generation' -> Files]
    BY <1>1 DEF Restart
<1>3. /\ responses' \in [generation : Nat, entries : SUBSET Entry]
      /\ IsFiniteSet(responses'.entries)
      /\ Cardinality(responses'.entries) <= MaxEntries
    BY FS_EmptySet, ResultsAssumption DEF Restart
<1>4. /\ cache' \in Snapshot
      /\ reader' \in [Readers -> Reader]
      /\ clearing' \in [Jobs -> {"no", "remove", "announce"}]
      /\ building' \in BOOLEAN
      /\ UNCHANGED <<summary, reborn>>
    BY Values DEF Restart
<1> QED BY <1>1, <1>2, <1>3, <1>4 DEF TypeOK

\* The types hold at the start.
LEMMA InitTypes == Init => TypeOK
<1> SUFFICES ASSUME Init PROVE TypeOK
    OBVIOUS
<1>1. /\ responses \in [generation : Nat, entries : SUBSET Entry]
      /\ IsFiniteSet(responses.entries)
      /\ Cardinality(responses.entries) <= MaxEntries
    BY FS_EmptySet, ResultsAssumption DEF Init
<1>2. record \in Files /\ summary \in Files
    BY DEF Init, Files, Stage
<1>3. /\ announced \in [1..generation -> Files]
      /\ generation \in Nat \ {0}
    BY <1>2 DEF Init
<1> QED BY <1>1, <1>2, <1>3, Values DEF Init, TypeOK, WorkerPc

\* Types are kept by every step.
LEMMA NextTypes == TypeOK /\ [Next]_vars => TypeOK'
<1> SUFFICES ASSUME TypeOK, [Next]_vars PROVE TypeOK'
    OBVIOUS
<1>1. CASE Next
    BY <1>1, JobStepTypes, ReaderTypes, RestartTypes DEF Next
<1>2. CASE UNCHANGED vars
    BY <1>2 DEF TypeOK, vars, diskVars, cacheVars
<1> QED BY <1>1, <1>2

\* Every variable keeps its type, the response cache within its bound
\* (server.py:395-424), whatever the jobs, requests and keys are.
THEOREM ResultsTypeCorrect == Spec => []TypeOK
BY InitTypes, NextTypes, PTL DEF Spec

-----------------------------------------------------------------------------
(***************************************************************************)
(* Freshness.  Whatever a request holds is as new as the generation it     *)
(* carries, and the generation it carries is no older than its beginning.  *)
(***************************************************************************)

\* Later announcements are of newer files.
AnnouncementsInOrder ==
    \A g, h \in 1..generation : g <= h => AsNewAs(announced[h], g)

\* The files are at least as new as the last announcement.
DiskIsNew == AsNewAs(record, generation)

\* Where a worker is tells the stage of its file, until a clear interferes.
FilesInOrder ==
    \A j \in Jobs :
        /\ worker[j] = "none" => record[j] = "none"
        /\ worker[j] = "running" => record[j] = "active"
        /\ worker[j] \in {"none", "running"} => clearing[j] = "no"
        /\ worker[j] \in {"releasing", "released"} /\ j \notin reborn =>
               record[j] \in {"ended", "cleared"}

CacheIsNew ==
    cache.version # 0 =>
        /\ cache.version \in 1..generation
        /\ AsNewAs(cache.shows, cache.version)

ResponsesAreNew ==
    responses.generation # 0 =>
        /\ responses.generation \in 1..generation
        /\ \A e \in responses.entries : AsNewAs(e.shows, responses.generation)

ReaderIsNew(r) ==
    /\ reader[r].pc # "idle" => reader[r].since \in 1..generation
    /\ reader[r].pc \in {"waiting", "woken", "read", "build", "respond"} =>
           reader[r].generation \in reader[r].since..generation
    /\ reader[r].pc \in {"build", "respond"} =>
           AsNewAs(reader[r].shows, reader[r].generation)
    /\ reader[r].pc = "answered" =>
           AsNewAs(reader[r].shows, reader[r].since)

ReadersAreNew == \A r \in Readers : ReaderIsNew(r)

FreshInv ==
    /\ TypeOK
    /\ AnnouncementsInOrder
    /\ DiskIsNew
    /\ FilesInOrder
    /\ CacheIsNew
    /\ ResponsesAreNew
    /\ ReadersAreNew

\* NoOlder is a preorder on files, and exempting more jobs keeps it.
LEMMA NoOlderOrders ==
    ASSUME NEW a \in Files, NEW b \in Files, NEW c \in Files,
           NEW X, NEW Y, X \subseteq Y
    PROVE  /\ NoOlder(a, a, X)
           /\ NoOlder(a, b, X) => NoOlder(a, b, Y)
           /\ NoOlder(a, b, X) /\ NoOlder(b, c, X) => NoOlder(a, c, X)
<1>1. \A s \in Stage : Rank[s] \in Nat
    BY DEF Rank, Stage
<1>2. \A j \in Jobs : a[j] \in Stage /\ b[j] \in Stage /\ c[j] \in Stage
    BY DEF Files
<1>3. \A j \in Jobs : /\ Rank[a[j]] \in Nat
                      /\ Rank[b[j]] \in Nat
                      /\ Rank[c[j]] \in Nat
    BY <1>1, <1>2
<1> QED BY <1>3 DEF NoOlder

\* What every step of a job does to its file: the file gets newer, or is one
\* that came back.
LEMMA JobFiles ==
    ASSUME FreshInv, NEW j \in Jobs, JobStep(j)
    PROVE  /\ NoOlder(record', record, reborn')
           /\ reborn \subseteq reborn'
           /\ FilesInOrder'
<1>1. /\ record \in Files
      /\ worker \in [Jobs -> WorkerPc]
      /\ clearing \in [Jobs -> {"no", "remove", "announce"}]
      /\ reborn \subseteq Jobs
      /\ \A k \in Jobs : record[k] \in Stage
    BY DEF FreshInv, TypeOK, Files
<1>2. FilesInOrder BY DEF FreshInv
<1>3. ASSUME NEW stage \in Stage, WriteRecord(j, stage),
             j \notin reborn' => Rank[stage] >= Rank[record[j]]
      PROVE  /\ NoOlder(record', record, reborn')
             /\ reborn \subseteq reborn'
    BY <1>1, <1>3 DEF WriteRecord, NoOlder, Files, Stage, Rank
<1>4. ASSUME UNCHANGED <<record, reborn>>
      PROVE  /\ NoOlder(record', record, reborn')
             /\ reborn \subseteq reborn'
    BY <1>1, <1>4, NoOlderOrders
<1>5. CASE CreateJob(j)
    <2>1. record[j] = "none" BY <1>2, <1>5 DEF FilesInOrder, CreateJob
    <2>2. Rank["active"] >= Rank["none"] /\ "active" \in Stage
        BY DEF Rank, Stage
    <2>3. FilesInOrder'
        BY <1>1, <1>2, <1>5 DEF FilesInOrder, CreateJob, WriteRecord, Files
    <2> QED BY <2>1, <2>2, <2>3, <1>3, <1>5 DEF CreateJob
<1>6. CASE DropJob(j) \/ WriteReleasing(j)
    <2>1. record[j] = "active"
        BY <1>2, <1>6 DEF FilesInOrder, DropJob, WriteReleasing
    <2>2. Rank["ended"] >= Rank["active"] /\ "ended" \in Stage
        BY DEF Rank, Stage
    <2>3. FilesInOrder'
        BY <1>1, <1>2, <1>6
        DEF FilesInOrder, DropJob, WriteReleasing, WriteRecord, Files
    <2> QED BY <2>1, <2>2, <2>3, <1>3, <1>6 DEF DropJob, WriteReleasing
<1>7. CASE WriteReleased(j)
    <2>1. j \notin reborn' => record[j] = "ended"
        BY <1>1, <1>2, <1>7
        DEF FilesInOrder, WriteReleased, WriteRecord, NoFile
    <2>2. Rank["ended"] >= Rank["ended"] /\ "ended" \in Stage
        BY DEF Rank, Stage
    <2>3. FilesInOrder'
        BY <1>1, <1>2, <1>7
        DEF FilesInOrder, WriteReleased, WriteRecord, Files
    <2> QED BY <2>1, <2>2, <2>3, <1>3, <1>7 DEF WriteReleased
<1>8. CASE WriteFinished(j)
    <2>1. j \notin reborn' => record[j] \in {"active", "ended"}
        BY <1>1, <1>2, <1>8
        DEF FilesInOrder, WriteFinished, WriteRecord, NoFile
    <2>2. /\ Rank["finished"] >= Rank["ended"]
          /\ Rank["finished"] >= Rank["active"]
          /\ "finished" \in Stage
        BY DEF Rank, Stage
    <2>3. FilesInOrder'
        BY <1>1, <1>2, <1>8
        DEF FilesInOrder, WriteFinished, WriteRecord, Files
    <2> QED BY <2>1, <2>2, <2>3, <1>3, <1>8 DEF WriteFinished
<1>9. CASE WriteSummary(j) \/ AnnounceFinished(j)
    BY <1>1, <1>2, <1>4, <1>9
    DEF FilesInOrder, WriteSummary, AnnounceFinished
<1>10. CASE ClearCheck(j)
    BY <1>1, <1>2, <1>4, <1>10 DEF FilesInOrder, ClearCheck
<1>11. CASE ClearRemove(j)
    <2>1. \A k \in Jobs : Rank[record'[k]] >= Rank[record[k]]
        BY <1>1, <1>11 DEF ClearRemove, Files, Stage, Rank
    <2>2. FilesInOrder'
        BY <1>1, <1>2, <1>11 DEF FilesInOrder, ClearRemove, Files
    <2> QED BY <2>1, <2>2, <1>11 DEF ClearRemove, NoOlder
<1>12. CASE ClearAnnounce(j)
    BY <1>1, <1>2, <1>4, <1>12 DEF FilesInOrder, ClearAnnounce
<1> QED
    BY <1>5, <1>6, <1>7, <1>8, <1>9, <1>10, <1>11, <1>12 DEF JobStep

\* The files that occur in a state, as members of Files.
LEMMA FilesTypes ==
    ASSUME TypeOK
    PROVE  /\ record \in Files
           /\ cache.shows \in Files
           /\ generation \in Nat \ {0}
           /\ \A e \in responses.entries : e.shows \in Files
           /\ \A r \in Readers : reader[r].shows \in Files
           /\ \A g \in 1..generation : announced[g] \in Files
BY DEF TypeOK, Snapshot, Entry, Reader

\* A step of a job that announces nothing keeps the invariant.
LEMMA QuietJobStepFresh ==
    ASSUME FreshInv, NEW j \in Jobs, JobStep(j),
           UNCHANGED <<cacheVars, responses, reader>>
    PROVE  FreshInv'
<1>1. /\ NoOlder(record', record, reborn')
      /\ reborn \subseteq reborn'
      /\ FilesInOrder'
    BY JobFiles
<1>2. TypeOK /\ TypeOK' BY JobStepTypes DEF FreshInv
<1>3. UNCHANGED <<generation, cache, announced, responses, reader>>
    BY DEF cacheVars
<1>4. ASSUME NEW shows \in Files, NEW g \in 1..generation, AsNewAs(shows, g)
      PROVE  NoOlder(shows, announced[g], reborn')
    BY <1>1, <1>2, <1>4, FilesTypes, NoOlderOrders DEF AsNewAs
<1>5. AnnouncementsInOrder'
    <2> SUFFICES ASSUME NEW g \in 1..generation, NEW h \in 1..generation,
                        g <= h
                 PROVE  NoOlder(announced[h], announced[g], reborn')
        BY <1>3 DEF AnnouncementsInOrder, AsNewAs
    <2>1. AsNewAs(announced[h], g) BY DEF FreshInv, AnnouncementsInOrder
    <2> QED BY <2>1, <1>2, <1>4, FilesTypes
<1>6. DiskIsNew'
    <2>1. generation \in 1..generation BY <1>2, FilesTypes
    <2>2. NoOlder(record, announced[generation], reborn')
        BY <2>1, <1>2, <1>4, FilesTypes DEF FreshInv, DiskIsNew
    <2>3. record' \in Files /\ record \in Files
          /\ announced[generation] \in Files
        BY <1>2, <2>1, FilesTypes DEF TypeOK
    <2>4. NoOlder(record', announced[generation], reborn')
        BY <2>2, <2>3, <1>1, NoOlderOrders
    <2> QED BY <2>4, <1>3 DEF DiskIsNew, AsNewAs
<1>7. CacheIsNew'
    BY <1>2, <1>3, <1>4, FilesTypes DEF FreshInv, CacheIsNew, AsNewAs
<1>8. ResponsesAreNew'
    BY <1>2, <1>3, <1>4, FilesTypes DEF FreshInv, ResponsesAreNew, AsNewAs
<1>9. ReadersAreNew'
    <2> SUFFICES ASSUME NEW r \in Readers
                 PROVE  ReaderIsNew(r)'
        BY DEF ReadersAreNew
    <2>1. ReaderIsNew(r) BY DEF FreshInv, ReadersAreNew
    <2>2. /\ reader[r].shows \in Files
          /\ reader[r].since \in Nat
          /\ reader[r].generation \in Nat
          /\ generation \in Nat
        BY <1>2 DEF TypeOK, Reader
    <2>3. reader[r].pc \in {"build", "respond"} =>
              NoOlder(reader[r].shows, announced[reader[r].generation], reborn')
        BY <2>1, <2>2, <1>4 DEF ReaderIsNew
    <2>4. reader[r].pc = "answered" =>
              NoOlder(reader[r].shows, announced[reader[r].since], reborn')
        BY <2>1, <2>2, <1>4 DEF ReaderIsNew
    <2> QED BY <2>1, <2>3, <2>4, <1>3 DEF AsNewAs, ReaderIsNew
<1> QED
    BY <1>1, <1>2, <1>5, <1>6, <1>7, <1>8, <1>9 DEF FreshInv

\* An invalidation keeps the invariant: what is announced is what the files
\* hold, and the snapshot is gone.
LEMMA InvalidateFresh ==
    ASSUME FreshInv, Invalidate, UNCHANGED <<record, reborn>>, TypeOK',
           FilesInOrder'
    PROVE  FreshInv'
<1>1. /\ TypeOK
      /\ generation \in Nat \ {0}
      /\ generation' = generation + 1
    BY DEF FreshInv, TypeOK, Invalidate
<1>2. /\ \A g \in 1..generation : announced'[g] = announced[g]
      /\ announced'[generation'] = record
    BY <1>1 DEF Invalidate
<1>3. ASSUME NEW shows, NEW g \in 1..generation, AsNewAs(shows, g)
      PROVE  NoOlder(shows, announced'[g], reborn')
    BY <1>2, <1>3 DEF AsNewAs
<1>4. NoOlder(record, record, reborn)
    BY <1>1, FilesTypes, NoOlderOrders
<1>5. AnnouncementsInOrder'
    <2> SUFFICES ASSUME NEW g \in 1..generation', NEW h \in 1..generation',
                        g <= h
                 PROVE  NoOlder(announced'[h], announced'[g], reborn)
        BY DEF AnnouncementsInOrder, AsNewAs
    <2>1. CASE h \in 1..generation
        <3>1. g \in 1..generation BY <1>1, <2>1
        <3>2. AsNewAs(announced[h], g)
            BY <2>1, <3>1 DEF FreshInv, AnnouncementsInOrder
        <3> QED BY <2>1, <3>1, <3>2, <1>2 DEF AsNewAs
    <2>2. CASE h = generation' /\ g = generation'
        BY <2>2, <1>2, <1>4
    <2>3. CASE h = generation' /\ g \in 1..generation
        <3>1. NoOlder(record, announced[generation], reborn)
            BY DEF FreshInv, DiskIsNew, AsNewAs
        <3>2. NoOlder(announced[generation], announced[g], reborn)
            BY <1>1, <2>3 DEF FreshInv, AnnouncementsInOrder, AsNewAs
        <3>3. /\ record \in Files
              /\ announced[generation] \in Files
              /\ announced[g] \in Files
            BY <1>1, <2>3, FilesTypes
        <3>4. NoOlder(record, announced[g], reborn)
            BY <3>1, <3>2, <3>3, NoOlderOrders
        <3> QED BY <2>3, <3>4, <1>2
    <2> QED BY <1>1, <2>1, <2>2, <2>3
<1>6. DiskIsNew'
    BY <1>2, <1>4 DEF DiskIsNew, AsNewAs
<1>7. CacheIsNew'
    BY Values DEF CacheIsNew, Invalidate
<1>8. ResponsesAreNew'
    <2>1. responses' = responses BY DEF Invalidate
    <2> QED BY <2>1, <1>1, <1>2, <1>3 DEF FreshInv, ResponsesAreNew, AsNewAs
<1>9. ReadersAreNew'
    <2> SUFFICES ASSUME NEW r \in Readers PROVE ReaderIsNew(r)'
        BY DEF ReadersAreNew
    <2>1. ReaderIsNew(r) BY DEF FreshInv, ReadersAreNew
    <2>2. /\ reader[r] \in Reader
          /\ reader[r].since \in Nat
          /\ reader[r].generation \in Nat
        BY <1>1 DEF TypeOK, Reader
    <2>3. /\ reader'[r].since = reader[r].since
          /\ reader'[r].generation = reader[r].generation
          /\ reader'[r].shows = reader[r].shows
          /\ \/ reader'[r].pc = reader[r].pc
             \/ reader[r].pc = "waiting" /\ reader'[r].pc = "woken"
        <3>1. reader'[r] = IF reader[r].pc = "waiting"
                           THEN [reader[r] EXCEPT !.pc = "woken"]
                           ELSE reader[r]
            BY DEF Invalidate, Notified
        <3>2. CASE reader[r].pc = "waiting"
            BY <2>2, <3>1, <3>2 DEF Reader
        <3>3. CASE reader[r].pc # "waiting"
            BY <3>1, <3>3
        <3> QED BY <3>2, <3>3
    <2>4. reader[r].pc \in {"build", "respond"} =>
              NoOlder(reader[r].shows, announced'[reader[r].generation], reborn)
        BY <2>1, <2>2, <1>1, <1>2 DEF ReaderIsNew, AsNewAs
    <2>5. reader[r].pc = "answered" =>
              NoOlder(reader[r].shows, announced'[reader[r].since], reborn)
        BY <2>1, <2>2, <1>1, <1>2 DEF ReaderIsNew, AsNewAs
    <2> QED BY <2>1, <2>2, <2>3, <2>4, <2>5, <1>1 DEF ReaderIsNew, AsNewAs
<1> QED
    BY <1>5, <1>6, <1>7, <1>8, <1>9 DEF FreshInv

\* Every step of a job keeps the invariant.
LEMMA JobStepFresh ==
    ASSUME FreshInv, NEW j \in Jobs, JobStep(j)
    PROVE  FreshInv'
<1>1. TypeOK' /\ FilesInOrder' BY JobStepTypes, JobFiles DEF FreshInv
<1>2. CASE AnnounceFinished(j) \/ ClearAnnounce(j)
    BY <1>1, <1>2, InvalidateFresh DEF AnnounceFinished, ClearAnnounce
<1>3. CASE ~(AnnounceFinished(j) \/ ClearAnnounce(j))
    <2>1. UNCHANGED <<cacheVars, responses, reader>>
        BY <1>3
        DEF JobStep, CreateJob, DropJob, WriteReleasing, WriteReleased,
            WriteFinished, WriteSummary, ClearCheck, ClearRemove, cacheVars
    <2> QED BY <2>1, QuietJobStepFresh
<1> QED BY <1>2, <1>3

\* The frame of a step of request r: the files and announcements stay, other
\* requests are at most notified.
LEMMA ReaderFrame ==
    ASSUME FreshInv, TypeOK', NEW r \in Readers,
           UNCHANGED <<record, worker, clearing, reborn, generation, announced>>,
           CacheIsNew', ResponsesAreNew', ReaderIsNew(r)',
           \A q \in Readers \ {r} : reader'[q] \in {reader[q], Notified[q]}
    PROVE  FreshInv'
<1>1. AnnouncementsInOrder' /\ DiskIsNew' /\ FilesInOrder'
    BY DEF FreshInv, AnnouncementsInOrder, DiskIsNew, FilesInOrder, AsNewAs
<1>2. ASSUME NEW q \in Readers \ {r} PROVE ReaderIsNew(q)'
    <2>1. ReaderIsNew(q) BY DEF FreshInv, ReadersAreNew
    <2>2. reader[q] \in Reader BY DEF FreshInv, TypeOK
    <2>3. CASE reader'[q] = reader[q]
        BY <2>1, <2>3 DEF ReaderIsNew, AsNewAs
    <2>4. CASE reader'[q] = Notified[q]
        <3>1. Notified[q] = IF reader[q].pc = "waiting"
                            THEN [reader[q] EXCEPT !.pc = "woken"]
                            ELSE reader[q]
            BY DEF Notified
        <3>2. CASE reader[q].pc = "waiting"
            <4>1. reader'[q] = [reader[q] EXCEPT !.pc = "woken"]
                BY <2>4, <3>1, <3>2
            <4>2. /\ reader'[q].pc = "woken"
                  /\ reader'[q].since = reader[q].since
                  /\ reader'[q].generation = reader[q].generation
                BY <4>1, <2>2 DEF Reader
            <4> QED BY <4>2, <3>2, <2>1 DEF ReaderIsNew
        <3>3. CASE reader[q].pc # "waiting"
            BY <2>1, <2>4, <3>1, <3>3 DEF ReaderIsNew, AsNewAs
        <3> QED BY <3>2, <3>3
    <2> QED BY <2>3, <2>4
<1> QED
    BY <1>1, <1>2 DEF FreshInv, ReadersAreNew

\* A step that leaves the caches alone leaves them fresh.
LEMMA CachesStayNew ==
    ASSUME FreshInv, UNCHANGED <<generation, announced, reborn, cache, responses>>
    PROVE  CacheIsNew' /\ ResponsesAreNew'
BY DEF FreshInv, CacheIsNew, ResponsesAreNew, AsNewAs

\* The critical sections: the generation a request takes over is the current
\* one, and the snapshot it is given is as new as its version says.
LEMMA TakeFresh ==
    ASSUME FreshInv, TypeOK', NEW r \in Readers, Enter(r) \/ Wake(r)
    PROVE  FreshInv'
<1>1. UNCHANGED <<diskVars, generation, cache, announced, responses>>
    BY DEF Enter, Wake
<1>2. /\ reader \in [Readers -> Reader]
      /\ reader[r] \in Reader
      /\ reader[r].since \in Nat
      /\ reader[r].generation \in Nat
      /\ generation \in Nat \ {0}
      /\ cache \in Snapshot
    BY DEF FreshInv, TypeOK, Reader
<1>3. ReaderIsNew(r) BY DEF FreshInv, ReadersAreNew
<1>4. reader[r].since \in 1..generation
    BY <1>3 DEF ReaderIsNew, Enter, Wake
<1>5. CASE \/ Enter(r) /\ cache.version = generation
           \/ Wake(r) /\ cache.version = reader[r].generation
    <2>0. Answer(r, cache) BY <1>5 DEF Enter, Wake
    <2>1. /\ reader'[r].pc = "respond"
          /\ reader'[r].since = reader[r].since
          /\ reader'[r].generation = cache.version
          /\ reader'[r].shows = cache.shows
          /\ \A q \in Readers \ {r} : reader'[q] = reader[q]
        BY <1>2, <2>0 DEF Answer, Reader
    <2>2. cache.version \in reader[r].since..generation
        <3>1. CASE cache.version = generation
            BY <1>2, <1>4, <3>1
        <3>2. CASE Wake(r) /\ cache.version = reader[r].generation
            BY <1>3, <3>2 DEF ReaderIsNew, Wake
        <3> QED BY <1>5, <3>1, <3>2
    <2>3. AsNewAs(cache.shows, cache.version)
        BY <1>2, <1>4, <2>2 DEF FreshInv, CacheIsNew
    <2>4. ReaderIsNew(r)'
        BY <1>1, <1>4, <2>1, <2>2, <2>3 DEF ReaderIsNew, AsNewAs, diskVars
    <2> QED BY <1>1, <2>1, <2>4, ReaderFrame, CachesStayNew DEF diskVars
<1>6. CASE \/ Enter(r) /\ cache.version # generation
           \/ Wake(r) /\ cache.version # reader[r].generation
    <2>0. BuildOrWait(r) BY <1>6 DEF Enter, Wake
    <2>1. /\ reader'[r].pc \in {"waiting", "read"}
          /\ reader'[r].since = reader[r].since
          /\ reader'[r].generation = generation
          /\ \A q \in Readers \ {r} : reader'[q] = reader[q]
        BY <1>2, <2>0 DEF BuildOrWait, Reader
    <2>2. ReaderIsNew(r)'
        BY <1>1, <1>2, <1>4, <2>1 DEF ReaderIsNew
    <2> QED BY <1>1, <2>1, <2>2, ReaderFrame, CachesStayNew DEF diskVars
<1> QED BY <1>5, <1>6

\* A build reads files that are as new as the generation it began with.
LEMMA BuildFresh ==
    ASSUME FreshInv, TypeOK', NEW r \in Readers,
           ReadJobs(r) \/ \E j \in Jobs : Summarize(r, j)
    PROVE  FreshInv'
<1>1. UNCHANGED <<record, worker, clearing, reborn, cacheVars, responses>>
    BY DEF ReadJobs, Summarize, diskVars
<1>2. /\ TypeOK
      /\ reader \in [Readers -> Reader]
      /\ reader[r] \in Reader
      /\ reader[r].since \in Nat
      /\ reader[r].generation \in Nat
      /\ generation \in Nat \ {0}
    BY DEF FreshInv, TypeOK, Reader
<1>3. ReaderIsNew(r) BY DEF FreshInv, ReadersAreNew
<1>4. CASE ReadJobs(r)
    <2>1. /\ reader'[r].pc = "build"
          /\ reader'[r].since = reader[r].since
          /\ reader'[r].generation = reader[r].generation
          /\ reader'[r].shows = record
          /\ \A q \in Readers \ {r} : reader'[q] = reader[q]
        BY <1>2, <1>4 DEF ReadJobs, Reader
    <2>2. /\ reader[r].since \in 1..generation
          /\ reader[r].generation \in reader[r].since..generation
        BY <1>3, <1>4 DEF ReaderIsNew, ReadJobs
    <2>3. NoOlder(record, announced[reader[r].generation], reborn)
        <3>1. /\ generation \in 1..generation
              /\ reader[r].generation \in 1..generation
              /\ reader[r].generation <= generation
            BY <1>2, <2>2
        <3>2. NoOlder(record, announced[generation], reborn)
            BY DEF FreshInv, DiskIsNew, AsNewAs
        <3>3. NoOlder(announced[generation], announced[reader[r].generation],
                      reborn)
            BY <3>1 DEF FreshInv, AnnouncementsInOrder, AsNewAs
        <3>4. /\ record \in Files
              /\ announced[generation] \in Files
              /\ announced[reader[r].generation] \in Files
            BY <1>2, <3>1, FilesTypes
        <3> QED BY <3>2, <3>3, <3>4, NoOlderOrders
    <2>4. ReaderIsNew(r)'
        BY <1>1, <2>1, <2>2, <2>3 DEF ReaderIsNew, AsNewAs, cacheVars
    <2> QED BY <1>1, <2>1, <2>4, ReaderFrame, CachesStayNew DEF cacheVars
<1>5. CASE \E j \in Jobs : Summarize(r, j)
    <2>1. PICK j \in Jobs : Summarize(r, j) BY <1>5
    <2>2. summary'[j] = reader[r].shows[j]
        BY <1>2, <2>1 DEF Summarize, TypeOK, Files
    <2>3. reader[r].shows \in Files BY <1>2 DEF Reader
    <2>4. /\ reader'[r].pc = "build"
          /\ reader'[r].since = reader[r].since
          /\ reader'[r].generation = reader[r].generation
          /\ reader'[r].shows = [reader[r].shows EXCEPT ![j] = summary'[j]]
          /\ \A q \in Readers \ {r} : reader'[q] = reader[q]
        BY <1>2, <2>1 DEF Summarize, Reader
    <2>5. reader'[r].shows = reader[r].shows
        BY <2>2, <2>3, <2>4 DEF Files
    <2>6. reader[r].pc = "build" BY <2>1 DEF Summarize
    <2>7. ReaderIsNew(r)'
        BY <1>1, <1>3, <2>4, <2>5, <2>6 DEF ReaderIsNew, AsNewAs, cacheVars
    <2> QED BY <1>1, <2>4, <2>7, ReaderFrame, CachesStayNew DEF cacheVars
<1> QED BY <1>4, <1>5

\* A snapshot is published as the generation it was built for, or thrown away.
LEMMA PublishFresh ==
    ASSUME FreshInv, TypeOK', NEW r \in Readers, Publish(r)
    PROVE  FreshInv'
<1>1. UNCHANGED <<record, worker, clearing, reborn, generation, announced,
                  responses>>
    BY DEF Publish, diskVars
<1>2. /\ reader \in [Readers -> Reader]
      /\ reader[r] \in Reader
      /\ reader[r].since \in Nat
      /\ generation \in Nat \ {0}
      /\ Notified \in [Readers -> Reader]
    BY NotifiedTypes DEF FreshInv, TypeOK, Reader
<1>3. ReaderIsNew(r) /\ reader[r].pc = "build"
    BY DEF FreshInv, ReadersAreNew, Publish
<1>4. Notified[r] = reader[r]
    BY <1>3 DEF Notified
<1>5. ResponsesAreNew'
    BY <1>1 DEF FreshInv, ResponsesAreNew, AsNewAs
<1>6. CASE reader[r].generation = generation
    <2>1. /\ cache' = [version |-> generation, shows |-> reader[r].shows]
          /\ reader' = [Notified EXCEPT ![r].pc = "respond"]
        BY <1>6 DEF Publish
    <2>2. /\ reader'[r].pc = "respond"
          /\ reader'[r].since = reader[r].since
          /\ reader'[r].generation = reader[r].generation
          /\ reader'[r].shows = reader[r].shows
          /\ \A q \in Readers \ {r} : reader'[q] = Notified[q]
        BY <1>2, <1>4, <2>1 DEF Reader
    <2>3. AsNewAs(reader[r].shows, generation)
        BY <1>3, <1>6 DEF ReaderIsNew
    <2>4. CacheIsNew'
        BY <1>1, <1>2, <2>1, <2>3 DEF CacheIsNew, AsNewAs
    <2>5. ReaderIsNew(r)'
        BY <1>1, <1>3, <2>2 DEF ReaderIsNew, AsNewAs
    <2> QED BY <1>1, <1>5, <2>2, <2>4, <2>5, ReaderFrame
<1>7. CASE reader[r].generation # generation
    <2>1. /\ cache' = cache
          /\ reader' = [Notified EXCEPT
                          ![r] = [IdleReader EXCEPT !.pc = "enter",
                                                    !.since = reader[r].since]]
        BY <1>7 DEF Publish
    <2>2. /\ reader'[r].pc = "enter"
          /\ reader'[r].since = reader[r].since
          /\ \A q \in Readers \ {r} : reader'[q] = Notified[q]
        BY <1>2, <2>1 DEF IdleReader
    <2>3. CacheIsNew'
        BY <1>1, <2>1 DEF FreshInv, CacheIsNew, AsNewAs
    <2>4. ReaderIsNew(r)'
        BY <1>1, <1>3, <2>2 DEF ReaderIsNew
    <2> QED BY <1>1, <1>5, <2>2, <2>3, <2>4, ReaderFrame
<1> QED BY <1>6, <1>7

\* A response is as new as the generation it is cached for, and what is given
\* to a request as new as the generation at which the request came.
LEMMA RespondFresh ==
    ASSUME FreshInv, TypeOK', NEW r \in Readers, NEW key \in Keys,
           Respond(r, key)
    PROVE  FreshInv'
<1> DEFINE kept == IF responses.generation = reader[r].generation
                   THEN responses.entries ELSE {}
<1> DEFINE cached == {e \in kept : e.key = key}
<1> DEFINE new == [key |-> key, shows |-> reader[r].shows]
<1>1. /\ UNCHANGED <<record, worker, clearing, reborn, generation, announced,
                     cache>>
      /\ reader[r].pc = "respond"
    BY DEF Respond, diskVars, cacheVars
<1>2. /\ TypeOK
      /\ reader \in [Readers -> Reader]
      /\ reader[r] \in Reader
      /\ reader[r].since \in Nat
      /\ reader[r].generation \in Nat
      /\ reader[r].shows \in Files
      /\ generation \in Nat \ {0}
    BY DEF FreshInv, TypeOK, Reader
<1>3. /\ reader[r].since \in 1..generation
      /\ reader[r].generation \in reader[r].since..generation
      /\ AsNewAs(reader[r].shows, reader[r].generation)
    BY <1>1 DEF FreshInv, ReadersAreNew, ReaderIsNew
<1>4. /\ reader[r].generation \in 1..generation
      /\ reader[r].since <= reader[r].generation
    BY <1>2, <1>3
<1>5. ASSUME NEW shows \in Files, AsNewAs(shows, reader[r].generation)
      PROVE  AsNewAs(shows, reader[r].since)
    <2>1. NoOlder(shows, announced[reader[r].generation], reborn)
        BY <1>5 DEF AsNewAs
    <2>2. NoOlder(announced[reader[r].generation], announced[reader[r].since],
                  reborn)
        BY <1>3, <1>4 DEF FreshInv, AnnouncementsInOrder, AsNewAs
    <2>3. /\ announced[reader[r].generation] \in Files
          /\ announced[reader[r].since] \in Files
        BY <1>2, <1>3, <1>4, FilesTypes
    <2> QED BY <2>1, <2>2, <2>3, NoOlderOrders DEF AsNewAs
<1>6. \A e \in kept : /\ e.shows \in Files
                      /\ AsNewAs(e.shows, reader[r].generation)
    BY <1>2, <1>4, FilesTypes DEF FreshInv, ResponsesAreNew
<1>7. CacheIsNew'
    BY <1>1 DEF FreshInv, CacheIsNew, AsNewAs
<1>8. CASE /\ responses' = responses
           /\ \E e \in cached :
                 reader' = [reader EXCEPT ![r].pc = "answered",
                                          ![r].generation = 0,
                                          ![r].shows = e.shows]
    <2>1. PICK e \in cached : reader' = [reader EXCEPT ![r].pc = "answered",
                                                      ![r].generation = 0,
                                                      ![r].shows = e.shows]
        BY <1>8
    <2>2. /\ reader'[r].pc = "answered"
          /\ reader'[r].since = reader[r].since
          /\ reader'[r].shows = e.shows
          /\ \A q \in Readers \ {r} : reader'[q] = reader[q]
        BY <1>2, <2>1 DEF Reader
    <2>3. AsNewAs(e.shows, reader[r].since)
        BY <1>5, <1>6, <2>1
    <2>4. ReaderIsNew(r)'
        BY <1>1, <1>3, <2>2, <2>3 DEF ReaderIsNew, AsNewAs
    <2>5. ResponsesAreNew'
        BY <1>1, <1>8 DEF FreshInv, ResponsesAreNew, AsNewAs
    <2> QED BY <1>1, <1>7, <2>2, <2>4, <2>5, ReaderFrame
<1>9. CASE /\ reader' = [reader EXCEPT ![r].pc = "answered",
                                       ![r].generation = 0]
           /\ \E dropped \in SUBSET kept :
                 responses' = [generation |-> reader[r].generation,
                               entries |-> (kept \ dropped) \cup {new}]
    <2>1. PICK dropped \in SUBSET kept :
              responses' = [generation |-> reader[r].generation,
                            entries |-> (kept \ dropped) \cup {new}]
        BY <1>9
    <2>2. /\ reader'[r].pc = "answered"
          /\ reader'[r].since = reader[r].since
          /\ reader'[r].shows = reader[r].shows
          /\ \A q \in Readers \ {r} : reader'[q] = reader[q]
        BY <1>2, <1>9 DEF Reader
    <2>3. AsNewAs(reader[r].shows, reader[r].since)
        BY <1>2, <1>3, <1>5
    <2>4. ReaderIsNew(r)'
        BY <1>1, <1>3, <2>2, <2>3 DEF ReaderIsNew, AsNewAs
    <2>5. /\ responses'.generation = reader[r].generation
          /\ \A e \in responses'.entries : AsNewAs(e.shows, reader[r].generation)
        BY <1>3, <1>6, <2>1
    <2>6. ResponsesAreNew'
        BY <1>1, <1>4, <2>5 DEF ResponsesAreNew, AsNewAs
    <2> QED BY <1>1, <1>7, <2>2, <2>4, <2>6, ReaderFrame
<1>10. \/ /\ responses' = responses
          /\ \E e \in cached :
                 reader' = [reader EXCEPT ![r].pc = "answered",
                                          ![r].generation = 0,
                                          ![r].shows = e.shows]
       \/ /\ reader' = [reader EXCEPT ![r].pc = "answered",
                                       ![r].generation = 0]
          /\ \E dropped \in SUBSET kept :
                 responses' = [generation |-> reader[r].generation,
                               entries |-> (kept \ dropped) \cup {new}]
    BY DEF Respond
<1> QED BY <1>8, <1>9, <1>10

\* A request comes, is answered, or its build fails.
LEMMA RequestFresh ==
    ASSUME FreshInv, TypeOK', NEW r \in Readers,
           Request(r) \/ Finish(r) \/ BuildFails(r)
    PROVE  FreshInv'
<1>1. UNCHANGED <<record, worker, clearing, reborn, generation, announced,
                  cache, responses>>
    BY DEF Request, Finish, BuildFails, diskVars, cacheVars
<1>2. /\ reader \in [Readers -> Reader]
      /\ reader[r] \in Reader
      /\ Notified \in [Readers -> Reader]
      /\ generation \in Nat \ {0}
    BY NotifiedTypes DEF FreshInv, TypeOK
<1>3. CASE Request(r)
    <2>1. /\ reader'[r].pc = "enter"
          /\ reader'[r].since = generation
          /\ \A q \in Readers \ {r} : reader'[q] = reader[q]
        BY <1>2, <1>3 DEF Request, Reader
    <2>2. ReaderIsNew(r)' BY <1>1, <1>2, <2>1 DEF ReaderIsNew
    <2> QED BY <1>1, <2>1, <2>2, ReaderFrame, CachesStayNew
<1>4. CASE Finish(r) \/ BuildFails(r)
    <2>1. /\ reader'[r].pc = "idle"
          /\ \A q \in Readers \ {r} : reader'[q] \in {reader[q], Notified[q]}
        BY <1>2, <1>4 DEF Finish, BuildFails, IdleReader
    <2>2. ReaderIsNew(r)' BY <2>1 DEF ReaderIsNew
    <2> QED BY <1>1, <2>1, <2>2, ReaderFrame, CachesStayNew
<1> QED BY <1>3, <1>4

\* A restart announces what the files hold, and forgets everything else.
LEMMA RestartFresh ==
    ASSUME FreshInv, Restart
    PROVE  FreshInv'
<1>1. TypeOK /\ TypeOK' BY RestartTypes DEF FreshInv
<1>2. /\ generation' \in Nat \ {0}
      /\ record' \in Files
      /\ announced' = [g \in 1..generation' |-> record']
      /\ cache'.version = 0
      /\ responses'.generation = 0
      /\ \A r \in Readers : reader'[r].pc = "idle"
    BY <1>1, Values DEF Restart, TypeOK
<1>3. NoOlder(record', record', reborn')
    BY <1>2, NoOlderOrders
<1>4. AnnouncementsInOrder' /\ DiskIsNew'
    BY <1>2, <1>3 DEF AnnouncementsInOrder, DiskIsNew, AsNewAs
<1>5. FilesInOrder'
    BY <1>1 DEF FreshInv, FilesInOrder, Restart, TypeOK, Files
<1>6. CacheIsNew' /\ ResponsesAreNew' /\ ReadersAreNew'
    BY <1>2 DEF CacheIsNew, ResponsesAreNew, ReadersAreNew, ReaderIsNew
<1> QED BY <1>1, <1>4, <1>5, <1>6 DEF FreshInv

\* The invariant holds at the start.
LEMMA InitFresh == Init => FreshInv
<1> SUFFICES ASSUME Init PROVE FreshInv
    OBVIOUS
<1>1. TypeOK BY InitTypes
<1>2. /\ generation = 1
      /\ announced[1] = record
      /\ cache.version = 0
      /\ responses.generation = 0
      /\ \A r \in Readers : reader[r].pc = "idle"
    BY Values DEF Init
<1>3. NoOlder(record, record, reborn)
    BY <1>1, FilesTypes, NoOlderOrders
<1>4. AnnouncementsInOrder /\ DiskIsNew
    BY <1>2, <1>3 DEF AnnouncementsInOrder, DiskIsNew, AsNewAs
<1>5. FilesInOrder BY DEF Init, FilesInOrder
<1>6. CacheIsNew /\ ResponsesAreNew /\ ReadersAreNew
    BY <1>2 DEF CacheIsNew, ResponsesAreNew, ReadersAreNew, ReaderIsNew
<1> QED BY <1>1, <1>4, <1>5, <1>6 DEF FreshInv

\* The invariant is kept by every step.
LEMMA NextFresh == FreshInv /\ [Next]_vars => FreshInv'
<1> SUFFICES ASSUME FreshInv, [Next]_vars PROVE FreshInv'
    OBVIOUS
<1>1. TypeOK' BY NextTypes DEF FreshInv
<1>2. CASE \E j \in Jobs : JobStep(j)
    BY <1>2, JobStepFresh
<1>3. ASSUME NEW r \in Readers, Request(r) \/ ReaderStep(r) \/ BuildFails(r)
      PROVE  FreshInv'
    BY <1>1, <1>3, TakeFresh, BuildFresh, PublishFresh, RespondFresh,
       RequestFresh DEF ReaderStep
<1>4. CASE Restart
    BY <1>4, RestartFresh
<1>5. CASE UNCHANGED vars
    BY <1>1, <1>5
    DEF FreshInv, AnnouncementsInOrder, DiskIsNew, FilesInOrder, CacheIsNew,
        ResponsesAreNew, ReadersAreNew, ReaderIsNew, AsNewAs, vars, diskVars,
        cacheVars
<1> QED BY <1>2, <1>3, <1>4, <1>5 DEF Next

\* Every answer is as new as the last announcement before its request
\* (jobs.py:321-351, server.py:404-424), for every number of jobs, requests,
\* cache keys and invalidations.
THEOREM AnswersAreFresh == Spec => []AnswerIsFresh
<1>1. FreshInv => AnswerIsFresh
    BY DEF FreshInv, ReadersAreNew, ReaderIsNew, AnswerIsFresh
<1> QED BY <1>1, InitFresh, NextFresh, PTL DEF Spec

-----------------------------------------------------------------------------
(***************************************************************************)
(* The single builder.                                                     *)
(***************************************************************************)

\* A step that makes no request a builder, or stops one, keeps the property.
LEMMA SameBuilders ==
    ASSUME OneBuilder, building' = building,
           \A r \in Readers :
               reader'[r].pc \in Builders <=> reader[r].pc \in Builders
    PROVE  OneBuilder'
BY DEF OneBuilder

\* The builder stops, and says so.
LEMMA BuilderStops ==
    ASSUME OneBuilder, NEW r \in Readers, reader[r].pc \in Builders,
           building' = FALSE, reader'[r].pc \notin Builders,
           \A q \in Readers \ {r} :
               reader'[q].pc \in Builders <=> reader[q].pc \in Builders
    PROVE  OneBuilder'
BY DEF OneBuilder

\* A notified request was no builder and becomes none.
LEMMA NotifiedBuilders ==
    ASSUME TypeOK, NEW r \in Readers
    PROVE  Notified[r].pc \in Builders <=> reader[r].pc \in Builders
<1>1. reader[r] \in Reader BY DEF TypeOK
<1>2. CASE reader[r].pc = "waiting"
    BY <1>1, <1>2 DEF Notified, Reader, Builders
<1>3. CASE reader[r].pc # "waiting"
    BY <1>3 DEF Notified
<1> QED BY <1>2, <1>3

\* A request takes the snapshot, waits, or becomes the builder when there is
\* none.
LEMMA TakeBuilder ==
    ASSUME TypeOK, OneBuilder, NEW r \in Readers, Enter(r) \/ Wake(r)
    PROVE  OneBuilder'
<1>1. reader \in [Readers -> Reader] /\ reader[r] \in Reader
    BY DEF TypeOK
<1>2. reader[r].pc \notin Builders
    BY DEF Enter, Wake, Builders
<1>3. CASE Answer(r, cache)
    <2>1. /\ reader'[r].pc = "respond"
          /\ building' = building
          /\ \A q \in Readers \ {r} : reader'[q] = reader[q]
        BY <1>1, <1>3 DEF Answer, Reader
    <2> QED BY <1>2, <2>1, SameBuilders DEF Builders
<1>4. CASE BuildOrWait(r)
    <2>1. /\ building'
          /\ reader'[r].pc = IF building THEN "waiting" ELSE "read"
          /\ \A q \in Readers \ {r} : reader'[q] = reader[q]
        BY <1>1, <1>4 DEF BuildOrWait, Reader
    <2>2. CASE building
        <3>1. reader'[r].pc \notin Builders BY <2>1, <2>2 DEF Builders
        <3> QED BY <1>2, <2>1, <2>2, <3>1 DEF OneBuilder
    <2>3. CASE ~building
        <3>1. reader'[r].pc \in Builders BY <2>1, <2>3 DEF Builders
        <3>2. \A q \in Readers : reader[q].pc \notin Builders
            BY <2>3 DEF OneBuilder
        <3> QED BY <2>1, <3>1, <3>2 DEF OneBuilder
    <2> QED BY <2>2, <2>3
<1> QED BY <1>3, <1>4 DEF Enter, Wake

\* Every step of a request keeps the property.
LEMMA ReaderBuilder ==
    ASSUME TypeOK, OneBuilder, NEW r \in Readers,
           Request(r) \/ ReaderStep(r) \/ BuildFails(r)
    PROVE  OneBuilder'
<1>1. /\ reader \in [Readers -> Reader]
      /\ reader[r] \in Reader
      /\ Notified \in [Readers -> Reader]
    BY NotifiedTypes DEF TypeOK
<1>2. CASE Enter(r) \/ Wake(r)
    BY <1>2, TakeBuilder
<1>3. CASE ReadJobs(r) \/ \E j \in Jobs : Summarize(r, j)
    <2>1. /\ building' = building
          /\ reader[r].pc \in Builders
          /\ reader'[r].pc = "build"
          /\ \A q \in Readers \ {r} : reader'[q] = reader[q]
        <3>1. CASE ReadJobs(r)
            BY <1>1, <3>1 DEF ReadJobs, Reader, Builders, cacheVars
        <3>2. CASE \E j \in Jobs : Summarize(r, j)
            <4>1. PICK j \in Jobs : Summarize(r, j) BY <3>2
            <4> QED BY <1>1, <4>1 DEF Summarize, Reader, Builders, cacheVars
        <3> QED BY <1>3, <3>1, <3>2
    <2> QED BY <2>1, SameBuilders DEF Builders
<1>4. CASE \/ Request(r)
           \/ \E key \in Keys : Respond(r, key)
           \/ Finish(r)
    <2>1. /\ building' = building
          /\ reader[r].pc \notin Builders
          /\ reader'[r].pc \in {"enter", "answered", "idle"}
          /\ \A q \in Readers \ {r} : reader'[q] = reader[q]
        BY <1>1, <1>4, Values
        DEF Request, Respond, Finish, Reader, Builders, cacheVars
    <2> QED BY <2>1, SameBuilders DEF Builders
<1>5. CASE Publish(r) \/ BuildFails(r)
    <2>1. /\ building' = FALSE
          /\ reader[r].pc \in Builders
          /\ reader'[r].pc \in {"respond", "enter", "idle"}
          /\ \A q \in Readers \ {r} : reader'[q] = Notified[q]
        <3>1. CASE BuildFails(r)
            BY <1>1, <3>1, Values DEF BuildFails
        <3>2. CASE Publish(r) /\ reader[r].generation = generation
            BY <1>1, <3>2 DEF Publish, Reader, Builders
        <3>3. CASE Publish(r) /\ reader[r].generation # generation
            BY <1>1, <3>3 DEF Publish, IdleReader, Builders
        <3> QED BY <1>5, <3>1, <3>2, <3>3
    <2>2. reader'[r].pc \notin Builders BY <2>1 DEF Builders
    <2>3. \A q \in Readers \ {r} :
              reader'[q].pc \in Builders <=> reader[q].pc \in Builders
        BY <2>1, NotifiedBuilders
    <2> QED BY <2>1, <2>2, <2>3, BuilderStops
<1> QED BY <1>2, <1>3, <1>4, <1>5 DEF ReaderStep

\* A step of a job at most notifies.
LEMMA JobStepBuilder ==
    ASSUME TypeOK, OneBuilder, NEW j \in Jobs, JobStep(j)
    PROVE  OneBuilder'
<1>1. building' = building /\ (reader' = reader \/ reader' = Notified)
    BY DEF JobStep, CreateJob, DropJob, WriteReleasing, WriteReleased,
           WriteFinished, WriteSummary, AnnounceFinished, ClearCheck,
           ClearRemove, ClearAnnounce, Invalidate, cacheVars
<1> QED BY <1>1, NotifiedBuilders, SameBuilders

\* _results_building is set exactly while one request builds (jobs.py:334-346),
\* for every number of requests, failures and restarts.
THEOREM SingleBuilder == Spec => []OneBuilder
<1>1. Init => OneBuilder
    BY Values DEF Init, OneBuilder, Builders
<1>2. TypeOK /\ OneBuilder /\ [Next]_vars => OneBuilder'
    <2> SUFFICES ASSUME TypeOK, OneBuilder, [Next]_vars PROVE OneBuilder'
        OBVIOUS
    <2>1. CASE Restart
        BY <2>1, Values DEF Restart, OneBuilder, Builders
    <2>2. CASE UNCHANGED vars
        BY <2>2 DEF OneBuilder, vars, cacheVars
    <2> QED
        BY <2>1, <2>2, JobStepBuilder, ReaderBuilder DEF Next
<1> QED BY <1>1, <1>2, ResultsTypeCorrect, PTL DEF Spec
=============================================================================
