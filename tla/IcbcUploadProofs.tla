-------------------------- MODULE IcbcUploadProofs --------------------------
(***************************************************************************)
(* Theorems about IcbcUpload, for every set of VINs, vehicles and files    *)
(* and any number of uploads that overlap, fail or are killed.             *)
(***************************************************************************)
EXTENDS IcbcUpload, TLAPS

-----------------------------------------------------------------------------
\* Any number of uploads, at any time

\* Only an upload whose thread has ended has a filename.
EndedAreNamed == \A u \in Uploads : u \in named => thread[u].phase = "ended"

\* The uploads with a filename have a latest one.
HasLatest == named # {} => \E m \in named : \A x \in named : x <= m

\* A transaction writes rows of its own file, and has none before it starts.
WritesOwnFile ==
    \A u \in Uploads :
        /\ \A v \in Vins : thread[u].wrote[v] \in {NoVehicle, file[u][v]}
        /\ thread[u].phase \notin {"ingesting", "finishing"} => thread[u].wrote = NoFile

CoreInv ==
    /\ TypeOK
    /\ EndedAreNamed
    /\ HasLatest
    /\ WritesOwnFile
    /\ ReportedIsIngested
    /\ RowsOfIngestedFiles

-----------------------------------------------------------------------------
\* Lemmas

\* No file counts as a content.
LEMMA NoFileType == NoFile \in Contents
    BY DEF NoFile, Contents

\* A thread that has not begun is a thread.
LEMMA NoThreadType == NoThread \in Threads
    BY NoFileType, UploadBoundAssumption DEF NoThread, Threads, Phases, Ids

\* The maximum of a set that has one.
LEMMA MaxIs ==
    ASSUME NEW S \in SUBSET Int, NEW m \in S, \A x \in S : x <= m
    PROVE  Max(S) = m
<1> DEFINE P(x) == x \in S /\ \A y \in S : x >= y
<1>1. P(m)
    OBVIOUS
<1>2. P(CHOOSE x : P(x))
    BY <1>1, Zenon
<1>3. Max(S) = CHOOSE x : P(x)
    BY DEF Max
<1>4. P(Max(S))
    BY <1>2, <1>3, Zenon
<1>5. Max(S) \in S /\ Max(S) >= m
    BY <1>4
<1>6. Max(S) <= m /\ Max(S) \in Int /\ m \in Int
    BY <1>5
<1> QED
    BY <1>5, <1>6

\* The ids of uploads are integers.
LEMMA IdsAreInt == Ids \subseteq Int /\ Uploads \subseteq Ids
    BY UploadBoundAssumption DEF Ids, Uploads

\* An upload that is under way is compared with the latest one.
LEMMA PreviousIsLatest ==
    ASSUME CoreInv, NEW u \in Uploads, thread[u].phase # "ended", named \ {u} # {}
    PROVE  Previous(u) = Latest /\ Latest \in named /\ \A x \in named : x <= Latest
<1>1. named \ {u} = named
    BY DEF CoreInv, EndedAreNamed
<1>2. PICK m \in named : \A x \in named : x <= m
    BY DEF CoreInv, HasLatest
<1>3. Max(named) = m
    BY <1>2, MaxIs, IdsAreInt DEF CoreInv, TypeOK
<1> QED
    BY <1>1, <1>2, <1>3 DEF Previous, Latest

\* What End leaves of a thread.
LEMMA EndThread ==
    ASSUME TypeOK, NEW u \in Uploads, NEW phase \in Phases, End(u, phase)
    PROVE  /\ thread' \in [Uploads -> Threads]
           /\ thread'[u].phase = phase
           /\ thread'[u].wrote = NoFile
           /\ \A x \in Uploads : x # u => thread'[x] = thread[x]
<1>1. [NoThread EXCEPT !.phase = phase] \in Threads
    BY NoThreadType DEF Threads
<1> QED
    BY <1>1 DEF End, TypeOK, NoThread

-----------------------------------------------------------------------------
\* The invariant of all uploads holds at first.
LEMMA CoreInit == Init => CoreInv
<1> SUFFICES ASSUME Init PROVE CoreInv
    OBVIOUS
<1>1. TypeOK
    <2>1. \A f \in Files : f \in Contents
        BY FilesAssumption
    <2>2. 0 \in Ids
        BY UploadBoundAssumption DEF Ids
    <2> QED
        BY <2>1, <2>2, NoFileType, NoThreadType DEF Init, TypeOK
<1>2. \A u \in Uploads : u \notin named
    BY DEF Init, Uploads
<1>3. EndedAreNamed /\ ReportedIsIngested
    BY <1>2 DEF EndedAreNamed, ReportedIsIngested, Init
<1>4. HasLatest
    <2>1. named = {} \/ named = {0}
        BY DEF Init
    <2>2. 0 <= 0
        OBVIOUS
    <2> QED
        BY <2>1, <2>2 DEF HasLatest
<1>5. WritesOwnFile
    BY DEF Init, WritesOwnFile, NoThread, NoFile
<1>6. RowsOfIngestedFiles
    BY UploadBoundAssumption DEF Init, RowsOfIngestedFiles, NoFile, Ids
<1> QED
    BY <1>1, <1>3, <1>4, <1>5, <1>6 DEF CoreInv

\* An upload request keeps it.
LEMMA CoreUpload ==
    ASSUME CoreInv, NEW u \in Uploads, NEW f \in Files, Upload(u, f)
    PROVE  CoreInv'
<1> USE DEF CoreInv
<1>0. f \in Contents /\ u \in Ids /\ u \notin named
    BY FilesAssumption, IdsAreInt DEF Upload, EndedAreNamed
<1>1. /\ thread' \in [Uploads -> Threads]
      /\ \A x \in Uploads : thread'[x].wrote = thread[x].wrote
      /\ thread'[u].phase = "started"
      /\ \A x \in Uploads : x # u => thread'[x] = thread[x]
    BY DEF Upload, TypeOK, Threads, Phases
<1>2. TypeOK'
    BY <1>0, <1>1 DEF Upload, TypeOK
<1>3. \A x \in Ids : x # u => file'[x] = file[x]
    BY DEF Upload, TypeOK
<1>4. EndedAreNamed' /\ HasLatest' /\ ReportedIsIngested'
    BY <1>0, <1>1 DEF Upload, TypeOK, EndedAreNamed, HasLatest, ReportedIsIngested
<1>5. WritesOwnFile'
    <2>1. thread[u].wrote = NoFile
        BY DEF Upload, WritesOwnFile
    <2>2. thread'[u].wrote = NoFile /\ \A v \in Vins : NoFile[v] = NoVehicle
        BY <1>1, <2>1 DEF NoFile
    <2>3. \A x \in Uploads : x # u => thread'[x] = thread[x] /\ file'[x] = file[x]
        BY <1>1, <1>3, IdsAreInt
    <2>4. ASSUME NEW x \in Uploads
          PROVE  /\ \A v \in Vins : thread'[x].wrote[v] \in {NoVehicle, file'[x][v]}
                 /\ thread'[x].phase \notin {"ingesting", "finishing"} =>
                        thread'[x].wrote = NoFile
        BY <2>2, <2>3 DEF WritesOwnFile
    <2> QED
        BY <2>4 DEF WritesOwnFile
<1>6. RowsOfIngestedFiles'
    BY <1>0, <1>3 DEF Upload, RowsOfIngestedFiles, TypeOK
<1> QED
    BY <1>2, <1>4, <1>5, <1>6

\* A step of a thread that is neither its end nor a row.
LEMMA CoreThread ==
    ASSUME CoreInv, NEW u \in Uploads, NEW t \in Threads,
           thread' = [thread EXCEPT ![u] = t],
           t.wrote = thread[u].wrote,
           t.phase \in {"ingesting", "finishing"} \/ t.wrote = NoFile,
           thread[u].phase # "ended", t.phase # "ended",
           progress' = progress,
           bucket' \in SUBSET Ids,
           UNCHANGED <<file, named, data, overlapped>>
    PROVE  CoreInv'
<1> USE DEF CoreInv
<1>1. TypeOK'
    BY DEF TypeOK
<1>2. u \notin named
    BY DEF EndedAreNamed
<1>3. EndedAreNamed' /\ HasLatest' /\ ReportedIsIngested' /\ RowsOfIngestedFiles'
    BY <1>2 DEF TypeOK, EndedAreNamed, HasLatest, ReportedIsIngested, RowsOfIngestedFiles
<1>4. WritesOwnFile'
    BY DEF TypeOK, WritesOwnFile
<1> QED
    BY <1>1, <1>3, <1>4

\* Looking for the previous file keeps it.
LEMMA CoreFindPrevious ==
    ASSUME CoreInv, NEW u \in Uploads, FindPrevious(u)
    PROVE  CoreInv'
<1> DEFINE t == [thread[u] EXCEPT !.phase = "found", !.previous = Previous(u)]
<1>1. Previous(u) \in Ids
    BY PreviousIsLatest DEF FindPrevious, CoreInv, TypeOK
<1>2. t \in Threads /\ thread' = [thread EXCEPT ![u] = t]
    BY <1>1 DEF FindPrevious, CoreInv, TypeOK, Threads, Phases
<1>3. thread[u].wrote = NoFile
    BY DEF FindPrevious, CoreInv, WritesOwnFile
<1>4. thread[u] \in Threads
    BY DEF CoreInv, TypeOK
<1>5. t.phase = "found" /\ t.wrote = thread[u].wrote
    BY <1>4 DEF Threads
<1> HIDE DEF t
<1>6. bucket' \in SUBSET Ids
    BY DEF FindPrevious, CoreInv, TypeOK
<1> QED
    BY <1>2, <1>3, <1>5, <1>6, CoreThread DEF FindPrevious

\* Comparing the two files keeps it.
LEMMA CoreCompare ==
    ASSUME CoreInv, NEW u \in Uploads, Compare(u)
    PROVE  CoreInv'
<1> DEFINE todo == Changed(file[thread[u].previous], file[u])
           t == [thread[u] EXCEPT !.phase = "ingesting", !.todo = todo]
<1>1. todo \in SUBSET Vins
    BY DEF Changed
<1>2. thread[u] \in Threads
    BY DEF CoreInv, TypeOK
<1>3. t \in Threads /\ thread' = [thread EXCEPT ![u] = t]
    BY <1>1, <1>2 DEF Compare, CoreInv, TypeOK, Threads, Phases
<1>4. t.phase = "ingesting" /\ t.wrote = thread[u].wrote
    BY <1>2 DEF Threads
<1> HIDE DEF t
<1>5. bucket' \in SUBSET Ids
    BY DEF Compare, CoreInv, TypeOK
<1> QED
    BY <1>3, <1>4, <1>5, CoreThread DEF Compare

\* Removing the previous file keeps it.
LEMMA CoreRemovePrevious ==
    ASSUME CoreInv, NEW u \in Uploads, RemovePrevious(u)
    PROVE  CoreInv'
<1> DEFINE t == [thread[u] EXCEPT !.phase = "finishing"]
<1>1. thread[u] \in Threads
    BY DEF CoreInv, TypeOK
<1>2. t \in Threads /\ thread' = [thread EXCEPT ![u] = t]
    BY <1>1 DEF RemovePrevious, CoreInv, TypeOK, Threads, Phases
<1>3. t.phase = "finishing" /\ t.wrote = thread[u].wrote
    BY <1>1 DEF Threads
<1> HIDE DEF t
<1>4. bucket' \in SUBSET Ids
    BY DEF RemovePrevious, CoreInv, TypeOK
<1> QED
    BY <1>2, <1>3, <1>4, CoreThread DEF RemovePrevious

\* What ProcessRow does to the thread.
LEMMA RowThread ==
    ASSUME TypeOK, NEW u \in Uploads, NEW v \in Vins, ProcessRow(u, v)
    PROVE  /\ thread' \in [Uploads -> Threads]
           /\ \A x \in Uploads : x # u => thread'[x] = thread[x]
           /\ thread'[u].phase = "ingesting"
           /\ thread'[u].previous = thread[u].previous
           /\ thread'[u].todo = thread[u].todo \ {v}
           /\ thread'[u].wrote[v] = IF Read(u, v) = file[u][v] THEN thread[u].wrote[v]
                                    ELSE file[u][v]
           /\ \A y \in Vins : y # v => thread'[u].wrote[y] = thread[u].wrote[y]
<1> DEFINE new == IF Read(u, v) = file[u][v] THEN thread[u].wrote[v] ELSE file[u][v]
           t == [thread[u] EXCEPT !.todo = @ \ {v}, !.wrote[v] = new]
<1>1. thread[u] \in Threads /\ thread[u].wrote \in Contents /\ file[u] \in Contents
    BY IdsAreInt DEF TypeOK, Threads
<1>2. new \in Vehicles \cup {NoVehicle}
    BY <1>1 DEF Contents
<1>3. thread' = [thread EXCEPT ![u] = t]
    BY DEF ProcessRow, TypeOK
<1> HIDE DEF new
<1>4. [thread[u].wrote EXCEPT ![v] = new] \in Contents
    BY <1>1, <1>2 DEF Contents
<1>5. t \in Threads
    BY <1>1, <1>4 DEF Threads
<1>6. /\ t.phase = thread[u].phase /\ t.previous = thread[u].previous
      /\ t.todo = thread[u].todo \ {v}
      /\ t.wrote = [thread[u].wrote EXCEPT ![v] = new]
    BY <1>1 DEF Threads
<1>7. t.wrote[v] = new /\ \A y \in Vins : y # v => t.wrote[y] = thread[u].wrote[y]
    BY <1>1, <1>6 DEF Contents
<1> HIDE DEF t
<1> QED
    BY <1>3, <1>5, <1>6, <1>7 DEF ProcessRow, TypeOK, new

\* Ingesting a row keeps it.
LEMMA CoreProcessRow ==
    ASSUME CoreInv, NEW u \in Uploads, NEW v \in Vins, ProcessRow(u, v)
    PROVE  CoreInv'
<1> USE DEF CoreInv
<1>1. TypeOK'
    BY RowThread DEF ProcessRow, TypeOK
<1>2. u \notin named
    BY DEF EndedAreNamed, ProcessRow
<1>3. EndedAreNamed' /\ HasLatest' /\ ReportedIsIngested' /\ RowsOfIngestedFiles'
    BY <1>2, RowThread DEF ProcessRow, EndedAreNamed, HasLatest, ReportedIsIngested,
       RowsOfIngestedFiles
<1>4. WritesOwnFile'
    <2>1. file' = file
        BY DEF ProcessRow
    <2>2. \A y \in Vins : thread'[u].wrote[y] \in {NoVehicle, file[u][y]}
        BY RowThread DEF WritesOwnFile
    <2>3. thread'[u].phase = "ingesting" /\ \A x \in Uploads : x # u => thread'[x] = thread[x]
        BY RowThread
    <2> QED
        BY <2>1, <2>2, <2>3 DEF WritesOwnFile
<1> QED
    BY <1>1, <1>3, <1>4

\* Committing the transaction keeps it.
LEMMA CoreCommit ==
    ASSUME CoreInv, NEW u \in Uploads, Commit(u)
    PROVE  CoreInv'
<1> USE DEF CoreInv
<1>0. u \in Ids /\ End(u, "ended") /\ "ended" \in Phases
    BY IdsAreInt DEF Commit, Phases
<1>1. Written(u) \in Contents
    BY DEF Written, Read, TypeOK, Contents, Threads
<1>2. TypeOK'
    BY <1>0, <1>1, EndThread DEF Commit, TypeOK
<1>3. EndedAreNamed' /\ ReportedIsIngested'
    BY <1>0, EndThread DEF Commit, TypeOK, EndedAreNamed, ReportedIsIngested
<1>4. HasLatest'
    <2>1. CASE named = {}
        BY <2>1, <1>0, IdsAreInt DEF Commit, HasLatest
    <2>2. CASE named # {}
        <3>1. PICK m \in named : \A x \in named : x <= m
            BY <2>2 DEF HasLatest
        <3>2. m \in Int /\ u \in Int /\ named \subseteq Int
            BY <1>0, IdsAreInt DEF TypeOK
        <3> DEFINE n == IF u <= m THEN m ELSE u
        <3>3. n \in named \cup {u} /\ \A x \in named \cup {u} : x <= n
            BY <3>1, <3>2
        <3> QED
            BY <3>3 DEF Commit, HasLatest
    <2> QED
        BY <2>1, <2>2
<1>5. WritesOwnFile'
    BY <1>0, EndThread DEF Commit, WritesOwnFile, NoFile
<1>6. RowsOfIngestedFiles'
    <2> SUFFICES ASSUME NEW v \in Vins, data'[v] # NoVehicle
                 PROVE  \E x \in named \cup {u} : file[x][v] = data'[v]
        BY DEF Commit, RowsOfIngestedFiles
    <2>1. data'[v] = Read(u, v)
        BY DEF Commit, Written
    <2> QED
        BY <2>1 DEF Read, WritesOwnFile, RowsOfIngestedFiles
<1> QED
    BY <1>2, <1>3, <1>4, <1>5, <1>6

\* The end of a thread without a commit.
LEMMA CoreAbort ==
    ASSUME CoreInv, NEW u \in Uploads, NEW phase \in {"ended", "unheard", "dead"}, End(u, phase),
           thread[u].phase # "ended",
           progress' \in {progress, [progress EXCEPT ![u] = "error"]},
           UNCHANGED <<file, bucket, named, data, overlapped>>
    PROVE  CoreInv'
<1> USE DEF CoreInv
<1>1. phase \in Phases /\ u \notin named
    BY DEF Phases, EndedAreNamed
<1>2. TypeOK'
    BY <1>1, EndThread DEF TypeOK
<1>3. EndedAreNamed' /\ HasLatest' /\ ReportedIsIngested' /\ RowsOfIngestedFiles'
    BY <1>1, EndThread DEF TypeOK, EndedAreNamed, HasLatest, ReportedIsIngested,
       RowsOfIngestedFiles
<1>4. WritesOwnFile'
    BY <1>1, EndThread DEF WritesOwnFile, NoFile
<1> QED
    BY <1>2, <1>3, <1>4

\* Refuse, Fail and Die end a thread that was under way.
LEMMA AbortKinds ==
    ASSUME NEW u \in Uploads, Refuse(u) \/ Fail(u) \/ Die(u)
    PROVE  /\ Active(u)
           /\ \/ End(u, "ended") /\ progress' = [progress EXCEPT ![u] = "error"]
              \/ (End(u, "unheard") \/ End(u, "dead")) /\ progress' = progress
           /\ UNCHANGED <<file, bucket, named, data, overlapped>>
<1>1. Deadlocked(u) => thread[u].phase = "ingesting"
    BY DEF Deadlocked
<1> QED
    BY <1>1 DEF Refuse, Fail, Die, Except, ReportError, Active

\* Every step keeps the invariant of all uploads.
LEMMA CoreStep == CoreInv /\ [Next]_vars => CoreInv'
<1> SUFFICES ASSUME CoreInv, [Next]_vars PROVE CoreInv'
    OBVIOUS
<1>1. ASSUME NEW u \in Uploads, NEW f \in Files, Upload(u, f) PROVE CoreInv'
    BY <1>1, CoreUpload
<1>2. ASSUME NEW u \in Uploads, FindPrevious(u) PROVE CoreInv'
    BY <1>2, CoreFindPrevious
<1>3. ASSUME NEW u \in Uploads, Compare(u) PROVE CoreInv'
    BY <1>3, CoreCompare
<1>4. ASSUME NEW u \in Uploads, NEW v \in Vins, ProcessRow(u, v) PROVE CoreInv'
    BY <1>4, CoreProcessRow
<1>5. ASSUME NEW u \in Uploads, RemovePrevious(u) PROVE CoreInv'
    BY <1>5, CoreRemovePrevious
<1>6. ASSUME NEW u \in Uploads, Commit(u) PROVE CoreInv'
    BY <1>6, CoreCommit
<1>7. ASSUME NEW u \in Uploads, Refuse(u) \/ Fail(u) \/ Die(u) PROVE CoreInv'
    BY <1>7, AbortKinds, CoreAbort DEF Active
<1>8. CASE UNCHANGED vars
    BY <1>8 DEF vars, CoreInv, TypeOK, EndedAreNamed, HasLatest, WritesOwnFile,
       ReportedIsIngested, RowsOfIngestedFiles
<1> QED
    BY <1>1, <1>2, <1>3, <1>4, <1>5, <1>6, <1>7, <1>8 DEF Next, Advance

\* The invariant of all uploads always holds.
LEMMA CoreAlways == Spec => []CoreInv
    BY CoreInit, CoreStep, PTL DEF Spec

\* Every variable keeps its type.
THEOREM TypeCorrect == Spec => []TypeOK
<1>1. CoreInv => TypeOK
    BY DEF CoreInv
<1> QED
    BY <1>1, CoreAlways, PTL

\* An upload is reported complete exactly when it is ingested.
THEOREM ReportsAreTrue == Spec => []ReportedIsIngested
<1>1. CoreInv => ReportedIsIngested
    BY DEF CoreInv
<1> QED
    BY <1>1, CoreAlways, PTL

\* Uploads are ingested completely or not at all.
THEOREM AllOrNothing == Spec => []RowsOfIngestedFiles
<1>1. CoreInv => RowsOfIngestedFiles
    BY DEF CoreInv
<1> QED
    BY <1>1, CoreAlways, PTL

-----------------------------------------------------------------------------
\* Uploads that do not overlap

\* Uploads are started one after the other, and an error is the end of a thread.
StartedInOrder ==
    /\ \A x, y \in Uploads :
           x < y /\ thread[y].phase # "none" => thread[x].phase # "none"
    /\ \A u \in Uploads : progress[u] = "error" => thread[u].phase = "ended"

\* The upload under way is the only one, the last one, and its file is there.
OneAtATime ==
    \A u \in Uploads : Active(u) =>
        /\ \A x \in Uploads : thread[x].phase # "none" => x <= u
        /\ \A x \in Uploads : Active(x) => x = u
        /\ u \in bucket

\* It is compared with the latest file, and what is not to do any more is done.
Compared ==
    \A u \in Uploads :
        /\ thread[u].phase \in {"found", "ingesting", "finishing"} =>
               named # {} /\ thread[u].previous = Latest
        /\ thread[u].phase \in {"ingesting", "finishing"} =>
               \A v \in Vins : \/ v \in thread[u].todo
                               \/ file[u][v] \in {NoVehicle, Read(u, v)}
        /\ thread[u].phase = "finishing" => thread[u].todo = {}

\* While nothing went wrong and nothing is being finished, the latest file is there.
Kept ==
    \/ named = {}
    \/ \E u \in Uploads : \/ progress[u] = "error"
                          \/ thread[u].phase \in {"unheard", "dead", "finishing"}
    \/ Latest \in bucket

LatestIngested == named # {} => \A v \in Vins : file[Latest][v] \in {NoVehicle, data[v]}

SerialInv ==
    /\ CoreInv
    /\ StartedInOrder
    /\ ~overlapped => OneAtATime /\ Compared /\ Kept /\ LatestIngested

-----------------------------------------------------------------------------
\* The latest upload, and what keeps it the latest.
LEMMA LatestIs ==
    ASSUME CoreInv, named # {}
    PROVE  Latest \in named /\ \A x \in named : x <= Latest
<1>1. PICK m \in named : \A x \in named : x <= m
    BY DEF CoreInv, HasLatest
<1>2. Max(named) = m
    BY <1>1, MaxIs, IdsAreInt DEF CoreInv, TypeOK
<1> QED
    BY <1>1, <1>2 DEF Latest

\* The invariant of uploads one at a time holds at first.
LEMMA SerialInit == Init => SerialInv
<1> SUFFICES ASSUME Init PROVE SerialInv
    OBVIOUS
<1>1. CoreInv
    BY CoreInit
<1>2. \A u \in Uploads : thread[u].phase = "none"
    BY DEF Init, NoThread
<1>3. StartedInOrder /\ OneAtATime /\ Compared
    BY <1>2 DEF StartedInOrder, OneAtATime, Compared, Active, Init
<1>4. named # {} => Latest = 0 /\ 0 \in bucket
    <2>1. named # {} => named = {0}
        BY DEF Init
    <2> QED
        BY <1>1, <2>1, LatestIs DEF Init
<1>5. Kept
    BY <1>4 DEF Kept
<1>6. LatestIngested
    <2>1. data = file[0]
        BY DEF Init
    <2> QED
        BY <1>4, <2>1 DEF LatestIngested
<1> QED
    BY <1>1, <1>3, <1>5, <1>6 DEF SerialInv

\* Threads keep having been started, whatever they do.
LEMMA OrderStep == CoreInv /\ StartedInOrder /\ [Next]_vars => StartedInOrder'
<1> SUFFICES ASSUME CoreInv, StartedInOrder, [Next]_vars PROVE StartedInOrder'
    OBVIOUS
<1> USE DEF StartedInOrder
<1>1. ASSUME NEW u \in Uploads, NEW f \in Files, Upload(u, f) PROVE StartedInOrder'
    <2>1. /\ \A x \in Uploads : x # u => thread'[x] = thread[x]
          /\ thread'[u].phase = "started"
        BY <1>1 DEF Upload, CoreInv, TypeOK, Threads
    <2> QED
        BY <1>1, <2>1 DEF Upload, CoreInv, TypeOK
<1>2. ASSUME NEW u \in Uploads, Advance(u) \/ Fail(u) \/ Die(u) PROVE StartedInOrder'
    <2>1. \A x \in Uploads : x # u => thread'[x] = thread[x]
        BY <1>2 DEF Advance, FindPrevious, Compare, ProcessRow, RemovePrevious, Commit,
           Refuse, Fail, Die, Except, ReportError, End, CoreInv, TypeOK
    <2>2. thread[u].phase # "none"
        BY <1>2, AbortKinds DEF Advance, FindPrevious, Compare, ProcessRow,
           RemovePrevious, Commit, Active
    <2>3. thread'[u].phase # "none"
        <3>1. CASE Refuse(u) \/ Fail(u) \/ Die(u) \/ Commit(u)
            BY <3>1, AbortKinds, EndThread DEF Phases, Commit, CoreInv
        <3>2. CASE FindPrevious(u) \/ Compare(u) \/ RemovePrevious(u)
            BY <3>2 DEF FindPrevious, Compare, RemovePrevious, CoreInv, TypeOK, Threads
        <3>3. CASE \E v \in Vins : ProcessRow(u, v)
            BY <3>3, RowThread DEF CoreInv
        <3> QED
            BY <1>2, <3>1, <3>2, <3>3 DEF Advance
    <2>4. \A x \in Uploads : x # u => progress'[x] = progress[x]
        BY <1>2 DEF Advance, FindPrevious, Compare, ProcessRow, RemovePrevious, Commit,
           Refuse, Fail, Die, Except, ReportError, CoreInv, TypeOK
    <2>5. progress'[u] = "error" => thread'[u].phase = "ended"
        <3>1. CASE Refuse(u) \/ Fail(u) \/ Die(u)
            <4>1. Active(u) /\ progress[u] # "error"
                BY <3>1, AbortKinds DEF Active
            <4>2. CASE End(u, "ended")
                BY <4>2, EndThread DEF Phases, CoreInv
            <4>3. CASE End(u, "unheard") \/ End(u, "dead")
                BY <3>1, <4>1, <4>3, AbortKinds, EndThread DEF Phases, CoreInv
            <4> QED
                BY <3>1, <4>2, <4>3, AbortKinds
        <3>2. CASE Commit(u)
            BY <3>2 DEF Commit, CoreInv, TypeOK
        <3>3. CASE ~(Refuse(u) \/ Fail(u) \/ Die(u) \/ Commit(u))
            <4>1. progress' = progress /\ thread[u].phase \notin {"ended", "unheard", "dead"}
                BY <1>2, <3>3 DEF Advance, FindPrevious, Compare, ProcessRow, RemovePrevious
            <4> QED
                BY <4>1
        <3> QED
            BY <3>1, <3>2, <3>3
    <2> QED
        BY <2>1, <2>2, <2>3, <2>4, <2>5
<1>3. CASE UNCHANGED vars
    BY <1>3 DEF vars
<1> QED
    BY <1>1, <1>2, <1>3 DEF Next

\* The properties of uploads that do not overlap, apart from their order.
NoOverlapInv == OneAtATime /\ Compared /\ Kept /\ LatestIngested

\* A new upload while none is under way.
LEMMA SerialUpload ==
    ASSUME SerialInv, NEW u \in Uploads, NEW f \in Files, Upload(u, f), ~overlapped'
    PROVE  NoOverlapInv'
<1> USE DEF SerialInv, CoreInv
<1>1. ~overlapped /\ \A x \in Uploads : ~Active(x)
    BY DEF Upload
<1>2. /\ \A x \in Uploads : x # u => thread'[x] = thread[x]
      /\ thread'[u].phase = "started"
      /\ thread[u].phase = "none"
    BY DEF Upload, TypeOK, Threads
<1>3. /\ \A x \in Ids : x # u => file'[x] = file[x]
      /\ bucket' = bucket \cup {u}
      /\ named' = named /\ data' = data
      /\ \A x \in Uploads : x # u => progress'[x] = progress[x]
    BY DEF Upload, TypeOK
<1>4. Latest' = Latest
    BY <1>3 DEF Latest
<1>5. \A x \in Uploads : Active(x)' => x = u
    BY <1>1, <1>2 DEF Active
<1>6. OneAtATime'
    <2>1. ASSUME NEW x \in Uploads, thread'[x].phase # "none" PROVE x <= u
        BY <2>1, <1>2, IdsAreInt DEF StartedInOrder
    <2> QED
        BY <2>1, <1>3, <1>5 DEF OneAtATime
<1>7. Compared'
    BY <1>2, <1>5 DEF Compared, Active
<1>8. Kept'
    <2>1. progress[u] # "error"
        BY <1>2 DEF StartedInOrder
    <2> QED
        BY <2>1, <1>1, <1>2, <1>3, <1>4 DEF Kept
<1>9. LatestIngested'
    <2>1. named # {} => Latest \in Ids /\ Latest # u
        BY <1>2, LatestIs DEF TypeOK, EndedAreNamed
    <2> QED
        BY <2>1, <1>1, <1>3, <1>4 DEF LatestIngested
<1> QED
    BY <1>6, <1>7, <1>8, <1>9 DEF NoOverlapInv

\* What a step leaves alone that changes the thread of u, goes on with it, and
\* writes no filename and no data.
LEMMA SerialThread ==
    ASSUME SerialInv, ~overlapped, NEW u \in Uploads, Active(u), Active(u)',
           \A x \in Uploads : x # u => thread'[x] = thread[x] /\ progress'[x] = progress[x],
           bucket' = bucket, UNCHANGED <<file, named, data>>,
           thread[u].phase # "finishing"
    PROVE  OneAtATime' /\ Kept' /\ LatestIngested' /\ Latest' = Latest
<1> USE DEF SerialInv
<1>1. Latest' = Latest
    BY DEF Latest
<1>2. OneAtATime'
    BY DEF OneAtATime, Active
<1>3. Kept'
    <2>1. progress[u] # "error"
        BY DEF StartedInOrder, Active
    <2> QED
        BY <1>1, <2>1 DEF Kept, Active
<1>4. LatestIngested'
    BY <1>1 DEF LatestIngested
<1> QED
    BY <1>1, <1>2, <1>3, <1>4

\* Looking for the previous file keeps it.
LEMMA SerialFindPrevious ==
    ASSUME SerialInv, ~overlapped, NEW u \in Uploads, FindPrevious(u)
    PROVE  NoOverlapInv'
<1> USE DEF SerialInv, CoreInv
<1>1. /\ \A x \in Uploads : x # u => thread'[x] = thread[x] /\ progress'[x] = progress[x]
      /\ thread'[u].phase = "found" /\ thread'[u].previous = Previous(u)
    BY DEF FindPrevious, TypeOK, Threads
<1>2. thread[u].phase = "started" /\ Active(u) /\ Active(u)'
    BY <1>1 DEF FindPrevious, Active
<1>3. OneAtATime' /\ Kept' /\ LatestIngested' /\ Latest' = Latest
    BY <1>1, <1>2, SerialThread DEF FindPrevious
<1>4. named # {} /\ Previous(u) = Latest
    BY PreviousIsLatest DEF FindPrevious
<1>5. Compared'
    <2>1. \A x \in Uploads : Active(x) => x = u
        BY <1>2 DEF OneAtATime
    <2> QED
        BY <1>1, <1>3, <1>4, <2>1 DEF Compared, Active, FindPrevious
<1> QED
    BY <1>3, <1>5 DEF NoOverlapInv

\* Comparing the two files keeps it.
LEMMA SerialCompare ==
    ASSUME SerialInv, ~overlapped, NEW u \in Uploads, Compare(u)
    PROVE  NoOverlapInv'
<1> USE DEF SerialInv, CoreInv
<1>1. /\ \A x \in Uploads : x # u => thread'[x] = thread[x] /\ progress'[x] = progress[x]
      /\ thread'[u].phase = "ingesting" /\ thread'[u].previous = thread[u].previous
      /\ thread'[u].wrote = thread[u].wrote
      /\ thread'[u].todo = Changed(file[thread[u].previous], file[u])
    BY DEF Compare, TypeOK, Threads
<1>2. thread[u].phase = "found" /\ Active(u) /\ Active(u)'
    BY <1>1 DEF Compare, Active
<1>3. OneAtATime' /\ Kept' /\ LatestIngested' /\ Latest' = Latest
    BY <1>1, <1>2, SerialThread DEF Compare
<1>4. named # {} /\ thread[u].previous = Latest
    BY <1>2 DEF Compared
<1>5. ASSUME NEW v \in Vins, v \notin thread'[u].todo
      PROVE  file'[u][v] \in {NoVehicle, Read(u, v)'}
    <2>1. thread[u].wrote = NoFile /\ NoFile[v] = NoVehicle
        BY <1>2 DEF WritesOwnFile, NoFile
    <2>2. Read(u, v)' = data[v] /\ file' = file
        BY <1>1, <2>1 DEF Read, Compare
    <2>3. file[u][v] \in {NoVehicle, file[Latest][v]}
        BY <1>1, <1>4, <1>5 DEF Changed
    <2> QED
        BY <1>4, <2>2, <2>3 DEF LatestIngested
<1>6. Compared'
    <2>1. \A x \in Uploads : Active(x) => x = u
        BY <1>2 DEF OneAtATime
    <2> QED
        BY <1>1, <1>3, <1>4, <1>5, <2>1 DEF Compared, Active, Compare
<1> QED
    BY <1>3, <1>6 DEF NoOverlapInv

\* Ingesting a row keeps it.
LEMMA SerialProcessRow ==
    ASSUME SerialInv, ~overlapped, NEW u \in Uploads, NEW v \in Vins, ProcessRow(u, v)
    PROVE  NoOverlapInv'
<1> USE DEF SerialInv, CoreInv
<1>1. thread[u].phase = "ingesting" /\ Active(u) /\ Active(u)'
    BY RowThread DEF ProcessRow, Active
<1>2. OneAtATime' /\ Kept' /\ LatestIngested' /\ Latest' = Latest
    BY <1>1, RowThread, SerialThread DEF ProcessRow
<1>3. named # {} /\ thread[u].previous = Latest
    BY <1>1 DEF Compared
<1>4. ASSUME NEW y \in Vins, y \notin thread'[u].todo
      PROVE  file'[u][y] \in {NoVehicle, Read(u, y)'}
    <2>1. data' = data /\ file' = file
        BY DEF ProcessRow
    <2>2. CASE y = v
        BY <2>1, <2>2, RowThread DEF Read
    <2>3. CASE y # v
        <3>1. y \notin thread[u].todo
            BY <1>4, <2>3, RowThread
        <3>2. Read(u, y)' = Read(u, y)
            BY <2>1, <2>3, RowThread DEF Read
        <3> QED
            BY <1>1, <2>1, <3>1, <3>2 DEF Compared
    <2> QED
        BY <2>2, <2>3
<1>5. Compared'
    <2>1. \A x \in Uploads : Active(x) => x = u
        BY <1>1 DEF OneAtATime
    <2>2. \A x \in Uploads : x # u =>
              thread'[x].phase \notin {"found", "ingesting", "finishing"}
        BY <2>1, RowThread DEF Active
    <2> QED
        BY <1>2, <1>3, <1>4, <2>2, RowThread DEF Compared, ProcessRow
<1> QED
    BY <1>2, <1>5 DEF NoOverlapInv

\* Removing the previous file keeps it.
LEMMA SerialRemovePrevious ==
    ASSUME SerialInv, ~overlapped, NEW u \in Uploads, RemovePrevious(u)
    PROVE  NoOverlapInv'
<1> USE DEF SerialInv, CoreInv
<1>1. /\ \A x \in Uploads : x # u => thread'[x] = thread[x]
      /\ thread'[u].phase = "finishing" /\ thread'[u].previous = thread[u].previous
      /\ thread'[u].wrote = thread[u].wrote /\ thread'[u].todo = thread[u].todo
    BY DEF RemovePrevious, TypeOK, Threads
<1>2. thread[u].phase = "ingesting" /\ Active(u) /\ Active(u)'
    BY <1>1 DEF RemovePrevious, Active
<1>3. Latest' = Latest
    BY DEF RemovePrevious, Latest
<1>4. named # {} /\ thread[u].previous = Latest /\ Latest \in named /\ u \notin named
    BY <1>2, LatestIs DEF Compared, EndedAreNamed
<1>5. OneAtATime'
    BY <1>1, <1>2, <1>4 DEF OneAtATime, Active, RemovePrevious
<1>6. Kept'
    BY <1>1 DEF Kept
<1>7. LatestIngested'
    BY <1>3 DEF LatestIngested, RemovePrevious
<1>8. Compared'
    <2>1. \A x \in Uploads : Active(x) => x = u
        BY <1>2 DEF OneAtATime
    <2>2. \A x \in Uploads : x # u =>
              thread'[x].phase \notin {"found", "ingesting", "finishing"}
        BY <1>1, <2>1 DEF Active
    <2>3. \A v \in Vins : Read(u, v)' = Read(u, v)
        BY <1>1 DEF Read, RemovePrevious
    <2>4. \A v \in Vins : file[u][v] \in {NoVehicle, Read(u, v)}
        BY <1>2 DEF Compared, RemovePrevious
    <2> QED
        BY <1>1, <1>3, <1>4, <2>2, <2>3, <2>4 DEF Compared, RemovePrevious
<1> QED
    BY <1>5, <1>6, <1>7, <1>8 DEF NoOverlapInv

\* Committing the transaction keeps it.
LEMMA SerialCommit ==
    ASSUME SerialInv, ~overlapped, NEW u \in Uploads, Commit(u)
    PROVE  NoOverlapInv'
<1> USE DEF SerialInv, CoreInv
<1>1. /\ \A x \in Uploads : x # u => thread'[x] = thread[x]
      /\ thread'[u].phase = "ended"
    BY EndThread DEF Commit, Phases
<1>2. thread[u].phase = "finishing" /\ Active(u)
    BY DEF Commit, Active
<1>3. \A x \in Uploads : ~Active(x)' /\ thread'[x].phase \notin {"found", "ingesting", "finishing"}
    BY <1>1, <1>2 DEF OneAtATime, Active
<1>4. named' = named \cup {u} /\ u \in Ids /\ Ids \subseteq Int
    BY IdsAreInt DEF Commit
<1>5. \A x \in named : x <= u
    <2>1. \A x \in Ids : x \in Uploads \/ x = 0
        BY UploadBoundAssumption DEF Ids, Uploads
    <2>2. 0 <= u
        BY UploadBoundAssumption DEF Uploads
    <2>3. \A x \in named : x \in Ids
        BY DEF TypeOK
    <2>4. \A x \in named : x \in Uploads => thread[x].phase # "none"
        BY DEF EndedAreNamed
    <2> QED
        BY <1>2, <2>1, <2>2, <2>3, <2>4 DEF OneAtATime
<1>6. Latest' = u
    <2>1. named \cup {u} \in SUBSET Int /\ \A x \in named \cup {u} : x <= u
        BY <1>4, <1>5 DEF TypeOK
    <2> QED
        BY <1>4, <2>1, MaxIs DEF Latest
<1>7. Kept'
    BY <1>2, <1>6 DEF Kept, OneAtATime, Commit
<1>8. LatestIngested'
    <2>1. \A v \in Vins : data'[v] = Read(u, v)
        BY DEF Commit, Written
    <2>2. \A v \in Vins : file[u][v] \in {NoVehicle, Read(u, v)}
        BY <1>2 DEF Compared
    <2> QED
        BY <1>6, <2>1, <2>2 DEF LatestIngested, Commit
<1> QED
    BY <1>3, <1>7, <1>8 DEF NoOverlapInv, OneAtATime, Compared

\* Rolling the transaction back keeps it.
LEMMA SerialAbort ==
    ASSUME SerialInv, ~overlapped, NEW u \in Uploads, Refuse(u) \/ Fail(u) \/ Die(u)
    PROVE  NoOverlapInv'
<1> USE DEF SerialInv, CoreInv
<1>1. /\ Active(u)
      /\ \/ End(u, "ended") /\ progress' = [progress EXCEPT ![u] = "error"]
         \/ (End(u, "unheard") \/ End(u, "dead")) /\ progress' = progress
      /\ UNCHANGED <<file, bucket, named, data, overlapped>>
    BY AbortKinds
<1>2. \A x \in Uploads : x # u => thread'[x] = thread[x]
    BY <1>1, EndThread DEF Phases
<1>3. progress'[u] = "error" \/ thread'[u].phase \in {"unheard", "dead"}
    BY <1>1, EndThread DEF Phases, TypeOK
<1>4. thread'[u].phase \in {"ended", "unheard", "dead"}
    BY <1>1, EndThread DEF Phases
<1>5. \A x \in Uploads : ~Active(x)' /\ thread'[x].phase \notin {"found", "ingesting", "finishing"}
    BY <1>1, <1>2, <1>4 DEF OneAtATime, Active
<1>6. Kept'
    BY <1>3 DEF Kept
<1>7. LatestIngested'
    BY <1>1 DEF LatestIngested, Latest
<1> QED
    BY <1>5, <1>6, <1>7 DEF NoOverlapInv, OneAtATime, Compared

\* Every step keeps the invariant of uploads one at a time.
LEMMA SerialStep == SerialInv /\ [Next]_vars => SerialInv'
<1> SUFFICES ASSUME SerialInv, [Next]_vars PROVE SerialInv'
    OBVIOUS
<1>1. CoreInv' /\ StartedInOrder'
    BY CoreStep, OrderStep DEF SerialInv
<1> SUFFICES ASSUME ~overlapped' PROVE NoOverlapInv'
    BY <1>1 DEF SerialInv, NoOverlapInv
<1>2. ~overlapped
    BY DEF Next, Upload, Advance, FindPrevious, Compare, ProcessRow, RemovePrevious,
       Commit, Refuse, Fail, Die, Except, ReportError, vars
<1>3. ASSUME NEW u \in Uploads, NEW f \in Files, Upload(u, f) PROVE NoOverlapInv'
    BY <1>3, SerialUpload
<1>4. ASSUME NEW u \in Uploads, FindPrevious(u) PROVE NoOverlapInv'
    BY <1>2, <1>4, SerialFindPrevious
<1>5. ASSUME NEW u \in Uploads, Compare(u) PROVE NoOverlapInv'
    BY <1>2, <1>5, SerialCompare
<1>6. ASSUME NEW u \in Uploads, NEW v \in Vins, ProcessRow(u, v) PROVE NoOverlapInv'
    BY <1>2, <1>6, SerialProcessRow
<1>7. ASSUME NEW u \in Uploads, RemovePrevious(u) PROVE NoOverlapInv'
    BY <1>2, <1>7, SerialRemovePrevious
<1>8. ASSUME NEW u \in Uploads, Commit(u) PROVE NoOverlapInv'
    BY <1>2, <1>8, SerialCommit
<1>9. ASSUME NEW u \in Uploads, Refuse(u) \/ Fail(u) \/ Die(u) PROVE NoOverlapInv'
    BY <1>2, <1>9, SerialAbort
<1>10. CASE UNCHANGED vars
    BY <1>2, <1>10 DEF vars, SerialInv, NoOverlapInv, OneAtATime, Compared, Kept,
       LatestIngested, Latest, Active, Read
<1> QED
    BY <1>3, <1>4, <1>5, <1>6, <1>7, <1>8, <1>9, <1>10 DEF Next, Advance

\* Unless uploads overlap, the data agrees with the file uploaded last.
THEOREM LastFileIsIngested == Spec => []DataAgreesWithLatest
<1>1. SerialInv => DataAgreesWithLatest
    BY DEF SerialInv, LatestIngested, DataAgreesWithLatest
<1> QED
    BY <1>1, SerialInit, SerialStep, PTL DEF Spec

\* Unless uploads overlap, fail or are killed, the next one finds its previous file.
THEOREM PreviousIsKept == Spec => []PreviousKept
<1>1. SerialInv => PreviousKept
    BY DEF SerialInv, Kept, PreviousKept, AtRest, Active
<1> QED
    BY <1>1, SerialInit, SerialStep, PTL DEF Spec
=============================================================================
