----------------------------- MODULE IcbcUpload -----------------------------
(***************************************************************************)
(* Uploads of ICBC registration data.  The browser puts a file into the    *)
(* bucket and POSTs its name; the request makes an icbc_upload_date row    *)
(* and a progress row, starts a thread and answers.  The thread compares   *)
(* the file with the one uploaded last, writes the rows that differ in one *)
(* transaction, and removes the older file before it commits.              *)
(*                                                                         *)
(* The thread may start before the request's rows are committed, but its   *)
(* first progress update waits for them (unique upload_id), so a POST is   *)
(* one step here.  Progress is unfinished until the thread has an answer:  *)
(* "complete" is written in the transaction, "error" after the rollback,   *)
(* both through the connection that the transaction uses; the percentages  *)
(* between them, which may get lost, are left out.                         *)
(***************************************************************************)
EXTENDS Integers, FiniteSetsExt

CONSTANTS
    Vins,          \* VINs that a file may list
    Vehicles,      \* (model year, make, model)
    Files,         \* contents of files, see Contents
    UploadBound    \* how many files are uploaded

NoVehicle == "none"

\* A file lists each VIN at most once; compare_dataframes drops repeated rows.
Contents == [Vins -> Vehicles \cup {NoVehicle}]

ASSUME FilesAssumption == Files \subseteq Contents
ASSUME UploadBoundAssumption == UploadBound \in Nat
ASSUME NoVehicleAssumption == NoVehicle \notin Vehicles

\* Ids are given in the order of create_timestamp.  0 is what was ingested before.
Ids == 0 .. UploadBound
Uploads == 1 .. UploadBound

NoFile == [v \in Vins |-> NoVehicle]

VARIABLES
    file,       \* the content of the file of each upload
    bucket,     \* external: the uploads whose file is in the bucket
    named,      \* the uploads whose icbc_upload_date row has a filename
    progress,   \* icbc_upload_progress rows
    data,       \* icbc_registration_data rows: the vehicle of each VIN
    thread,     \* the thread of each upload
    overlapped  \* history: an upload was started while another was under way

vars == <<file, bucket, named, progress, data, thread, overlapped>>

\* A thread has "ended" when its answer is written, is "unheard" when it has ended
\* and the answer could not be written, and "dead" when it was killed.
Phases == {"none", "started", "found", "ingesting", "finishing", "ended", "unheard", "dead"}

\* previous is the upload to compare with, todo the VINs still to be processed
\* and wrote the rows that the open transaction has inserted or updated.
Threads == [ phase : Phases, previous : Ids, todo : SUBSET Vins, wrote : Contents ]

NoThread == [phase |-> "none", previous |-> 0, todo |-> {}, wrote |-> NoFile]

TypeOK ==
    /\ file \in [Ids -> Contents]
    /\ bucket \subseteq Ids
    /\ named \subseteq Ids
    /\ progress \in [Uploads -> {"none", "unfinished", "complete", "error"}]
    /\ data \in Contents
    /\ thread \in [Uploads -> Threads]
    /\ overlapped \in BOOLEAN

-----------------------------------------------------------------------------
Active(u) == thread[u].phase \in {"started", "found", "ingesting", "finishing"}

\* Another open transaction has written the row of v and holds its lock.
Locked(u, v) == \E x \in Uploads \ {u} : thread[x].wrote[v] # NoVehicle

\* The vehicle of v as the transaction of u reads it.
Read(u, v) == IF thread[u].wrote[v] # NoVehicle THEN thread[u].wrote[v] ELSE data[v]

\* compare_dataframes: rows of the latest file that the previous one does not have.
Changed(previous, latest) == {v \in Vins : latest[v] \notin {NoVehicle, previous[v]}}

\* .latest("create_timestamp") among the other uploads with a filename.
Previous(u) == Max(named \ {u})

\* A row that needs no lock or whose lock is free.
Processable(u, v) == data[v] = file[u][v] \/ ~Locked(u, v)

\* Every upload of a set waits for a row that another one of the set has written.
Deadlocked(u) ==
    \E S \in SUBSET Uploads :
        /\ u \in S
        /\ \A x \in S :
               /\ thread[x].phase = "ingesting" /\ thread[x].todo # {}
               /\ \A v \in thread[x].todo :
                      /\ ~Processable(x, v)
                      /\ \E y \in S \ {x} : thread[y].wrote[v] # NoVehicle

\* Either a file was ingested before or, in a new database, none.
Init ==
    /\ named \in SUBSET {0}
    /\ bucket = named
    /\ \E f \in Files : file = [u \in Ids |-> IF u \in named THEN f ELSE NoFile]
    /\ data = file[0]
    /\ progress = [u \in Uploads |-> "none"]
    /\ thread = [u \in Uploads |-> NoThread]
    /\ overlapped = FALSE

\* upload: the thread is started by the request that makes the rows.
Upload(u, f) ==
    /\ thread[u].phase = "none"
    /\ \A x \in Uploads : x < u => thread[x].phase # "none"
    /\ file' = [file EXCEPT ![u] = f]
    /\ bucket' = bucket \cup {u}
    /\ progress' = [progress EXCEPT ![u] = "unfinished"]
    /\ thread' = [thread EXCEPT ![u].phase = "started"]
    /\ overlapped' = (overlapped \/ \E x \in Uploads : Active(x))
    /\ UNCHANGED <<named, data>>

-----------------------------------------------------------------------------
\* Steps of process_upload

\* Looks up the upload to compare with.  (The progress must be 0, and it is: no
\* one else updates it.)
FindPrevious(u) ==
    /\ thread[u].phase = "started"
    /\ named \ {u} # {}
    /\ thread' = [thread EXCEPT ![u].phase = "found", ![u].previous = Previous(u)]
    /\ UNCHANGED <<file, bucket, named, progress, data, overlapped>>

\* Gets both objects, reads them and compares them.
Compare(u) ==
    /\ thread[u].phase = "found"
    /\ {u, thread[u].previous} \subseteq bucket
    /\ thread' = [thread EXCEPT ![u].phase = "ingesting",
                                ![u].todo = Changed(file[thread[u].previous], file[u])]
    /\ UNCHANGED <<file, bucket, named, progress, data, overlapped>>

\* Mutant: rows are committed one by one.
ProcessRowAtOnce(u, v) ==
    /\ thread[u].phase = "ingesting"
    /\ v \in thread[u].todo
    /\ Processable(u, v)
    /\ thread' = [thread EXCEPT ![u].todo = @ \ {v}]
    /\ data' = [data EXCEPT ![v] = file[u][v]]
    /\ UNCHANGED <<file, bucket, named, progress, overlapped>>

\* process_registration_record: inserts or updates the row, unless it is the same.
ProcessRow(u, v) ==
    /\ thread[u].phase = "ingesting"
    /\ v \in thread[u].todo
    /\ Processable(u, v)
    /\ thread' = [thread EXCEPT ![u].todo = @ \ {v},
                                ![u].wrote[v] = IF Read(u, v) = file[u][v] THEN @
                                                ELSE file[u][v]]
    /\ UNCHANGED <<file, bucket, named, progress, data, overlapped>>

\* Mutant: the file just uploaded is removed, not the one before.
RemoveLatest(u) ==
    /\ thread[u].phase = "ingesting"
    /\ thread[u].todo = {}
    /\ bucket' = bucket \ {u}
    /\ thread' = [thread EXCEPT ![u].phase = "finishing"]
    /\ UNCHANGED <<file, named, progress, data, overlapped>>

\* Mutant: the last progress update goes through the connection "other", too.
RemovePreviousReporting(u) ==
    /\ thread[u].phase = "ingesting"
    /\ thread[u].todo = {}
    /\ bucket' = bucket \ {thread[u].previous}
    /\ thread' = [thread EXCEPT ![u].phase = "finishing"]
    /\ progress' = [progress EXCEPT ![u] = "complete"]
    /\ UNCHANGED <<file, named, data, overlapped>>

\* The results, the last progress update and the filename are written, all in the
\* open transaction; then the previous object is removed, which no rollback undoes.
RemovePrevious(u) ==
    /\ thread[u].phase = "ingesting"
    /\ thread[u].todo = {}
    /\ bucket' = bucket \ {thread[u].previous}
    /\ thread' = [thread EXCEPT ![u].phase = "finishing"]
    /\ UNCHANGED <<file, named, progress, data, overlapped>>

Written(u) == [v \in Vins |-> Read(u, v)]

End(u, phase) ==
    thread' = [thread EXCEPT ![u] = [NoThread EXCEPT !.phase = phase]]

Commit(u) ==
    /\ thread[u].phase = "finishing"
    /\ data' = Written(u)
    /\ named' = named \cup {u}
    /\ progress' = [progress EXCEPT ![u] = "complete"]
    /\ End(u, "ended")
    /\ UNCHANGED <<file, bucket, overlapped>>

\* set_upload_progress with the error, after the rollback.  It uses the connection
\* that the transaction used and swallows its own exception, so when the database
\* does not answer the progress stays as it was.
ReportError(u) ==
    \/ progress' = [progress EXCEPT ![u] = "error"] /\ End(u, "ended")
    \/ UNCHANGED progress /\ End(u, "unheard")

\* Mutant: the filename is saved although the transaction is rolled back.
ExceptNamed(u) ==
    /\ ReportError(u)
    /\ named' = named \cup {u}
    /\ UNCHANGED <<file, bucket, data, overlapped>>

\* An exception: the transaction is rolled back and the error is reported.
Except(u) ==
    /\ ReportError(u)
    /\ UNCHANGED <<file, bucket, named, data, overlapped>>

\* Mutant: a thread waits until the file to compare with is there.
RefuseUnlessGone(u) ==
    /\ \/ thread[u].phase = "started" /\ named \ {u} = {}
       \/ Deadlocked(u)
    /\ Except(u)

\* Exceptions that are certain: no upload to compare with, an object that is
\* gone, a deadlock.
Refuse(u) ==
    /\ \/ thread[u].phase = "started" /\ named \ {u} = {}
       \/ thread[u].phase = "found" /\ ~({u, thread[u].previous} \subseteq bucket)
       \/ Deadlocked(u)
    /\ Except(u)

\* Any other exception: the store or the database does not answer, a file cannot
\* be parsed.  The object may be gone when remove_object or the commit fails.
Fail(u) == Active(u) /\ Except(u)

\* The worker is killed with its threads; the database rolls back.
Die(u) ==
    /\ Active(u)
    /\ End(u, "dead")
    /\ UNCHANGED <<file, bucket, named, progress, data, overlapped>>

Advance(u) ==
    \/ FindPrevious(u)
    \/ Compare(u)
    \/ \E v \in Vins : ProcessRow(u, v)
    \/ RemovePrevious(u)
    \/ Commit(u)
    \/ Refuse(u)

Next ==
    \E u \in Uploads :
        \/ \E f \in Files : Upload(u, f)
        \/ Advance(u)
        \/ Fail(u)
        \/ Die(u)

Spec == Init /\ [][Next]_vars

\* A thread that is not killed goes on; PostgreSQL resolves deadlocks.
FairSpec == Spec /\ \A u \in Uploads : WF_vars(Advance(u))

-----------------------------------------------------------------------------
\* Properties

AtRest == \A u \in Uploads : ~Active(u)

\* What the next upload will be compared with.
Latest == Max(named)

\* What the page is told is true: an upload is reported complete exactly when its
\* rows and its filename are committed.
ReportedIsIngested == \A u \in Uploads : progress[u] = "complete" <=> u \in named

\* All or nothing: each row is of a file that was ingested completely; an upload
\* that failed, was killed or lost a deadlock leaves none.
RowsOfIngestedFiles ==
    \A v \in Vins : data[v] # NoVehicle => \E u \in named : file[u][v] = data[v]

\* Comparing with the last file loses nothing: unless uploads overlap, the data
\* agrees with the file uploaded last, whatever failed or was killed before.
DataAgreesWithLatest ==
    ~overlapped /\ named # {} =>
        \A v \in Vins : file[Latest][v] \in {NoVehicle, data[v]}

\* Unless uploads overlap, fail or are killed, the next one finds its previous file:
\* "we remove the previous file from minio but keep the latest one so we can use it
\* for compare on next upload" (icbc_upload.py:473-474).  An upload that ends between
\* the two leaves neither.
PreviousKept ==
    \/ overlapped \/ ~AtRest \/ named = {}
    \/ \E u \in Uploads : progress[u] = "error" \/ thread[u].phase \in {"unheard", "dead"}
    \/ Latest \in bucket

\* Each upload that is started ends with an answer for the page, also when its
\* previous file is gone or uploads wait for each other's rows, unless it is killed
\* or the database does not even take the error.
UploadsEnd ==
    \A u \in Uploads :
        thread[u].phase = "started" ~>
            progress[u] \in {"complete", "error"} \/ thread[u].phase \in {"unheard", "dead"}
=============================================================================
