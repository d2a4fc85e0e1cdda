----------------------- MODULE CreditAgreementProofs -----------------------
(***************************************************************************)
(* Theorems about CreditAgreement, for every set of suppliers, agreements, *)
(* keys, contents and workers.                                             *)
(***************************************************************************)
EXTENDS CreditAgreement, TLAPS

tables == <<agreement, content, credited, debited, posted, pages>>

-----------------------------------------------------------------------------
\* What a step is

\* No content is an amount of zero for every key.
LEMMA NoContentType == NoContent \in [Keys -> Nat]
    BY DEF NoContent

\* Adding what is posted to a balance gives a balance.
LEMMA PlusType ==
    ASSUME NEW c \in [Keys -> Nat], NEW d \in [Keys -> Nat]
    PROVE  Plus(c, d) \in [Keys -> Nat]
BY DEF Plus

\* A request that any of the three handlers builds is a request.
LEMMA RequestType ==
    ASSUME TypeOK, NEW a \in Agreements, Visible(a), NEW asked \in Statuses,
           NEW type \in Types, NEW edits \in BOOLEAN, NEW c \in [Keys -> Nat],
           NEW files \in BOOLEAN
    PROVE  Request(a, asked, type, edits, c, files) \in Requests
<1>1. agreement[a].status \in Statuses
    BY DEF TypeOK, Rows, Visible
<1>2. StatusToSave(agreement[a].status, asked) \in Statuses
    BY <1>1 DEF StatusToSave
<1> QED
    BY <1>2, NoContentType DEF Request, Requests

\* A worker starts to serve request r, one of the three kinds.
Started(w, r) ==
    LET a == r.agreement
        seen == agreement[r.agreement].status IN
    /\ job[w] = Idle /\ job' = [job EXCEPT ![w] = r]
    /\ r \in Requests /\ Visible(a) /\ r.missed = NoContent
    /\ UNCHANGED tables
    /\ \/ /\ pages[a] \cap Editable # {} /\ r.status = seen /\ r.files
          /\ r.content \in Contents \cup {NoContent}
          /\ UNCHANGED uploading
       \/ /\ uploading[a] > 0 /\ r.status = seen /\ ~r.files /\ ~r.edits
          /\ uploading' = [uploading EXCEPT ![a] = @ - 1]
       \/ /\ \E s \in pages[a] : s \in Editable \cup {"RECOMMENDED"}
          /\ SavesFinish => uploading[a] = 0
          /\ ~r.files /\ ~r.edits
          /\ UNCHANGED uploading

\* A request that is received is one that Started describes.
LEMMA ReceiveKinds ==
    ASSUME TypeOK, NEW w \in Workers, NEW a \in Agreements, Receive(w, a)
    PROVE  \/ \E type \in Types, c \in Contents \cup {NoContent} : Create(w, a, type, c)
           \/ \E r \in Requests : Started(w, r)
<1> USE ContentsAssumption, NoContentType
<1>1. ASSUME NEW type \in Types, NEW edits \in BOOLEAN, NEW c \in Contents \cup {NoContent},
             ReceiveSave(w, a, type, edits, c)
      PROVE  \E r \in Requests : Started(w, r)
    <2> DEFINE r == Request(a, agreement[a].status, type, edits, c, TRUE)
    <2>1. Visible(a)
        BY <1>1 DEF ReceiveSave, Start
    <2>2. agreement[a].status \in Statuses
        BY <2>1 DEF TypeOK, Rows, Visible
    <2>3. c \in [Keys -> Nat]
        OBVIOUS
    <2>4. r \in Requests
        BY <2>1, <2>2, <2>3, RequestType
    <2>5. r.agreement = a /\ r.missed = NoContent /\ r.files /\ r.content = c
        BY DEF Request
    <2>6. r.status = agreement[a].status
        BY <2>1 DEF Request, StatusToSave
    <2> HIDE DEF r
    <2>7. job[w] = Idle /\ job' = [job EXCEPT ![w] = r]
        BY <1>1 DEF ReceiveSave, Start, r
    <2>8. UNCHANGED tables /\ UNCHANGED uploading
        BY <1>1 DEF ReceiveSave, Start, tables
    <2>9. pages[a] \cap Editable # {}
        BY <1>1 DEF ReceiveSave
    <2> QED
        BY <2>1, <2>4, <2>5, <2>6, <2>7, <2>8, <2>9 DEF Started
<1>2. CASE ReceiveFiles(w, a)
    <2> DEFINE r == Request(a, agreement[a].status, agreement[a].type, FALSE, NoContent,
                            FALSE)
    <2>1. Visible(a)
        BY <1>2 DEF ReceiveFiles, Start
    <2>2. agreement[a].status \in Statuses /\ agreement[a].type \in Types
        BY <2>1 DEF TypeOK, Rows, Visible
    <2>3. r \in Requests
        BY <2>1, <2>2, RequestType
    <2>4. r.agreement = a /\ r.missed = NoContent /\ ~r.files /\ ~r.edits
        BY DEF Request
    <2>5. r.status = agreement[a].status
        BY <2>1 DEF Request, StatusToSave
    <2> HIDE DEF r
    <2>6. job[w] = Idle /\ job' = [job EXCEPT ![w] = r]
        BY <1>2 DEF ReceiveFiles, Start, r
    <2>7. UNCHANGED tables
        BY <1>2 DEF ReceiveFiles, Start, tables
    <2>8. uploading[a] > 0 /\ uploading' = [uploading EXCEPT ![a] = @ - 1]
        BY <1>2 DEF ReceiveFiles
    <2> QED
        BY <2>1, <2>3, <2>4, <2>5, <2>6, <2>7, <2>8 DEF Started
<1>3. ASSUME NEW new \in Statuses, ReceiveDecision(w, a, new)
      PROVE  \E r \in Requests : Started(w, r)
    <2> DEFINE r == Request(a, new, agreement[a].type, FALSE, NoContent, FALSE)
    <2>1. Visible(a)
        BY <1>3 DEF ReceiveDecision, Start
    <2>2. agreement[a].type \in Types
        BY DEF TypeOK, Rows
    <2>3. r \in Requests
        BY <2>1, <2>2, RequestType
    <2>4. r.agreement = a /\ r.missed = NoContent /\ ~r.files /\ ~r.edits
        BY DEF Request
    <2> HIDE DEF r
    <2>5. job[w] = Idle /\ job' = [job EXCEPT ![w] = r]
        BY <1>3 DEF ReceiveDecision, Start, r
    <2>6. UNCHANGED tables /\ UNCHANGED uploading
        BY <1>3 DEF ReceiveDecision, Start, tables
    <2>7. /\ \E s \in pages[a] : s \in Editable \cup {"RECOMMENDED"}
          /\ SavesFinish => uploading[a] = 0
        BY <1>3 DEF ReceiveDecision, Offers
    <2> QED
        BY <2>1, <2>3, <2>4, <2>5, <2>6, <2>7 DEF Started
<1>4. CASE \E type \in Types, c \in Contents \cup {NoContent} :
               Create(w, a, type, c) \/ ReceiveSave(w, a, type, TRUE, c)
    <2> PICK type \in Types, c \in Contents \cup {NoContent} :
            Create(w, a, type, c) \/ ReceiveSave(w, a, type, TRUE, c)
        BY <1>4
    <2> QED
        BY <1>1
<1>5. CASE \E type \in Types : ReceiveSave(w, a, type, FALSE, NoContent)
    <2> PICK type \in Types : ReceiveSave(w, a, type, FALSE, NoContent)
        BY <1>5
    <2> QED
        BY <1>1
<1> QED
    BY <1>2, <1>3, <1>4, <1>5, Zenon DEF Receive

\* Every step is one of these.
LEMMA StepKinds ==
    ASSUME TypeOK, [Next]_vars
    PROVE  \/ \E w \in Workers, a \in Agreements, type \in Types,
                 c \in Contents \cup {NoContent} : Create(w, a, type, c)
           \/ \E w \in Workers, r \in Requests : Started(w, r)
           \/ \E w \in Workers : Commit(w)
           \/ \E a \in Agreements : LoseFiles(a)
           \/ UNCHANGED vars
<1>1. ASSUME NEW w \in Workers, NEW a \in Agreements, Receive(w, a)
      PROVE  \/ \E type \in Types, c \in Contents \cup {NoContent} : Create(w, a, type, c)
             \/ \E r \in Requests : Started(w, r)
    BY <1>1, ReceiveKinds
<1> QED
    BY <1>1, Zenon DEF Next

-----------------------------------------------------------------------------
\* Type correctness

\* A worker that is not idle serves a request.
LEMMA JobType ==
    ASSUME TypeOK, NEW w \in Workers, job[w] # Idle
    PROVE  job[w] \in Requests /\ job[w].agreement \in Agreements
BY DEF TypeOK, Requests

\* What Commit does to the ledger.
LEMMA AdjustType ==
    ASSUME TypeOK, NEW a \in Agreements, NEW type, NEW c \in [Keys -> Nat],
           AdjustCredits(a, type, c)
    PROVE  /\ credited' \in [Organizations -> [Keys -> Nat]]
           /\ debited' \in [Organizations -> [Keys -> Nat]]
           /\ posted' \in [Agreements -> [Keys -> Nat]]
<1> DEFINE o == agreement[a].organization
<1>1. o \in Organizations
    BY DEF TypeOK, Rows
<1>2. posted' = [posted EXCEPT ![a] = Plus(@, c)]
    BY DEF AdjustCredits
<1>3. CASE type = "reduction"
    <2>1. debited' = [debited EXCEPT ![o] = Plus(@, c)] /\ credited' = credited
        BY <1>3 DEF AdjustCredits
    <2> HIDE DEF o
    <2> QED
        BY <1>1, <1>2, <2>1, PlusType DEF TypeOK
<1>4. CASE type # "reduction"
    <2>1. credited' = [credited EXCEPT ![o] = Plus(@, c)] /\ debited' = debited
        BY <1>4 DEF AdjustCredits
    <2> HIDE DEF o
    <2> QED
        BY <1>1, <1>2, <2>1, PlusType DEF TypeOK
<1> QED
    BY <1>3, <1>4

\* What a commit writes to the row, the content and the ledger.
LEMMA CommitRows ==
    ASSUME TypeOK, NEW w \in Workers, Commit(w)
    PROVE  LET j == job[w]
               a == job[w].agreement IN
           /\ j \in Requests /\ a \in Agreements
           /\ agreement' = [agreement EXCEPT ![a] =
                  [agreement[a] EXCEPT !.status = j.status, !.type = j.type]]
           /\ \E c \in ContentToSave(j) :
                  /\ c \in [Keys -> Nat] /\ content' = [content EXCEPT ![a] = c]
                  /\ IF Posts(j) THEN AdjustCredits(a, j.type, c)
                     ELSE UNCHANGED <<credited, debited, posted>>
<1> DEFINE j == job[w]
           a == job[w].agreement
<1>1. j \in Requests /\ a \in Agreements
    BY JobType DEF Commit
<1>2. agreement' = [agreement EXCEPT ![a] =
          [agreement[a] EXCEPT !.status = j.status, !.type = j.type]]
    BY <1>1 DEF Commit, TypeOK, Rows
<1>3. PICK c \in ContentToSave(j) :
          /\ content' = [content EXCEPT ![a] = c]
          /\ IF Posts(j) THEN AdjustCredits(a, j.type, c)
             ELSE UNCHANGED <<credited, debited, posted>>
    BY DEF Commit
<1>4. c \in [Keys -> Nat]
    BY <1>1, <1>3 DEF ContentToSave, Plus, TypeOK, Requests
<1> QED
    BY <1>1, <1>2, <1>3, <1>4

\* A commit leaves its worker idle and the others with a request.
LEMMA CommitJobs ==
    ASSUME TypeOK, NEW w \in Workers, Commit(w)
    PROVE  /\ job' \in [Workers -> Requests \cup {Idle}]
           /\ job'[w] = Idle
<1> DEFINE j == job[w]
<1>1. j \in Requests
    BY JobType DEF Commit
<1>2. ASSUME NEW v \in Workers, Overlaps(v, j)
      PROVE  [job[v] EXCEPT !.missed = j.content] \in Requests
    <2>1. job[v] \in Requests
        BY <1>2 DEF Overlaps, TypeOK
    <2>2. j.content \in [Keys -> Nat]
        BY <1>1 DEF Requests
    <2> QED
        BY <2>1, <2>2 DEF Requests
<1>3. job' = [v \in Workers |->
                 IF v = w THEN Idle
                 ELSE IF Overlaps(v, j) THEN [job[v] EXCEPT !.missed = j.content]
                 ELSE job[v]]
    BY DEF Commit, Release
<1> QED
    BY <1>2, <1>3 DEF TypeOK

\* The types are inductive by themselves.
LEMMA TypeStep == TypeOK /\ [Next]_vars => TypeOK'
<1> SUFFICES ASSUME TypeOK, [Next]_vars PROVE TypeOK'
    OBVIOUS
<1> USE ContentsAssumption, NoContentType
<1>1. ASSUME NEW w \in Workers, NEW a \in Agreements, NEW type \in Types,
             NEW c \in Contents \cup {NoContent}, Create(w, a, type, c)
      PROVE  TypeOK'
    <2>1. [agreement[a] EXCEPT !.status = "DRAFT", !.type = type] \in Rows
        BY DEF TypeOK, Rows, Statuses
    <2>2. agreement' = [agreement EXCEPT ![a] =
              [agreement[a] EXCEPT !.status = "DRAFT", !.type = type]]
        BY <1>1 DEF Create, TypeOK, Rows
    <2>3. agreement' \in [Agreements -> Rows]
        BY <2>1, <2>2 DEF TypeOK
    <2>4. content' \in [Agreements -> [Keys -> Nat]]
        BY <1>1 DEF Create, TypeOK
    <2>5. pages' \in [Agreements -> SUBSET Statuses]
        BY <1>1 DEF Create, Show, TypeOK, Statuses
    <2>6. uploading' \in [Agreements -> Nat]
        BY <1>1 DEF Create, TypeOK
    <2> QED
        BY <1>1, <2>3, <2>4, <2>5, <2>6 DEF Create, TypeOK
<1>2. ASSUME NEW w \in Workers, NEW r \in Requests, Started(w, r)
      PROVE  TypeOK'
    <2>1. r.agreement \in Agreements
        BY DEF Requests
    <2>2. uploading' \in [Agreements -> Nat]
        BY <1>2, <2>1 DEF Started, TypeOK
    <2> QED
        BY <1>2, <2>2 DEF Started, tables, TypeOK
<1>3. ASSUME NEW w \in Workers, Commit(w) PROVE TypeOK'
    <2> DEFINE j == job[w]
               a == job[w].agreement
    <2>1. j \in Requests /\ a \in Agreements
        BY <1>3, CommitRows
    <2>2. agreement' \in [Agreements -> Rows]
        <3>1. j.status \in Statuses /\ j.type \in Types
            BY <2>1 DEF Requests
        <3>2. [agreement[a] EXCEPT !.status = j.status, !.type = j.type] \in Rows
            <4>1. agreement[a] \in Rows
                BY <2>1 DEF TypeOK
            <4> HIDE DEF j, a
            <4> QED
                BY <3>1, <4>1 DEF Rows
        <3>3. agreement' = [agreement EXCEPT ![a] =
                  [agreement[a] EXCEPT !.status = j.status, !.type = j.type]]
            BY <1>3, CommitRows
        <3> QED
            BY <2>1, <3>2, <3>3 DEF TypeOK
    <2>3. PICK c \in ContentToSave(j) :
              /\ c \in [Keys -> Nat] /\ content' = [content EXCEPT ![a] = c]
              /\ IF Posts(j) THEN AdjustCredits(a, j.type, c)
                 ELSE UNCHANGED <<credited, debited, posted>>
        BY <1>3, CommitRows
    <2>4. content' \in [Agreements -> [Keys -> Nat]]
        BY <2>1, <2>3 DEF TypeOK
    <2>5. /\ credited' \in [Organizations -> [Keys -> Nat]]
          /\ debited' \in [Organizations -> [Keys -> Nat]]
          /\ posted' \in [Agreements -> [Keys -> Nat]]
        BY <2>1, <2>3, AdjustType DEF TypeOK
    <2>6. pages' \in [Agreements -> SUBSET Statuses]
        BY <1>3, <2>1 DEF Commit, Show, TypeOK, Requests
    <2>7. uploading' \in [Agreements -> Nat]
        BY <1>3, <2>1 DEF Commit, TypeOK
    <2> QED
        BY <1>3, <2>2, <2>4, <2>5, <2>6, <2>7, CommitJobs DEF TypeOK
<1>4. ASSUME NEW a \in Agreements, LoseFiles(a) PROVE TypeOK'
    BY <1>4 DEF LoseFiles, TypeOK
<1>5. CASE UNCHANGED vars
    BY <1>5 DEF vars, TypeOK
<1> QED
    BY <1>1, <1>2, <1>3, <1>4, <1>5, StepKinds, Zenon

\* Every variable has its type at first.
LEMMA TypeInit == Init => TypeOK
<1> SUFFICES ASSUME Init PROVE TypeOK
    OBVIOUS
<1>1. (CHOOSE type \in Types : TRUE) \in Types
    BY TypesAssumption
<1>2. agreement \in [Agreements -> Rows]
    BY <1>1 DEF Init, Rows
<1> QED
    BY <1>2, OpeningAssumption, NoContentType DEF Init, TypeOK

\* Every variable keeps its type.
THEOREM TypeCorrect == Spec => []TypeOK
<1> QED
    BY TypeInit, TypeStep, PTL DEF Spec

-----------------------------------------------------------------------------
\* Any workers, pages and uploads

\* No step leaves an ISSUED agreement showing more than it posted.
LEMMA IssuedStep == TypeOK /\ IssuedIsPosted /\ [Next]_vars => IssuedIsPosted'
<1> SUFFICES ASSUME TypeOK, IssuedIsPosted, [Next]_vars PROVE IssuedIsPosted'
    OBVIOUS
<1>1. ASSUME NEW w \in Workers, NEW a \in Agreements, NEW type \in Types,
             NEW c \in Contents \cup {NoContent}, Create(w, a, type, c)
      PROVE  IssuedIsPosted'
    <2>1. agreement' = [agreement EXCEPT ![a] =
              [agreement[a] EXCEPT !.status = "DRAFT", !.type = type]]
        BY <1>1 DEF Create, TypeOK, Rows
    <2>2. agreement[a] \in Rows
        BY DEF TypeOK
    <2>3. agreement'[a].status = "DRAFT"
        BY <2>1, <2>2 DEF TypeOK, Rows
    <2>4. \A b \in Agreements \ {a} :
              agreement'[b] = agreement[b] /\ content'[b] = content[b]
        BY <1>1, <2>1 DEF Create, TypeOK
    <2> QED
        BY <1>1, <2>3, <2>4 DEF Create, IssuedIsPosted
<1>2. ASSUME NEW w \in Workers, NEW r \in Requests, Started(w, r)
      PROVE  IssuedIsPosted'
    BY <1>2 DEF Started, tables, IssuedIsPosted
<1>3. ASSUME NEW w \in Workers, Commit(w) PROVE IssuedIsPosted'
    <2> DEFINE j == job[w]
               a == job[w].agreement
    <2>1. j \in Requests /\ a \in Agreements
        BY <1>3, CommitRows
    <2>2. PICK c \in ContentToSave(j) :
              /\ c \in [Keys -> Nat] /\ content' = [content EXCEPT ![a] = c]
              /\ IF Posts(j) THEN AdjustCredits(a, j.type, c)
                 ELSE UNCHANGED <<credited, debited, posted>>
        BY <1>3, CommitRows
    <2>3. agreement' = [agreement EXCEPT ![a] =
              [agreement[a] EXCEPT !.status = j.status, !.type = j.type]]
        BY <1>3, CommitRows
    <2>4. agreement'[a].status = j.status /\ content'[a] = c
        BY <2>1, <2>2, <2>3 DEF TypeOK, Rows
    <2>5. \A b \in Agreements \ {a} :
              /\ agreement'[b] = agreement[b] /\ content'[b] = content[b]
              /\ posted'[b] = posted[b]
        BY <2>1, <2>2, <2>3 DEF TypeOK, AdjustCredits
    <2>6. j.status = "ISSUED" => \A k \in Keys : c[k] <= posted'[a][k]
        <3> SUFFICES ASSUME j.status = "ISSUED", NEW k \in Keys
                     PROVE  c[k] <= posted'[a][k]
            OBVIOUS
        <3>1. posted' = [posted EXCEPT ![a] = Plus(@, c)]
            BY <2>2 DEF Posts, AdjustCredits
        <3>2. posted[a] \in [Keys -> Nat]
            BY <2>1 DEF TypeOK
        <3>3. posted'[a][k] = posted[a][k] + c[k]
            BY <2>1, <3>1 DEF Plus, TypeOK
        <3> QED
            BY <2>2, <3>2, <3>3
    <2> QED
        BY <2>4, <2>5, <2>6 DEF IssuedIsPosted
<1>4. ASSUME NEW a \in Agreements, LoseFiles(a) PROVE IssuedIsPosted'
    BY <1>4 DEF LoseFiles, IssuedIsPosted
<1>5. CASE UNCHANGED vars
    BY <1>5 DEF vars, IssuedIsPosted
<1> QED
    BY <1>1, <1>2, <1>3, <1>4, <1>5, StepKinds, Zenon

\* An agreement shown as ISSUED has posted at least the content it shows.
THEOREM IssuedArePosted == Spec => []IssuedIsPosted
<1>1. Init => TypeOK /\ IssuedIsPosted
    <2>1. Init => IssuedIsPosted
        BY DEF Init, IssuedIsPosted, Absent
    <2> QED
        BY <2>1, TypeInit
<1>2. TypeOK /\ IssuedIsPosted /\ [Next]_vars => (TypeOK /\ IssuedIsPosted)'
    BY TypeStep, IssuedStep
<1> QED
    BY <1>1, <1>2, PTL DEF Spec

-----------------------------------------------------------------------------
\* One worker, pages that show the stored status, saves that finish

Serial == \A v, w \in Workers : v = w

PagesAreFresh == \A a \in Agreements : pages[a] \subseteq {agreement[a].status}

ContentIsOffered == \A a \in Agreements : content[a] \in Contents \cup {NoContent}

\* Files follow a save, and nobody decides before they do.
UploadingIsOpen ==
    \A a \in Agreements : uploading[a] > 0 => agreement[a].status \in Editable

\* The request in progress is about an agreement that is not ISSUED yet, and
\* decides only when no files are to follow.
RequestIsFresh(j) ==
    LET a == j.agreement IN
    /\ agreement[a].status \in Editable \cup {"RECOMMENDED"}
    /\ j.missed = NoContent
    /\ j.files => j.status \in Editable
    /\ j.edits => j.files /\ j.content \in Contents \cup {NoContent}
    /\ j.status \notin Editable => uploading[a] = 0

RequestsAreFresh == \A w \in Workers : job[w] # Idle => RequestIsFresh(job[w])

FreshInv ==
    /\ TypeOK /\ LedgerAgreesWithStatus
    /\ PagesAreFresh /\ ContentIsOffered /\ UploadingIsOpen /\ RequestsAreFresh
\* The invariant holds at first.
LEMMA FreshInit == Init => FreshInv
<1> SUFFICES ASSUME Init PROVE FreshInv
    OBVIOUS
<1>1. TypeOK
    BY TypeInit
<1>2. LedgerAgreesWithStatus
    BY DEF Init, LedgerAgreesWithStatus, Absent
<1>3. PagesAreFresh /\ ContentIsOffered /\ UploadingIsOpen /\ RequestsAreFresh
    BY DEF Init, PagesAreFresh, ContentIsOffered, UploadingIsOpen, RequestsAreFresh
<1> QED
    BY <1>1, <1>2, <1>3 DEF FreshInv

\* A request that starts is fresh, and so is all the rest.
LEMMA StartedIsFresh ==
    ASSUME FreshPages, SavesFinish, FreshInv, NEW w \in Workers, NEW r \in Requests,
           Started(w, r)
    PROVE  /\ LedgerAgreesWithStatus' /\ PagesAreFresh' /\ ContentIsOffered'
           /\ UploadingIsOpen' /\ RequestIsFresh(r)'
<1> DEFINE a == r.agreement
<1>1. TypeOK /\ a \in Agreements
    BY DEF FreshInv, Requests
<1>2. UNCHANGED tables
    BY DEF Started
<1>3. LedgerAgreesWithStatus' /\ PagesAreFresh' /\ ContentIsOffered'
    BY <1>2 DEF FreshInv, tables, LedgerAgreesWithStatus, PagesAreFresh, ContentIsOffered
<1>4. \A b \in Agreements : uploading[b] \in Nat /\ uploading'[b] \in Nat
                            /\ uploading'[b] <= uploading[b]
    BY <1>1 DEF Started, TypeOK
<1>5. UploadingIsOpen'
    BY <1>2, <1>4 DEF FreshInv, tables, UploadingIsOpen
<1>6. pages[a] \subseteq {agreement[a].status}
    BY <1>1 DEF FreshInv, PagesAreFresh
<1>7. UploadingIsOpen
    BY DEF FreshInv
<1>8. RequestIsFresh(r)'
    <2>1. CASE /\ pages[a] \cap Editable # {} /\ r.status = agreement[a].status /\ r.files
               /\ r.content \in Contents \cup {NoContent}
        BY <1>2, <1>6, <2>1 DEF Started, tables, RequestIsFresh
    <2>2. CASE /\ uploading[a] > 0 /\ r.status = agreement[a].status /\ ~r.files /\ ~r.edits
        BY <1>1, <1>2, <1>7, <2>2 DEF Started, tables, RequestIsFresh, UploadingIsOpen
    <2>3. CASE /\ \E s \in pages[a] : s \in Editable \cup {"RECOMMENDED"}
               /\ uploading[a] = 0 /\ ~r.files /\ ~r.edits
               /\ UNCHANGED uploading
        BY <1>2, <1>6, <2>3 DEF Started, tables, RequestIsFresh
    <2> QED
        BY <2>1, <2>2, <2>3 DEF Started
<1> QED
    BY <1>3, <1>5, <1>8

\* What a commit does when the request is fresh.
LEMMA CommitIsFresh ==
    ASSUME FreshPages, FreshInv, NEW w \in Workers, Commit(w)
    PROVE  LET a == job[w].agreement IN
           /\ posted[a] = NoContent
           /\ \E c \in Contents \cup {NoContent} :
                  /\ c \in [Keys -> Nat] /\ content' = [content EXCEPT ![a] = c]
                  /\ IF Posts(job[w]) THEN AdjustCredits(a, job[w].type, c)
                     ELSE UNCHANGED <<credited, debited, posted>>
<1> DEFINE j == job[w]
           a == job[w].agreement
<1>1. TypeOK
    BY DEF FreshInv
<1>2. j \in Requests /\ a \in Agreements
    BY <1>1, CommitRows
<1>3. RequestIsFresh(j)
    BY DEF FreshInv, RequestsAreFresh, Commit
<1>4. posted[a] = NoContent
    BY <1>2, <1>3 DEF FreshInv, LedgerAgreesWithStatus, RequestIsFresh, Editable
<1>5. PICK c \in ContentToSave(j) :
          /\ c \in [Keys -> Nat] /\ content' = [content EXCEPT ![a] = c]
          /\ IF Posts(j) THEN AdjustCredits(a, j.type, c)
             ELSE UNCHANGED <<credited, debited, posted>>
    BY <1>1, CommitRows
<1>6. c \in Contents \cup {NoContent}
    <2>1. CASE j.edits
        <3>1. j.missed = NoContent /\ j.content \in Contents \cup {NoContent}
            BY <1>3, <2>1 DEF RequestIsFresh
        <3>2. Plus(j.content, NoContent) = j.content
            BY <1>2 DEF Plus, NoContent, Requests
        <3> QED
            BY <1>5, <2>1, <3>1, <3>2 DEF ContentToSave
    <2>2. CASE ~j.edits
        BY <1>2, <2>2 DEF FreshInv, ContentIsOffered, ContentToSave
    <2> QED
        BY <2>1, <2>2
<1> QED
    BY <1>4, <1>5, <1>6

\* Every step of a single worker keeps the invariant.
LEMMA FreshStep ==
    ASSUME Serial, FreshPages, SavesFinish, FreshInv, [Next]_vars
    PROVE  FreshInv'
<1>0. TypeOK /\ TypeOK'
    BY TypeStep DEF FreshInv
<1>1. ASSUME NEW w \in Workers, NEW a \in Agreements, NEW type \in Types,
             NEW c \in Contents \cup {NoContent}, Create(w, a, type, c)
      PROVE  FreshInv'
    <2>1. agreement' = [agreement EXCEPT ![a] =
              [agreement[a] EXCEPT !.status = "DRAFT", !.type = type]]
        BY <1>0, <1>1 DEF Create, TypeOK, Rows
    <2>2. agreement[a] \in Rows /\ agreement[a].status = "ABSENT"
        BY <1>0, <1>1 DEF TypeOK, Create, Absent
    <2>3. agreement'[a].status = "DRAFT"
        BY <1>0, <2>1, <2>2 DEF TypeOK, Rows
    <2>4. \A b \in Agreements \ {a} : agreement'[b] = agreement[b]
        BY <1>0, <2>1 DEF TypeOK
    <2>5. LedgerAgreesWithStatus'
        <3>1. posted' = posted
            BY <1>1 DEF Create
        <3>2. posted[a] = NoContent
            BY <2>2 DEF FreshInv, LedgerAgreesWithStatus
        <3>3. \A b \in Agreements \ {a} : content'[b] = content[b]
            BY <1>0, <1>1 DEF Create, TypeOK
        <3> QED
            BY <2>3, <2>4, <3>1, <3>2, <3>3 DEF FreshInv, LedgerAgreesWithStatus
    <2>6. PagesAreFresh'
        BY <1>0, <1>1, <2>3, <2>4 DEF Create, Show, TypeOK, FreshInv, PagesAreFresh
    <2>7. ContentIsOffered'
        BY <1>0, <1>1 DEF Create, TypeOK, FreshInv, ContentIsOffered
    <2>8. UploadingIsOpen'
        BY <1>0, <1>1, <2>3, <2>4 DEF Create, TypeOK, FreshInv, UploadingIsOpen, Editable
    <2>9. RequestsAreFresh'
        BY <1>1 DEF Create, Serial, RequestsAreFresh
    <2> QED
        BY <1>0, <2>5, <2>6, <2>7, <2>8, <2>9 DEF FreshInv
<1>2. ASSUME NEW w \in Workers, NEW r \in Requests, Started(w, r)
      PROVE  FreshInv'
    <2>1. \A v \in Workers : v = w /\ job'[v] = r
        BY <1>0, <1>2 DEF Started, Serial, TypeOK
    <2>2. RequestsAreFresh'
        BY <1>2, <2>1, StartedIsFresh DEF RequestsAreFresh
    <2> QED
        BY <1>0, <1>2, <2>2, StartedIsFresh DEF FreshInv
<1>3. ASSUME NEW w \in Workers, Commit(w) PROVE FreshInv'
    <2> DEFINE j == job[w]
               a == job[w].agreement
    <2>1. j \in Requests /\ a \in Agreements
        BY <1>0, <1>3, CommitRows
    <2>2. RequestIsFresh(j)
        BY <1>3 DEF FreshInv, RequestsAreFresh, Commit
    <2>3. agreement' = [agreement EXCEPT ![a] =
              [agreement[a] EXCEPT !.status = j.status, !.type = j.type]]
        BY <1>0, <1>3, CommitRows
    <2>4. agreement'[a].status = j.status
        BY <1>0, <2>1, <2>3 DEF TypeOK, Rows
    <2>5. \A b \in Agreements \ {a} : agreement'[b] = agreement[b]
        BY <1>0, <2>1, <2>3 DEF TypeOK
    <2>6. PICK c \in Contents \cup {NoContent} :
              /\ c \in [Keys -> Nat] /\ content' = [content EXCEPT ![a] = c]
              /\ IF Posts(j) THEN AdjustCredits(a, j.type, c)
                 ELSE UNCHANGED <<credited, debited, posted>>
        BY <1>3, CommitIsFresh
    <2>7. posted[a] = NoContent
        BY <1>3, CommitIsFresh
    <2>8. content'[a] = c /\ \A b \in Agreements \ {a} : content'[b] = content[b]
        BY <1>0, <2>1, <2>6 DEF TypeOK
    <2>9. LedgerAgreesWithStatus'
        <3>1. CASE j.status = "ISSUED"
            <4>1. posted' = [posted EXCEPT ![a] = Plus(@, c)]
                BY <2>6, <3>1 DEF Posts, AdjustCredits
            <4>2. Plus(NoContent, c) = c
                BY <2>6 DEF Plus, NoContent
            <4>3. posted'[a] = c /\ \A b \in Agreements \ {a} : posted'[b] = posted[b]
                BY <1>0, <2>1, <2>7, <4>1, <4>2 DEF TypeOK
            <4> QED
                BY <2>4, <2>5, <2>8, <3>1, <4>3 DEF FreshInv, LedgerAgreesWithStatus
        <3>2. CASE j.status # "ISSUED"
            <4>1. posted' = posted
                BY <2>6, <3>2 DEF Posts
            <4> QED
                BY <2>4, <2>5, <2>7, <2>8, <3>2, <4>1 DEF FreshInv, LedgerAgreesWithStatus
        <3> QED
            BY <3>1, <3>2
    <2>10. PagesAreFresh'
        <3>1. pages' = [pages EXCEPT ![a] = {j.status}]
            BY <1>3 DEF Commit, Show
        <3> QED
            BY <1>0, <2>1, <2>4, <2>5, <3>1 DEF TypeOK, FreshInv, PagesAreFresh
    <2>11. ContentIsOffered'
        BY <2>6, <2>8 DEF FreshInv, ContentIsOffered
    <2>12. UploadingIsOpen'
        <3>1. uploading' = [uploading EXCEPT ![a] = IF j.files THEN @ + 1 ELSE @]
            BY <1>3 DEF Commit
        <3>2. uploading[a] \in Nat
            BY <1>0, <2>1 DEF TypeOK
        <3>3. uploading'[a] > 0 => j.status \in Editable
            BY <1>0, <2>1, <2>2, <3>1, <3>2 DEF TypeOK, RequestIsFresh
        <3>4. \A b \in Agreements \ {a} : uploading'[b] = uploading[b]
            BY <1>0, <3>1 DEF TypeOK
        <3> QED
            BY <2>4, <2>5, <3>3, <3>4 DEF FreshInv, UploadingIsOpen
    <2>13. RequestsAreFresh'
        BY <1>0, <1>3, CommitJobs DEF Serial, RequestsAreFresh
    <2> QED
        BY <1>0, <2>9, <2>10, <2>11, <2>12, <2>13 DEF FreshInv
<1>4. ASSUME NEW a \in Agreements, LoseFiles(a) PROVE FreshInv'
    <2>1. UNCHANGED <<agreement, content, credited, debited, posted, pages, job>>
        BY <1>4 DEF LoseFiles
    <2>2. LedgerAgreesWithStatus' /\ PagesAreFresh' /\ ContentIsOffered'
        BY <2>1 DEF FreshInv, LedgerAgreesWithStatus, PagesAreFresh, ContentIsOffered
    <2>3. \A b \in Agreements : uploading[b] \in Nat /\ uploading'[b] \in Nat
                                /\ uploading'[b] <= uploading[b]
        BY <1>0, <1>4 DEF LoseFiles, TypeOK
    <2>4. UploadingIsOpen'
        BY <2>1, <2>3 DEF FreshInv, UploadingIsOpen
    <2>5. RequestsAreFresh'
        <3> SUFFICES ASSUME NEW w \in Workers, job[w] # Idle
                     PROVE  RequestIsFresh(job[w])'
            BY <2>1 DEF RequestsAreFresh
        <3>1. RequestIsFresh(job[w]) /\ job[w].agreement \in Agreements
            BY <1>0, JobType DEF FreshInv, RequestsAreFresh
        <3>2. uploading[job[w].agreement] = 0 => uploading'[job[w].agreement] = 0
            BY <2>3, <3>1
        <3> QED
            BY <2>1, <3>1, <3>2 DEF RequestIsFresh
    <2> QED
        BY <1>0, <2>2, <2>4, <2>5 DEF FreshInv
<1>5. CASE UNCHANGED vars
    BY <1>0, <1>5 DEF vars, FreshInv, LedgerAgreesWithStatus, PagesAreFresh,
       ContentIsOffered, UploadingIsOpen, RequestsAreFresh, RequestIsFresh
<1> QED
    BY <1>0, <1>1, <1>2, <1>3, <1>4, <1>5, StepKinds, Zenon

\* An agreement has posted its content if it is ISSUED and nothing otherwise.
THEOREM LedgerAgrees ==
    Serial /\ FreshPages /\ SavesFinish => (Spec => []LedgerAgreesWithStatus)
<1> SUFFICES ASSUME Serial, FreshPages, SavesFinish PROVE Spec => []LedgerAgreesWithStatus
    OBVIOUS
<1>1. FreshInv /\ [Next]_vars => FreshInv'
    BY FreshStep
<1>2. FreshInv => LedgerAgreesWithStatus
    BY DEF FreshInv
<1> QED
    BY <1>1, <1>2, FreshInit, PTL DEF Spec

\* A commit that posts is an award or a reduction in the ledger; nothing else
\* touches it.
LEMMA LedgerStep ==
    ASSUME FreshPages, FreshInv, [Next]_vars
    PROVE  [Ledger!Next]_(Ledger!vars)
<1>0. TypeOK
    BY DEF FreshInv
<1>1. ASSUME NEW w \in Workers, Commit(w), Posts(job[w])
      PROVE  [Ledger!Next]_(Ledger!vars)
    <2> DEFINE a == job[w].agreement
               o == agreement[a].organization
               type == job[w].type
    <2>1. a \in Agreements /\ o \in Organizations
        BY <1>0, <1>1, CommitRows DEF TypeOK, Rows
    <2>2. posted[a] = NoContent
        BY <1>1, CommitIsFresh
    <2>3. PICK c \in Contents \cup {NoContent} :
              c \in [Keys -> Nat] /\ AdjustCredits(a, type, c)
        BY <1>1, CommitIsFresh
    <2>4. posted' = [posted EXCEPT ![a] = Plus(@, c)]
          /\ IF type = "reduction"
             THEN debited' = [debited EXCEPT ![o] = Plus(@, c)] /\ UNCHANGED credited
             ELSE credited' = [credited EXCEPT ![o] = Plus(@, c)] /\ UNCHANGED debited
        BY <2>3 DEF AdjustCredits
    <2> HIDE DEF a, o, type
    <2>5. posted' = [posted EXCEPT ![a] = c]
        <3>1. Plus(NoContent, c) = c
            BY <2>3 DEF Plus, NoContent
        <3> QED
            BY <1>0, <2>1, <2>2, <2>4, <3>1 DEF TypeOK
    <2>6. CASE c = NoContent
        <3>1. posted' = posted
            BY <1>0, <2>1, <2>2, <2>5, <2>6 DEF TypeOK
        <3>2. \A total \in [Organizations -> [Keys -> Nat]] :
                  [total EXCEPT ![o] = Plus(@, c)] = total
            <4> SUFFICES ASSUME NEW total \in [Organizations -> [Keys -> Nat]]
                         PROVE  [total EXCEPT ![o] = Plus(@, c)] = total
                OBVIOUS
            <4>1. total[o] \in [Keys -> Nat]
                BY <2>1
            <4>2. Plus(total[o], NoContent) = total[o]
                BY <4>1 DEF Plus, NoContent
            <4> QED
                BY <2>1, <2>6, <4>2
        <3>3. credited' = credited /\ debited' = debited
            BY <1>0, <2>4, <3>2 DEF TypeOK
        <3> QED
            BY <3>1, <3>3 DEF Ledger!vars
    <2>7. CASE c \in Contents
        <3>1. posted[a] = Ledger!NoAmount
            BY <2>2 DEF NoContent, Ledger!NoAmount
        <3>2. CASE type = "reduction"
            <4>1. debited' = Ledger!Plus(debited, o, c)
                BY <1>0, <2>1, <2>4, <3>2 DEF Plus, Ledger!Plus, TypeOK
            <4>2. Ledger!Reduce(a, o, c)
                BY <2>1, <2>4, <2>5, <3>1, <3>2, <4>1 DEF Ledger!Reduce
            <4> QED
                BY <2>1, <2>7, <4>2 DEF Ledger!Next
        <3>3. CASE type # "reduction"
            <4>1. credited' = Ledger!Plus(credited, o, c)
                BY <1>0, <2>1, <2>4, <3>3 DEF Plus, Ledger!Plus, TypeOK
            <4>2. Ledger!Award(a, o, c)
                BY <2>1, <2>4, <2>5, <3>1, <3>3, <4>1 DEF Ledger!Award
            <4> QED
                BY <2>1, <2>7, <4>2 DEF Ledger!Next
        <3> QED
            BY <3>2, <3>3
    <2> QED
        BY <2>6, <2>7
<1>2. ASSUME NEW w \in Workers, Commit(w), ~Posts(job[w])
      PROVE  UNCHANGED Ledger!vars
    BY <1>2 DEF Commit, Ledger!vars
<1>3. ASSUME NEW w \in Workers, NEW a \in Agreements, NEW type \in Types,
             NEW c \in Contents \cup {NoContent}, Create(w, a, type, c)
      PROVE  UNCHANGED Ledger!vars
    BY <1>3 DEF Create, Ledger!vars
<1>4. ASSUME NEW w \in Workers, NEW r \in Requests, Started(w, r)
      PROVE  UNCHANGED Ledger!vars
    BY <1>4 DEF Started, tables, Ledger!vars
<1>5. ASSUME NEW a \in Agreements, LoseFiles(a) PROVE UNCHANGED Ledger!vars
    BY <1>5 DEF LoseFiles, Ledger!vars
<1>6. UNCHANGED vars => UNCHANGED Ledger!vars
    BY DEF vars, Ledger!vars
<1> QED
    BY <1>0, <1>1, <1>2, <1>3, <1>4, <1>5, <1>6, StepKinds

\* Credit agreements implement the ledger.
THEOREM ImplementsLedger ==
    Serial /\ FreshPages /\ SavesFinish => (Spec => LedgerSpec)
<1> SUFFICES ASSUME Serial, FreshPages, SavesFinish PROVE Spec => LedgerSpec
    OBVIOUS
<1>1. Init => Ledger!Init
    BY DEF Init, Ledger!Init, NoContent, Ledger!NoAmount
<1>2. FreshInv /\ [Next]_vars => FreshInv'
    BY FreshStep
<1>3. FreshInv /\ [Next]_vars => [Ledger!Next]_(Ledger!vars)
    BY LedgerStep
<1> QED
    BY <1>1, <1>2, <1>3, FreshInit, PTL DEF Spec, LedgerSpec, Ledger!Spec
=============================================================================
