-------------------------- MODULE SalesSubmission --------------------------
(***************************************************************************)
(* Applications for credits: a supplier uploads a sheet of VINs and        *)
(* submits it, an analyst verifies it (every selected row becomes a record *)
(* of sale) and recommends it, the director issues the credits of the      *)
(* records.                                                                *)
(*                                                                         *)
(* As in CreditTransfer a request is one READ COMMITTED transaction of one *)
(* worker: Receive* (get_object, validate_validation_status and the checks *)
(* of update) and Commit (what it writes becomes visible).  Which requests *)
(* a user can send is decided by the page in the browser.                  *)
(*                                                                         *)
(* VIN_ALREADY_AWARDED compares two timestamps: a record of sale counts    *)
(* against a row only if it was created before the row was last updated.   *)
(* There is no clock here: older[s][v] are the submissions whose record of *)
(* v was created before the row of v in s was last updated.  Timestamps    *)
(* are ordered as the commits are, which is exact for one worker.          *)
(***************************************************************************)
EXTENDS Integers, FiniteSets, Functions

CONSTANTS
    Organizations,   \* the suppliers
    Keys,            \* (model year, credit class)
    Submissions,     \* ids of sales submissions
    Vins,            \* VINs, all of vehicles that are validated
    Sheets,          \* the sets of VINs a spreadsheet may list
    Workers,         \* gunicorn workers
    Supplier,        \* [Submissions -> Organizations]
    CreditsOf,       \* [Vins -> [Keys -> Nat]]: get_credit_value of the vehicle
    FreshPages,      \* TRUE: every page shows the stored status when it is used
    AttachToIssued,  \* TRUE: documents are attached to issued submissions, too
    IssueBound       \* how many times the credits of one submission are issued

ASSUME VinsAssumption == IsFiniteSet(Vins)
ASSUME SheetsAssumption == Sheets \subseteq (SUBSET Vins) \ {{}}
ASSUME SupplierAssumption == Supplier \in [Submissions -> Organizations]
ASSUME CreditsOfAssumption == CreditsOf \in [Vins -> [Keys -> Nat]]
ASSUME FreshPagesAssumption == FreshPages \in BOOLEAN
ASSUME AttachToIssuedAssumption == AttachToIssued \in BOOLEAN
ASSUME IssueBoundAssumption == IssueBound \in Nat

VARIABLES
    status,        \* validation_status of each sales_submission row
    rows,          \* VINs of its sales_submission_content rows
    older,         \* by row: the submissions with an older record of the VIN
    flagged,       \* rows whose warnings_list has VIN_ALREADY_AWARDED
    records,       \* how many record_of_sale rows a submission has of a VIN
    credited,      \* credit_transaction rows, summed by credit_to and key
    posted,        \* credit_transaction rows linked to a submission, by key
    pages,         \* statuses that details pages still open in a browser show
    vinPage,       \* the analyst's VIN list page of a submission
    job,           \* the request each worker is serving
    issuedBefore   \* history: VINs issued by others when the sheet was uploaded

browser == <<pages, vinPage>>
ledger == <<credited, posted>>
vars == <<status, rows, older, flagged, records, ledger, browser, job, issuedBefore>>

-----------------------------------------------------------------------------
Absent == "ABSENT"   \* no such row yet

Statuses == { "DRAFT", "SUBMITTED", "CHECKED", "RECOMMEND_APPROVAL", "VALIDATED",
              "REJECTED", "DELETED" }

Idle == [kind |-> "idle"]
Closed == [open |-> FALSE]

\* A VIN list page is the one of Verify (reset=Y) or of Review Details.  The rows
\* it shows as flagged have no checkbox; those kept among them are selected.
VinPages == [ open : {TRUE}, reset : BOOLEAN, shown : SUBSET Vins, kept : SUBSET Vins ]

\* seen is the status get_object read and status the one to write.  vins are the
\* rows of an uploaded sheet or the rows a check leaves selected; missed belongs
\* to a check: how many records of each VIN were inserted by an overlapping check
\* of the same submission.
Requests ==
    [ kind : {"decision", "check", "patch", "upload"}, submission : Submissions,
      seen : Statuses, status : Statuses, vins : SUBSET Vins, missed : [Vins -> Nat] ]

NoAmount == [k \in Keys |-> 0]
NoRecords == [v \in Vins |-> 0]

Request(kind, s, new, vins) ==
    [ kind |-> kind, submission |-> s, seen |-> status[s], status |-> new,
      vins |-> vins, missed |-> NoRecords ]

TypeOK ==
    /\ status \in [Submissions -> Statuses \cup {Absent}]
    /\ rows \in [Submissions -> SUBSET Vins]
    /\ older \in [Submissions -> [Vins -> SUBSET Submissions]]
    /\ flagged \in [Submissions -> SUBSET Vins]
    /\ records \in [Submissions -> [Vins -> Nat]]
    /\ credited \in [Organizations -> [Keys -> Nat]]
    /\ posted \in [Submissions -> [Keys -> Nat]]
    /\ pages \in [Submissions -> SUBSET Statuses]
    /\ vinPage \in [Submissions -> {Closed} \cup VinPages]
    /\ job \in [Workers -> {Idle} \cup Requests]
    /\ issuedBefore \in [Submissions -> SUBSET Vins]

-----------------------------------------------------------------------------
\* Credits and warnings

Worth(recs) ==
    [k \in Keys |-> SumFunctionOnSet([v \in Vins |-> recs[v] * CreditsOf[v][k]], Vins)]

Plus(c, d) == [k \in Keys |-> c[k] + d[k]]

\* Mutant: the credit_transaction is not linked to the submission.
AwardUnlinked(s) ==
    /\ credited' = [credited EXCEPT ![Supplier[s]] = Plus(@, Worth(records[s]))]
    /\ UNCHANGED posted

\* award_credits: one credit_transaction and one link per vehicle.
Award(s) ==
    /\ credited' = [credited EXCEPT ![Supplier[s]] = Plus(@, Worth(records[s]))]
    /\ posted' = [posted EXCEPT ![s] = Plus(@, Worth(records[s]))]

\* Submissions other than s that have a record of v.
Recorded(s, v) == {u \in Submissions \ {s} : records[u][v] > 0}

\* The rows that populate_already_awarded_warnings flags.
AlreadyAwarded(s) ==
    {v \in rows[s] : \E u \in older[s][v] : status[u] \notin {"REJECTED", "DELETED"}}

Issued(s, v) == status[s] = "VALIDATED" /\ records[s][v] > 0

-----------------------------------------------------------------------------
\* What a details page that shows status st offers

SupplierOffers(st, new) == st = "DRAFT" /\ new \in {"SUBMITTED", "DELETED"}

GovernmentOffers(st, new) ==
    \/ st \in {"SUBMITTED", "CHECKED"} /\ new = "REJECTED"
    \/ st = "CHECKED" /\ new = "RECOMMEND_APPROVAL"
    \/ st = "RECOMMEND_APPROVAL" /\ new \in {"CHECKED", "VALIDATED"}

\* validate_validation_status, with the permissions the pages ask for too.
Allowed(seen, new) ==
    /\ seen # "VALIDATED"
    /\ new = "VALIDATED" => seen = "RECOMMEND_APPROVAL"
    /\ new = "DELETED" => seen \in {"REJECTED", "DRAFT"}
    /\ new = "RECOMMEND_APPROVAL" => seen \in {"SUBMITTED", "CHECKED"}

\* get_queryset for the government.
VisibleToGovernment(s) == status[s] \notin {Absent, "DRAFT"}

Init ==
    /\ status = [s \in Submissions |-> Absent]
    /\ rows = [s \in Submissions |-> {}]
    /\ older = [s \in Submissions |-> [v \in Vins |-> {}]]
    /\ flagged = [s \in Submissions |-> {}]
    /\ records = [s \in Submissions |-> NoRecords]
    /\ credited = [o \in Organizations |-> NoAmount]
    /\ posted = [s \in Submissions |-> NoAmount]
    /\ pages = [s \in Submissions |-> {}]
    /\ vinPage = [s \in Submissions |-> Closed]
    /\ job = [w \in Workers |-> Idle]
    /\ issuedBefore = [s \in Submissions |-> {}]

Start(w, request) ==
    /\ job[w] = Idle
    /\ job' = [job EXCEPT ![w] = request]
    /\ UNCHANGED <<status, rows, older, flagged, records, ledger, browser, issuedBefore>>

\* The supplier submits or deletes a draft.  update refuses a supplier unless
\* the stored status is DRAFT or REJECTED.
ReceiveSupplier(w, s, new) ==
    /\ \E st \in pages[s] : SupplierOffers(st, new)
    /\ status[s] \in {"DRAFT", "REJECTED"}
    /\ Allowed(status[s], new)
    /\ Start(w, Request("decision", s, new, {}))

\* The analyst or the director decides on the details page.
ReceiveGovernment(w, s, new) ==
    /\ \E st \in pages[s] : GovernmentOffers(st, new)
    /\ VisibleToGovernment(s)
    /\ Allowed(status[s], new)
    /\ Start(w, Request("decision", s, new, {}))

\* The comment box is shown while the submission is under review.
MayComment(s) == pages[s] \cap {"CHECKED", "RECOMMEND_APPROVAL"} # {}

\* The button to attach documents is shown whatever the status is.
MayAttach(s) == status[s] = "VALIDATED" => AttachToIssued

\* A comment or a document is a PATCH without a validation_status, so nothing
\* validates it.
ReceivePatch(w, s) ==
    /\ MayComment(s) \/ MayAttach(s)
    /\ VisibleToGovernment(s)
    /\ \A k \in Keys : posted[s][k] < IssueBound * Worth(records[s])[k] \/ posted[s][k] = 0
    /\ Start(w, Request("patch", s, status[s], {}))

\* Save on the VIN list page: any selection of the rows that have a checkbox, and
\* the flagged ones as they are.  It is refused once the submission is recommended.
ReceiveCheck(w, s, selected) ==
    /\ vinPage[s].open
    /\ selected \cap vinPage[s].shown = vinPage[s].kept
    /\ VisibleToGovernment(s)
    /\ status[s] # "RECOMMEND_APPROVAL"
    /\ Allowed(status[s], "CHECKED")
    /\ Start(w, Request("check", s, "CHECKED", selected))

\* A new sheet for an existing submission: ingest_sales_spreadsheet looks at no
\* status, and its save writes the status that it read.
ReceiveUpload(w, s, sheet) ==
    /\ "DRAFT" \in pages[s]
    /\ status[s] # Absent
    /\ Start(w, Request("upload", s, status[s], sheet))

-----------------------------------------------------------------------------
\* Pages

Show(s, new) ==
    pages' = [pages EXCEPT ![s] = IF FreshPages THEN {new} ELSE @ \cup {new}]

\* Which VIN pages of s go on after a commit that leaves status new.
KeepVinPage(s, new) ==
    vinPage' = IF FreshPages /\ new \notin {"SUBMITTED", "CHECKED"}
               THEN [vinPage EXCEPT ![s] = Closed] ELSE vinPage

\* Verify with ICBC Data (reset=Y) recomputes the warnings and stores them.
\* `unselected' has every flagged row.
OpenVerify(w, s) ==
    /\ job[w] = Idle
    /\ pages[s] \cap {"SUBMITTED", "CHECKED"} # {}
    /\ VisibleToGovernment(s)
    /\ flagged' = [flagged EXCEPT ![s] = AlreadyAwarded(s)]
    /\ vinPage' = [vinPage EXCEPT ![s] =
           [open |-> TRUE, reset |-> TRUE, shown |-> AlreadyAwarded(s), kept |-> {}]]
    /\ UNCHANGED <<status, rows, older, records, ledger, pages, job, issuedBefore>>

\* Turning a page of the table, sorting or filtering it recomputes the warnings
\* but not the selection: a row flagged only now stays as it was.
TurnPage(w, s) ==
    /\ job[w] = Idle
    /\ vinPage[s].open /\ vinPage[s].reset
    /\ flagged' = [flagged EXCEPT ![s] = AlreadyAwarded(s)]
    /\ \E kept \in SUBSET AlreadyAwarded(s) :
           /\ kept \cap vinPage[s].shown \subseteq vinPage[s].kept
           /\ vinPage[s].kept \cap AlreadyAwarded(s) \subseteq kept
           /\ vinPage' = [vinPage EXCEPT ![s] =
                  [open |-> TRUE, reset |-> TRUE, shown |-> AlreadyAwarded(s), kept |-> kept]]
    /\ UNCHANGED <<status, rows, older, records, ledger, pages, job, issuedBefore>>

\* What Review Details shows: the stored warnings; unselected are the rows
\* without a record of their own.
Reviewed(s) ==
    [open |-> TRUE, reset |-> FALSE, shown |-> flagged[s],
     kept |-> {v \in flagged[s] : records[s][v] > 0}]

\* Mutant: Review Details is enabled before the first verification.
OpenReviewUnverified(w, s) ==
    /\ job[w] = Idle
    /\ pages[s] \cap {"SUBMITTED", "CHECKED"} # {}
    /\ VisibleToGovernment(s)
    /\ vinPage' = [vinPage EXCEPT ![s] = Reviewed(s)]
    /\ UNCHANGED <<status, rows, older, flagged, records, ledger, pages, job, issuedBefore>>

OpenReview(w, s) ==
    /\ job[w] = Idle
    /\ "CHECKED" \in pages[s]
    /\ VisibleToGovernment(s)
    /\ vinPage' = [vinPage EXCEPT ![s] = Reviewed(s)]
    /\ UNCHANGED <<status, rows, older, flagged, records, ledger, pages, job, issuedBefore>>

-----------------------------------------------------------------------------
\* Commits

\* upload without an id makes a new submission.
UploadNew(w, s, sheet) ==
    /\ job[w] = Idle
    /\ status[s] = Absent
    /\ status' = [status EXCEPT ![s] = "DRAFT"]
    /\ rows' = [rows EXCEPT ![s] = sheet]
    /\ older' = [older EXCEPT ![s] = [v \in Vins |->
                     IF v \in sheet THEN Recorded(s, v) ELSE {}]]
    /\ issuedBefore' = [issuedBefore EXCEPT ![s] =
                     {v \in sheet : \E u \in Submissions \ {s} : Issued(u, v)}]
    /\ Show(s, "DRAFT")
    /\ UNCHANGED <<flagged, records, ledger, vinPage, job>>

\* Rows are deleted and made anew, records of sale are not.  A check that refers
\* to the old rows fails on its reasons, whether it is under way or comes later.
CommitUpload(w) ==
    LET j == job[w]
        s == job[w].submission IN
    /\ j.kind = "upload"
    /\ status' = [status EXCEPT ![s] = j.status]
    /\ rows' = [rows EXCEPT ![s] = j.vins]
    /\ older' = [older EXCEPT ![s] = [v \in Vins |->
                     IF v \in j.vins THEN Recorded(s, v) ELSE {}]]
    /\ flagged' = [flagged EXCEPT ![s] = {}]
    /\ issuedBefore' = [issuedBefore EXCEPT ![s] =
                     {v \in j.vins : \E u \in Submissions \ {s} : Issued(u, v)}]
    /\ Show(s, j.status)
    /\ vinPage' = [vinPage EXCEPT ![s] = Closed]
    /\ job' = [x \in Workers |->
                  IF x = w \/ (job[x].kind = "check" /\ job[x].submission = s)
                  THEN Idle ELSE job[x]]
    /\ UNCHANGED <<records, ledger>>

\* Mutant: awards on the analyst's recommendation, too.
CommitDecisionEarlyAward(w) ==
    LET j == job[w]
        s == job[w].submission IN
    /\ j.kind = "decision"
    /\ status' = [status EXCEPT ![s] = j.status]
    /\ IF j.status \in {"VALIDATED", "RECOMMEND_APPROVAL"} THEN Award(s)
       ELSE UNCHANGED ledger
    /\ Show(s, j.status)
    /\ KeepVinPage(s, j.status)
    /\ job' = [job EXCEPT ![w] = Idle]
    /\ UNCHANGED <<rows, older, flagged, records, issuedBefore>>

\* perform_update saves the status and awards the credits in one transaction.
CommitDecision(w) ==
    LET j == job[w]
        s == job[w].submission IN
    /\ j.kind = "decision"
    /\ status' = [status EXCEPT ![s] = j.status]
    /\ IF j.status = "VALIDATED" THEN Award(s) ELSE UNCHANGED ledger
    /\ Show(s, j.status)
    /\ KeepVinPage(s, j.status)
    /\ job' = [job EXCEPT ![w] = Idle]
    /\ UNCHANGED <<rows, older, flagged, records, issuedBefore>>

\* perform_update looks at the status of the submission, not at the request's.
CommitPatch(w) ==
    /\ job[w].kind = "patch"
    /\ IF job[w].seen = "VALIDATED" THEN Award(job[w].submission) ELSE UNCHANGED ledger
    /\ job' = [job EXCEPT ![w] = Idle]
    /\ UNCHANGED <<status, rows, older, flagged, records, browser, issuedBefore>>

\* Mutant: the old records of the submission are not deleted.
RecordsAfterCheckKept(j) ==
    {[v \in Vins |-> records[j.submission][v] + (IF v \in j.vins THEN 1 ELSE 0)]}

\* All records of the submission are deleted, and one is made for each selected
\* row.  The DELETE may have run before an overlapping check was committed.
RecordsAfterCheck(j) ==
    LET made == [v \in Vins |-> IF v \in j.vins THEN 1 ELSE 0] IN
    {made, [v \in Vins |-> made[v] + j.missed[v]]}

\* Saving the reasons of the rows of one page of the table updates those rows.
\* Records of the submission are now newer than all rows of other submissions.
OlderAfterCheck(j, touched) ==
    [u \in Submissions |-> [v \in Vins |->
        IF u # j.submission THEN older[u][v] \ {j.submission}
        ELSE IF v \in touched THEN Recorded(u, v) ELSE older[u][v]]]

CommitCheck(w) ==
    LET j == job[w]
        s == job[w].submission IN
    /\ j.kind = "check"
    /\ status' = [status EXCEPT ![s] = j.status]
    /\ \E recs \in RecordsAfterCheck(j) : records' = [records EXCEPT ![s] = recs]
    /\ \E touched \in (SUBSET rows[s]) \ {{}} : older' = OlderAfterCheck(j, touched)
    /\ Show(s, j.status)
    /\ vinPage' = [vinPage EXCEPT ![s] = Closed]
    /\ job' = [x \in Workers |->
                  IF x = w THEN Idle
                  ELSE IF job[x].kind = "check" /\ job[x].submission = s
                  THEN [job[x] EXCEPT !.missed =
                            [v \in Vins |-> IF v \in j.vins THEN 1 ELSE 0]]
                  ELSE job[x]]
    /\ UNCHANGED <<rows, flagged, ledger, issuedBefore>>

Receive(w, s) ==
    \/ \E new \in Statuses : ReceiveSupplier(w, s, new) \/ ReceiveGovernment(w, s, new)
    \/ ReceivePatch(w, s)
    \/ \E selected \in SUBSET rows[s] : ReceiveCheck(w, s, selected)
    \/ \E sheet \in Sheets : ReceiveUpload(w, s, sheet)

Open(w, s) == OpenVerify(w, s) \/ TurnPage(w, s) \/ OpenReview(w, s)

Commit(w) == CommitDecision(w) \/ CommitPatch(w) \/ CommitCheck(w) \/ CommitUpload(w)

Next ==
    \E w \in Workers :
        \/ \E s \in Submissions :
               \/ Receive(w, s)
               \/ Open(w, s)
               \/ \E sheet \in Sheets : UploadNew(w, s, sheet)
        \/ Commit(w)

Spec == Init /\ [][Next]_vars

-----------------------------------------------------------------------------
\* Properties for one worker and pages that show the stored status; the last two
\* as long as no document is attached to an issued submission

\* Warning 21 works for VINs that were issued when the sheet was uploaded: the
\* credits of such a VIN are never issued again, however often the submission was
\* verified, reviewed, returned and saved again, a page of rows at a time.
IssuedVinNotIssuedAgain ==
    \A s \in Submissions : \A v \in issuedBefore[s] : ~Issued(s, v)

\* From the first check on, the records of sale are a selection of the rows of the
\* sheet, one per row: no record is left from an earlier check or sheet.
RecordsSelectRows ==
    \A s \in Submissions :
        status[s] \in {"CHECKED", "RECOMMEND_APPROVAL", "VALIDATED"} =>
            \A v \in Vins : records[s][v] <= IF v \in rows[s] THEN 1 ELSE 0

\* The credits issued for a submission are those of its records, and only a
\* VALIDATED submission has any.
PostedForRecords ==
    \A s \in Submissions :
        posted[s] = IF status[s] = "VALIDATED" THEN Worth(records[s]) ELSE NoAmount

\* Submissions use the ledger as CreditLedger promises: each posts at most once.
Ledger == INSTANCE CreditLedger
              WITH Documents <- Submissions, Reducing <- {},
                   Amounts <- {Worth(recs) : recs \in [Vins -> 0 .. 1]},
                   Opening <- [o \in Organizations |-> NoAmount],
                   debited <- [o \in Organizations |-> NoAmount]

LedgerSpec == Ledger!Spec

-----------------------------------------------------------------------------
\* What the program says of itself, and does not keep

\* Error 21, "VIN already issued credit" (sales_spreadsheet.py:422): the credits of
\* a VIN are issued once.
VinIssuedOnce ==
    \A s, u \in Submissions, v \in Vins : s # u => ~(Issued(s, v) /\ Issued(u, v))

\* "Submission is already completed." (models/sales_submission.py:84): nothing is
\* posted for a submission once its credits are issued.
CompletedPostsNoMore ==
    [][\A s \in Submissions : posted[s] # NoAmount => posted'[s] = posted[s]]_vars
=============================================================================
