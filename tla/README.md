# TLA+ specifications of ZEVA

ZEVA is the system with which British Columbia administers the Zero-Emission
Vehicles Act: suppliers have their vehicle models validated, apply for credits for
the vehicles they sold, transfer credits to each other, and report each model year;
government analysts and a director review all of it. This directory holds TLA+
modules that model the parts of it that decide who has which credits, TLC
configurations that check them on small instances, and TLAPS proofs of what they
guarantee for every instance. Paths below are relative to `src/`.

- [The system](#the-system)
- [Components](#components)
- [How a request runs](#how-a-request-runs)
- [Modules](#modules)
- [Runs](#runs)
- [Where the code does not do what it says](#where-the-code-does-not-do-what-it-says)
- [What else the models show](#what-else-the-models-show)
- [Proofs](#proofs)
- [What is not modelled](#what-is-not-modelled)
- [Plan](#plan)

## The system

The backend (`backend/api`, Django REST framework over PostgreSQL) has a viewset
per kind of document; the serializer's `update` and `perform_update` are where a
document changes its status and where credits are posted. The frontend
(`frontend/src`, React) shows a document and offers the buttons that its status
allows. For most documents the backend hardly compares the stored status with the
requested one: the state machine of a document is the conjunction of what its page
offers, what `get_queryset` lets the user see and what the serializer refuses. For
model year reports the pages also do the arithmetic: what a report takes is computed
in the browser, saved as rows and posted from those rows.

Documents interact through one table, `credit_transaction`. A row has a
`credit_to` or a `debit_from` or both; the balance of a supplier for a model year
and a credit class is the difference of two sums over that table
(`services/credit_transaction.py`), never a stored number. Every kind of document
that posts to it keeps the rows it posted in a link table of its own. Nothing in
the schema limits how often a document posts or how low a balance may get.

The hard behaviours are therefore: two requests in flight at once, in two gunicorn
workers (`backend/gunicorn.cfg.py:2`), under READ COMMITTED and without explicit
locks; requests sent from pages that were opened before somebody else decided;
saves that take two requests, of which the second is late or lost; documents that
go back and forth between people many times; several corrections of one report, of
which a request changes "the latest"; a background thread that outlives its request
and works on an object store that no rollback undoes.

## Components

| Component | State | Operations | Correct when | Module |
|---|---|---|---|---|
| Credit transfers | transfer, content and comment rows, signing confirmations, history, rows they posted | save, submit, rescind, accept, reject, recommend, return, record, refuse | nobody spends what he does not have; ledger and status agree; both parties signed what is recorded, and pages say so truly; no notice is forgotten | `CreditTransfer`, `TransferHistory` |
| Credit ledger | `credit_transaction` rows | posted to by the documents; shown by the balance page | a document posts at most once, and moves only what is there; the page shows what the rows add up to | `CreditLedger`, `Accounts`, `BalancePage` |
| Sales submissions | submission, its rows with warnings, records of sale, rows they posted | upload, submit, verify, page through, check, recommend, return, reject, issue, comment, attach | the credits issued are those of the selected rows; a VIN that was issued before is not issued again | `SalesSubmission` (partly) |
| ICBC uploads | uploaded files in MinIO, upload dates, progress, registration data | upload, compare, ingest, remove the previous file, report progress | all or nothing; what is reported is true; the data agrees with the last file; the next upload has something to compare with | `IcbcUpload` (partly) |
| Credit agreements | agreement, content, rows they posted | save, send files, recommend, return, issue, delete | posts its content once, when issued | `CreditAgreement` |
| Credit reduction arithmetic (frontend) | none | what is owed; which deficits are offset and which credits are taken, in which order | loses no credit and no debt; oldest first; no deficit beside credits | `CreditReduction` |
| Model year reports | report, sales, confirmations, saved rows; the reductions posted, deficits and sales of record | create, confirm, edit, save, submit, correct, recommend, return, issue, delete | the reductions posted are those assessed, once; what the next report starts with is what the ledger has; a deficit is counted once | `ModelYearReport` (partly) |
| Supplementary reports | chain of reports over a model year report and its history; reassessments | create, save, submit, recommend, return, issue, delete | issued ones are final, the ledger gets the difference, the latest one is found | `SupplementalReport` (partly) |
| Vehicles | model, change history, uploads and reviews under way | save, send files, submit, validate, reject, request changes, (de)activate, delete | credits are those of what was reviewed; decisions are documented | `Vehicle` |
| Dashboard | none | counts by status, banners | leads whoever has to act to the document | transfers in `TransferHistory` |
| Sales forecasts | forecast rows of a report | replace | - | no: one transaction |
| Notifications | subscriptions | e-mail after a save | - | no: nothing depends on it |
| Organizations, users, roles | rows | create, update | - | no: taken as given |
| Authentication, permissions | none | token to user | - | no: external provider |
| File storage | objects | presigned URLs | - | only `bucket` in `IcbcUpload` |
| Frontend rendering | none | layout, routing | - | no: what a page offers is in the module of its document |

`PROJECT.json` lists for every component the files it consists of and, under
`hazards`, what can go wrong in it at which line and which property covers it.

## How a request runs

`ATOMIC_REQUESTS` is on: a request is one transaction and an exception rolls all
of it back. The isolation level is PostgreSQL's default, READ COMMITTED, and no
code asks for a lock, so a request reads the document without one (`get_object`),
checks what it read, and gets the row's lock when it updates the row. Two requests
for one document can both be past their checks before either is committed. In the
modules of transfers, sales submissions and agreements a worker (`Workers`) serves
one request at a time, and a request is

1. `Receive...`: read and check; the request is kept in `job[w]`;
2. `Save` (where the order of the update and a later read matters): the update
   that waits for the row lock, and what is read after it;
3. `Commit...`: what was written becomes visible, in one step; or `Refuse`.

With one worker steps of different requests never interleave. `Serial` (proofs)
and `Workers = {w1}` (runs) say so, and are an assumption where they appear: the
deployed configuration has two. In `Vehicle`, `ModelYearReport` and
`SupplementalReport` a request is one step; what they have instead is saves and
decisions that consist of two requests, with anything in between.

`pages` holds the statuses that pages still open in some browser show. With
`FreshPages = TRUE` every page is up to date when it is used; with `FALSE` a page
opened at any earlier status of the document may still be used, which nothing in
the backend excludes. Properties of the first kind say that the state machine as
the pages present it is right; those of the second kind say what the backend
guarantees whatever the browser sends.

## Modules

**`CreditLedger`** is the abstract specification: `credited`, `debited` and
`posted` (the rows linked to a document). A document posts at most once, and is
an award, a move of credits that the debited organization has, or, for the
documents in `Reducing`, a debit that looks at no balance. It is what the documents
rely on, and `CreditTransfer`, `SalesSubmission` (both with `Reducing <- {}`) and
`CreditAgreement` are shown to implement it (`LedgerSpec`, by
`INSTANCE CreditLedger WITH ...`). Reports and reassessments rewrite rows they
posted and so do not implement an append-only ledger; what theirs adds up to is
`Ledger` in `SupplementalReport`.

**`CreditTransfer`** models `viewsets/credit_transfer.py`,
`serializers/credit_transfer.py`, `services/credit_transaction.py`
(`validate_transfer`), and the pages that send requests.

| TLA+ | Code |
|---|---|
| `transfer`, `content` | `credit_transfer` and its content rows; content is summed by key (model year, credit class) |
| `credited`, `debited`, `linked` | `credit_transaction` rows summed by `credit_to` and `debit_from`, and those linked to a transfer |
| `signed` | the content at the time each party confirmed the signing assertions |
| `Sufficient` | `validate_status`: balance plus what is pending covers the content |
| `Covered` | the check of `validate_transfer`, on issued credits alone |
| `Offers`, `Editable`, `Visible` | the buttons of the details page and the edit form; `get_queryset` |
| `ReceivePost`, `ReceiveEdit`, `ReceiveDecision` | POST; PATCH with content; PATCH without |
| `Save`, `Refuse`, `Commit` | `instance.save()` and the balance check; the exception; the commit with `Record` |
| `missed` | rows that an overlapping edit inserted after this one's DELETE had started |

**`TransferHistory`** adds what pages tell of a transfer besides its status. The
details page names those who "signed and submitted" by comparing the newest rows of
`credit_transfer_history` of three kinds; `newest` keeps which kinds there are and
in which order their newest rows are (`AddRow`), which is all the page looks at.

| TLA+ | Code |
|---|---|
| `KindOfRow`, `AddRow` | the row every request adds (`serializers/credit_transfer.py`) |
| `ShowsSubmission`, `ShowsAcceptance`, `SignaturesShown` | `CreditTransfersDetailsPage.js` |
| `CountedAs` | `serializers/dashboard.py`: the status a document is counted under |
| `SupplierBanners`, `GovernmentBanners` | `ActionsBceid.js`, `ActionsIdir.js`: counted statuses and the filter the link sets |
| `Label` | the status column of `CreditTransfersListTable.js`, which the filter matches |
| `OpensForm`, `FormOffers`, `Asked` | which page a row opens and what it asks its user to decide |

**`SalesSubmission`** models `viewsets/credit_request.py`,
`serializers/sales_submission.py`, `models/sales_submission.py`,
`services/sales_spreadsheet.py`, `services/sales_submission.py` and the details
and VIN list pages.

| TLA+ | Code |
|---|---|
| `rows`, `records` | VINs of the sheet; the records of sale made by a check |
| `flagged` | the rows with warning 21 (`VIN_ALREADY_AWARDED`) as stored |
| `older` | the warning compares the creation time of a record with the update time of a row; instead of a clock, the submissions whose record is older than the row |
| `vinPage` | the analyst's VIN list: what it shows as flagged and which of those it keeps selected; flagged rows have no checkbox |
| `OpenVerify`, `TurnPage`, `OpenReview` | Verify (recomputes the warnings); the next page of the table (recomputes them again, not the selection); Review Details |
| `ReceiveCheck`, `CommitCheck` | Save on that page: all records are deleted and made anew |
| `ReceivePatch`, `CommitPatch` | a comment or an attached document: a PATCH without a status, which awards the credits if the submission is VALIDATED |
| `AttachToIssued` | `TRUE`: documents are attached to issued submissions, as the page allows |
| `issuedBefore` | history variable of `IssuedVinNotIssuedAgain`; no action reads it |

**`CreditAgreement`** models `viewsets/credit_agreement.py`,
`serializers/credit_agreement.py`, `services/credit_agreement.py` and the pages under
`frontend/src/creditagreements`.

| TLA+ | Code |
|---|---|
| `agreement`, `content` | `credit_agreement` rows and their content rows, summed by key |
| `posted` | rows linked by `credit_agreement_credit_transaction` |
| `Types` | as far as the code tells transaction types apart: `reduction` debits, `penalty` may be submitted without content, `allocation` is all others |
| `Create`, `ReceiveSave` | POST and PATCH of the edit form; the details and the content |
| `uploading`, `ReceiveFiles`, `LoseFiles` | the second PATCH of a save, sent when the files are uploaded and without a status; the upload that never ends |
| `ReceiveDecision`, `Offers` | PATCH with a status from the details page; its buttons |
| `StatusToSave` | DELETED is ignored, silently, unless the agreement is a draft or returned |
| `Commit`, `Posts`, `AdjustCredits` | the save of every column, and `adjust_credits` whenever the saved status is ISSUED |

A request without a status saves the one it read and posts if that is ISSUED. So
the second request of a save is harmless only while the agreement is not issued:
`SavesFinish = TRUE` says that nobody decides before the files of every save were
sent or given up. Nothing in the code waits for that.

**`Accounts`** composes `CreditTransfer` and `CreditAgreement` over one
`credit_transaction` table: both instances share `credited` and `debited`, and a
worker serves a request of either kind at a time.

**`IcbcUpload`** models `viewsets/icbc_verification.py` and
`services/icbc_upload.py`. `bucket` is MinIO, `named` the uploads whose
`icbc_upload_date` row has a filename, `data` the registration rows, and `thread`
the ingestion thread of each upload with the rows its open transaction wrote. A
thread that fails rolls back and reports the error on the default connection, through
`set_upload_progress`, which swallows its own exception: when the database does not take
it either, the progress stays as it was and the thread has ended `unheard`
(`ReportError`). A thread whose worker is killed reports nothing. `Refuse` has the exceptions that
are certain (no previous upload, an object that is gone, a deadlock), `Fail` the
ones that can happen at any time, `Die` the end of the worker. `overlapped` is a
history variable.

**`CreditReduction`** is the arithmetic of `frontend/src/app/utilities`, in
hundredths of a credit; a balance has a number for every year and class. It has no
variables and no RECURSIVE operator: sums over the years are recursive functions.

| TLA+ | Code |
|---|---|
| `TotalReduction`, `ClassAReduction`, `UnspecifiedReduction`, `UnspecifiedReductionBig` | `getTotalReduction.js`, `getClassAReduction.js`, `getUnspecifiedClassReduction(Big).js`: the supplier's page subtracts rounded numbers, the government's rounds the difference |
| `Consume`, `Offset`, `NewProvisionalBalance` | `getNewProvisionalBalance.js`: deficits of earlier years are offset in three passes, the selection deciding the order of the last two |
| `Take`, `CalculateCreditReduction` | `calculateCreditReduction(Big).js`: class A first, then unspecified from the selected class and the other one |
| `ObligationDetails`, `Reduce` | `getComplianceObligationDetails.js` and what the containers make of both |

**`ModelYearReport`** models the reports of one supplier: `viewsets/model_year_report*.py`,
`serializers/model_year_report.py`, `services/model_year_report.py` and the pages
under `frontend/src/compliance`.

| TLA+ | Code |
|---|---|
| `report` | `model_year_report`, its confirmations, the class selected, and `ldv_sales` of supplier and government with the `display` flag and which of the two is newest |
| `rows` | `model_year_report_compliance_obligation`: the rows saved by the supplier and by the government, with what they were computed from (`basis`) |
| `posted`, `deficits`, `orgSales` | the Reduction transactions of a report; `organization_deficits`; `organization_ldv_sales` |
| `credits`, `pending` | all other transactions by period; applications not decided yet |
| `TabStatus`, `Tabs`, `InformationOffers`, `SalesOffers`, `ObligationOffers`, `SummaryOffers`, `AnalystMay`, `DirectorMay` | `ComplianceReportTabs.js` and the details pages: which tab, and which buttons on it |
| `Opening`, `Basis` | what `ComplianceObligationContainer.js` loads: where the report of the year before ended, or the deficits of the supplier |
| `SaveObligation`, `Recommend`, `DirectorSave` | the requests that save rows; that of `Recommend` is not awaited and may be lost |
| `Assess`, `RowsOfRecord`, `Taken` | issuing: the reductions of the rows of record are posted, the deficits replaced |
| `EditAssessment` | the correction of the sales by the analyst |
| `Listing`, `SummaryBalance` | what the page of the obligation lists; the last line of the summary |
| `Post`, `SubmitApplication`, `DecideApplication` | what the other documents do to the credits of the supplier |

**`SupplementalReport`** adds the supplemental reports: `supps`, and `log`, which is
`supplemental_report_history`. A request names the report, and the backend changes
the latest supplemental that the user may see.

| TLA+ | Code |
|---|---|
| `Seen`, `PassedOver`, `LatestFor` | `get_latest_supplemental`: the supplemental report of the newest entry of the history that is shown; the government passes over what was returned right after it was submitted |
| `Ordered`, `LatestAssessed`, `StatusesAllowReassessment` | `services/supplemental_report.py`: the chain of links, and the order of creation when there is no single first one |
| `Listed`, `ActualStatus`, `SupplierOffers`, `AnalystOffers`, `DirectorOffers` | the lists and pages of `frontend/src/supplementary` |
| `ActivityRows`, `NewBalances`, `OldBalances` | `CreditActivity.js` |
| `ConstructReassessmentReductions`, `ReassessmentReductions` | `constructReassessmentReductions.js` and what `ReassessmentDetailsPage.js` sends |
| `SupplementalSave`, `MakeNew`, `SaveLatest`, `RemoveLatest` | the PATCH of a supplemental in `viewsets/model_year_report.py` |
| `AdjustCreditsReassessment`, `AdjustedCell`, `Found` | `adjust_credits_reassessment`: a transaction is found by its old value |
| `SupplierOpening`, `GovOpening` | what the report of the next year then starts with |

**`BalancePage`** models the page of a supplier's credit balance
(`getModelYearReportCreditBalances.js`, `calculateCreditBalance.js`, the queries of
`viewsets/organization.py`): it adds what moved since the last report that took
credits to what that report ended with.

**`Vehicle`** models `viewsets/vehicle.py`, `serializers/vehicle.py` and the pages
under `frontend/src/vehicles`.

| TLA+ | Code |
|---|---|
| `vehicle`, `history` | `vehicle`, with the credit stored at validation; `vehicle_change_history` |
| `CreditClass`, `CreditValue` | `services/vehicle.py` |
| `Create`, `Save`, `uploads`, `SaveFiles`, `LoseFiles` | the form: one request with the fields, and, when the files are uploaded, one with their names and the status |
| `Comment`, `reviews`, `Review`, `LoseReview` | a rejection or a request for changes: the comment, then the decision |
| `Decide`, `Validate`, `StateChange` | `state_change` with `validate_validation_status` |
| `SetActive`, `Unique` | the switch of a validated model; the constraint of the table |

The `MC*` modules give the constants values; the `*Proofs` modules hold the theorems.

## Runs

Deadlock is not checked in any run: users may stop sending requests and the number
of uploads, supplemental reports and steps is bounded, so each system may rightly stop.

| Run | Instance | Shows | States |
|---|---|---|---|
| `transfer_serial` | 2 suppliers, 2 notices, 2 keys, 1 worker, up-to-date pages | `NoNegativeBalance`, `LedgerAgreesWithStatus`, `BothSigned`, `SignedAsShown`, `NoticeRemembered`, implements `CreditLedger` | 1,052,585 |
| `transfer_concurrent` | 2 suppliers, 1 notice, 1 key, 2 workers, any page | `SingleNoticeCovered`, `ValidatedWasRecorded` | 4,025,292 |
| `transfer_overdraft` | 2 notices of a seller with credits for one, 2 workers | `NoNegativeBalance` is violated | |
| `sales_serial` | 2 submissions of 2 suppliers, 2 VINs, 1 worker, up-to-date pages, nothing attached to an issued one | `IssuedVinNotIssuedAgain`, `RecordsSelectRows`, `PostedForRecords`, implements `CreditLedger` | 227,525 |
| `sales_vin_twice` | 2 submissions, 1 VIN, 1 worker, up-to-date pages | `VinIssuedOnce` is violated | |
| `sales_issued_again` | 1 submission, 1 worker, up-to-date pages, documents attached at any time | `CompletedPostsNoMore` is violated | |
| `agreement_serial` | 2 agreements of 2 suppliers, 2 keys, 3 types, 1 worker, up-to-date pages, saves that finish | `LedgerAgreesWithStatus`, implements `CreditLedger` | 76,140 |
| `agreement_concurrent` | 1 agreement, 1 key, 3 types, 2 workers, any page | `IssuedIsPosted` | 862,616 |
| `accounts_concurrent` | 1 transfer, 1 agreement, 1 key, 2 workers, up-to-date pages | `NegativeOnlyByReductions` | 3,237,594 |
| `compliance` | 2 reports of a large supplier, 2 years, 2 numbers of vehicles, 2 supplemental reports | the sixteen properties of the modules of reports, listed below | 785,900 |
| `icbc_uploads` | 2 VINs, 3 files, 3 uploads after none or one earlier | `ReportedIsIngested`, `RowsOfIngestedFiles`, `DataAgreesWithLatest`, `PreviousKept`, `UploadsEnd` | 153,498 |
| `vehicles` | 2 models that may have the same name, 3 forms, up-to-date pages | `ValueAsValidated`, `DecisionsDocumented` | 2,380,564 |

The type invariants of transfers, submissions, agreements, uploads and vehicles are
proved for every instance and therefore not part of the runs; that of reports is both.

`compliance` checks, of saved rows, `ObligationAccounted` (no credit and no debt is
lost), `OldestFirst`, `NoCreditsBesideDeficit`, `SummaryAgrees` (the two pages that
show the outcome agree) and `DeficitsCountedOnce`; of what is posted,
`PostedIsAssessed`, `DeficitsOfOneAssessment`, `LedgerMatchesEnding` (what a report
ends with is what the transactions add up to), `ReassessedLedger` (a reassessment
that raises the sales leaves posted what the new sales take), `AssessedIsFinal` and
`AdjustedOnlyByAssessment`; of supplemental reports, `LatestAssessedIsLast`,
`ReassessmentAnswers` (the government goes on with no reassessment begun before a
submission it is shown) and `IssuedStaysIssued`; and of the balance page
`BalancePageAgrees`.

**Bounds.** Two suppliers are a buyer and a seller, and each can be either. Two
keys and contents of one and of two rows make a transfer that is covered in its
first row and not in its second; the opening balances (2 and 1, 1 and 0) make both
suppliers able to sell one notice and unable to sell two. One notice and two
workers are all that a row lock can order; a second notice multiplies the states
and is what `transfer_overdraft` adds. `LedgerBound` bounds what a supplier is
debited (a transfer recorded again from an old page would go on forever): 4 is
more than the notices of `transfer_serial` can move, and the bound 1 of
`transfer_concurrent` is what its seller has, so that a second record of the same
notice is refused by the check, which the run is about. `IssueBound` likewise lets
a submission's credits be issued twice. `PostingBound` stops requests for an
agreement that has posted so much: 1 is all a serial agreement ever posts, and 2 in
`agreement_concurrent` is an agreement issued once more than it should be.
`UploadBound` is the number of saves of an agreement or a model whose files are on
their way; one that overlaps another request is all it takes, and the POST adds one
more. `accounts_concurrent` has `UploadBound = 0` (only the POST's files) because
edits of an agreement do not touch the ledger, and one notice because with two of one
seller a balance becomes negative without any agreement (`transfer_overdraft`). Two
VINs with different values tell from a sum which records it is of; sheets of one and
of two VINs make two submissions share one row or both. Three uploads are the least
in which one is compared with the result of a failed one after a successful one; the
files disagree on every VIN, or agree on one and do not list the other. A model with
three rows of history (`HistoryBound`) was sent back, submitted and decided again;
the forms are a hybrid with and without the US06 claim and a van above the weight limit.

Two years are the least in which a report starts where another one ended. The numbers
of `compliance` are chosen so that every pass of the arithmetic has something to do:
in 2020 there is too little of class A, so that 10 vehicles leave a deficit and 20 a
larger one, and what period 2021 brings offsets it; the one credit adjustment that is
posted (-150 of class A) makes a balance negative, and the one application (60 of
class A) turns a deficit into none when it is issued in time. A run has a usual way,
from creation to assessment, that costs nothing, and `MaxDetours = 2` bounds the steps
off it (an edit, another selection, a return, a lost save, a posting, an application, a
supplemental from an old form): two is what a correction that meets another one takes.
Larger instances were explored without finding a violation: one report with 3
supplemental reports and 4 detours (556,572 states, all of them); random behaviours of 3
reports, 4 supplemental reports and 6 to 12 detours (29 million states, before
`BalancePageAgrees` was added); and, of `IssuedStaysIssued` and `LatestAssessedIsLast`
alone, one report with 6 supplemental reports and 7 detours (4.7 million distinct
states, not all of them). With 2 supplemental reports a submission that makes a new one
(`viewsets/model_year_report.py:992`) never meets a draft reassessment, which it leaves
listed; `ReassessmentAnswers` was therefore also explored with one report, 3 supplemental
reports and 6 detours, and is proved for any number.

Ids that no action tells apart are symmetric (`TransferSymmetry`, `AgreementSymmetry`,
`WorkerSymmetry`, `VehicleSymmetry`, and in `AllSymmetry` the two suppliers, whose
opening balances are the same there); `transfer_concurrent`, `transfer_overdraft` and
`accounts_concurrent` also leave `signed` out of the fingerprint (`VIEW Unsigned`),
which no action and no property of those runs reads.

**Fairness.** Only `UploadsEnd` needs any: `FairSpec` has weak fairness of
`Advance(u)`, the next step of an upload's thread. The thread runs without waiting
for anybody except for row locks, which end with the transaction that holds them,
and PostgreSQL's deadlock detector ends one of the transactions that wait for each
other (`Refuse`). Users, failures and killed workers are not fair. Two kinds of threads end
without an answer and are left out of `UploadsEnd`: those whose worker is killed, and
those whose error could not be written.

## Where the code does not do what it says

Three runs have a counterexample, listed with the quoted line under `findings`:

1. `transfer_overdraft` - `validate_transfer` (`services/credit_transaction.py:217`)
   locks only the row of the transfer itself, so two notices of one seller recorded
   at once by two workers are each covered by a balance that lacks the other.
2. `sales_vin_twice` - two suppliers' sheets with the same VIN, uploaded before
   either is checked: the record made for the first is newer than the row of the
   second, so warning 21 never flags it (`services/sales_submission.py:336`),
   unless the analyst happens to save reasons for that row later.
3. `sales_issued_again` - `perform_update` (`viewsets/credit_request.py:113`) awards
   the credits whenever the saved submission is VALIDATED. The details page offers to
   attach documents in every status, and sends them without a status: attached to an
   issued application they issue its credits again.

## What else the models show

The following came up while modelling. None is a disagreement with a quoted line of
the source; each explains a hypothesis of a property or a parameter of a module.

*Reports.* `calculateCreditReduction` subtracts a negative balance of a year from what
is still needed, which increases it. So with negative credits newer credits are taken
although older ones suffice, a deficit is left beside credits that could settle it, and
the summary disagrees with the obligation page: `NotNegative` is a hypothesis of
`OldestFirst`, `NoCreditsBesideDeficit`, `SummaryAgrees` and `DeficitsCountedOnce`. The
summary also counts a deficit twice if a report starts with credits and with a deficit
of one year and class (`Apart`). A first report that is filled in after a later one was
assessed starts with the deficits of the supplier and counts them in its own; reports
assessed out of order leave the deficits of the other year behind. `DeficitsCountedOnce`
is therefore a property of steps (what is saved against what is on record) and not of
states. The supplier's page and the government's round the unspecified reduction
differently, so a report that is issued on the supplier's rows may have taken another
amount than the same sales would (`AssessedFor`).

*Supplementary reports.* A request names the report, so a reassessment page that was
opened earlier, or that of a report of which another reassessment was issued since,
changes the latest one: an issued reassessment can be re-issued, or set back to
RECOMMENDED, and then removed. It takes two open at once or one that is passed over as
returned right after a submission; `OneAtATime` and `PassedOver = {}` exclude both, and
then `IssuedStaysIssued` holds. A submission ends the draft reassessments only when it
saves a draft or returned supplemental report; one that makes a new one leaves them listed
beside it. They are not gone on with (`ReassessmentAnswers`) unless the submission was
passed over. A link to a removed supplemental
breaks the chain, after which the latest assessed one is not found and the next report
starts elsewhere. A reassessment posts the difference found by going through the new
reductions: a class A reduction that is no longer made stays in the ledger, and raising
the sales again afterwards posts it twice; `RaisesSales` states when the ledger is right.
Every row of a reassessment's deficits is written to the year of the report itself, the
last one winning, and the deficits of earlier years stay. A supplemental that is RETURNED
to the supplier is on no banner of the supplier's dashboard, and one the government
returned is shown as "returned by the director".

*Balance page.* It computes with the corrected sales also when the rows of the government
were lost, offsets deficits as if no class was selected, does not read the deficits after
a reassessment, and shows no deficit for a supplier whose last assessment took nothing
(`LastReduced`, `Plain`, `Raised`). With two assessed reports of one year its query
raises an exception.

*Vehicles.* A model that claims US06 and was saved without the certificate can be
submitted from its details page, which does not ask for one. A form opened earlier
changes the fields of a validated model or sends it back to SUBMITTED (`FreshPages` in
`ValidatedIsReviewed`); submitting by the form writes no row of the history.
CHANGES_REQUESTED and DELETED are accepted in every status, and the page offers anyone to
delete.

*Transfers on the dashboard.* Two counters look for one status with `.find` and so miss
the other of the two they stand for; suppliers' recommended notices are counted as
awaiting the partner but listed as submitted to government, which
`NoticeRemembered` allows since nobody of them is asked to decide; the counter of notices
rejected by the partner is never set. The alert of the details page takes the first
APPROVED row of the history. The comment a recommendation requires can be one the
supplier wrote when rescinding.

*Sales submissions.* A comment made on the page of validated details is dropped, but its
PATCH awards again. The eligible total is shown twice for a make that is spelled in two
cases. The flag that an application was made for a model year report is never reset.

*ICBC uploads.* The previous file is removed from the bucket before the transaction that
replaces it commits (`services/icbc_upload.py:488`); if the commit does not follow, every
later upload fails because the file to compare with is gone. `PreviousKept` excludes
failures. The page's polling interval is never cleared.

## Proofs

TLAPS proves the following for any suppliers, keys, documents, workers, files, years,
numbers of vehicles and bounds that satisfy the `ASSUME`s of the modules (contents and
opening balances are natural numbers, a sheet lists finitely many VINs, `Government` is
not a supplier, reports have positive keys, the class A part of a ratio is no more than
the whole, and so on).

`CreditTransferProofs`:

- `TypeCorrect`: `Spec => []TypeOK`.
- `SerialNeverOverdraws` (assuming `Serial`) and `OneNoticeNeverOverdraws` (any
  number of workers): both follow from one inductive invariant, `BalanceInv`. Its
  heart is `SavedIsCovered`: between the check of the balance and the commit, the
  balance still covers the notice, provided nothing else can take the seller's
  credits (`Alone`). It needs `RowLocks`: two transactions never have the same
  notice updated. Without `Alone` it is false, which is what `transfer_overdraft`
  shows.
- `ValidatedAreRecorded` (any workers, any pages), from `RecordInv`: a notice in
  the table has content, so a status VALIDATED comes with ledger rows.
- `LedgerAgrees`, `BothHaveSigned` and `ImplementsLedger` (assuming `Serial` and
  `FreshPages`), from `FreshInv`: a page offers what the stored status calls for, so
  the request in progress is one the stored status allows (`RequestsAreFresh`), and
  the signatures of a notice are of its content since the status that asked for them
  (`SignedInTurn`). `ImplementsLedger` shows that initial states of transfers are
  those of the ledger and that each step is a `Move` or changes nothing of it.
- `SignaturesAreReal` (under the same assumptions), from `HistoryInv`: besides
  `FreshInv` it has `ShownInTurn`, that while the seller has a notice no signature is
  shown and a former acceptance is hidden by a rescission, and while the buyer has it
  only the seller's is. That is what keeps an old acceptance from being shown again when
  the notice is edited and submitted anew. `NoNoticeForgotten` needs no assumption: it
  follows from the types, going through who may decide in which status and which banner
  leads there.

`AccountsProofs`: `TransfersWereCredited`, for any suppliers, notices, agreements and
workers, pages of any age and saves that end or not. `Inv` strengthens
`NegativeOnlyByReductions` by `SavedWasCredited`: once the balance was checked, the
seller was ever *credited* enough to record the notice once more. The check compares
with the balance, which an agreement may reduce before the commit; what was credited only
grows, so it survives where `SavedIsCovered` of the transfers alone does not.
`LinkedIsDebited` connects the two, and `RowLocks` keeps two transactions from recording
one notice at once. Of an `INSTANCE`d module the prover can use definitions but not
theorems, so the types of both documents are proved again for the composition.

`SalesSubmissionProofs`:

- `SumType`, `SumRemove`, `SumSame`, `SumOfOne` are about `SumFunctionOnSet` of the module
  `Functions` over any finite set: its type, that any one term can be taken out, that it
  depends on the terms only, and a sum with a single term. The definition is recursive
  and takes the elements by a `CHOOSE`; the proofs find a smallest set that is a
  counterexample (from the well-founded order of the naturals) and need no induction rule.
- `TypeCorrect`, for any workers and pages.
- `IssuedVinsStayOut` and `RecordsAreRows` (assuming `Serial` and `FreshPages`),
  `RecordsArePosted` and `ImplementsLedger` (assuming `~AttachToIssued` too), from
  `FreshInv`. The flag of a VIN that was issued before the upload survives because the
  submission that issued it can no longer change, so that its record stays older than the
  row (`IssuedIsOlder`) whether the row is written again or not; the VIN page of a
  submission is open only while it is being verified, shows the flags and keeps none of
  such rows selected (`VinPageIsFresh`). A step is about one submission that is not
  issued: one lemma per action shows that this one stays `Fine`, and `OthersStayFine` that
  all the others do.

`CreditAgreementProofs`:

- `TypeCorrect`, and `IssuedArePosted` for any workers, pages and uploads. With the
  types `IssuedIsPosted` is inductive: only the commit that makes an agreement ISSUED
  can disturb it, and that commit posts the very rows it saves. It would not be if
  the backend posted only on the change to ISSUED, the obvious way to keep it from
  posting twice: a save that overlaps the decision changes the content without
  posting it.
- `LedgerAgrees` and `ImplementsLedger` (assuming `Serial`, `FreshPages` and
  `SavesFinish`), from `FreshInv`: the agreement of the request in progress is not
  ISSUED yet, and files that are still to follow belong to an agreement that can be
  edited (`UploadingIsOpen`). A commit that posts is an `Award` or a `Reduce`, or, for
  a penalty without content, changes nothing of the ledger.

`IcbcUploadProofs`:

- `TypeCorrect`, `ReportsAreTrue`, `AllOrNothing`, for uploads that overlap, fail and
  are killed in any way, from `CoreInv`: only a thread that has ended has a filename,
  and a transaction holds only rows of its own file. `HasLatest` carries the fact
  that the uploads with a filename have a greatest one, which would otherwise take
  an induction.
- `LastFileIsIngested` and `PreviousIsKept`, from `SerialInv`: unless uploads
  overlapped, the one under way is the last one, is compared with the latest file,
  and each VIN it need not process any more agrees with its file (`Compared`). This
  is why writing only the rows that changed is enough.

`VehicleProofs`: `TypeCorrect`; `ValidatedIsReviewed` (assuming `FreshPages`) from
`ValueInv`, the types, `Fresh` (pages show the stored status, so no form is open for a
validated model) and the property; `DecisionsAreDocumented` from `DocInv`, whose
`ReviewsCommented` says that a decision that is still to be sent has its comment. A step
saves the form (`FormSaved`), saves files (`FilesSaved`), decides (`Decided`) or is lost
(`Lost`).

`ModelYearReportProofs` begins with the lemmas about the arithmetic (`CreditReduction`):
for any number of years and any balances, what `Consume`, `Offset`, `NewProvisionalBalance`, `Take`,
`CalculateCreditReduction` and `Reduce` return, preserve and bound; `Reduced` puts them
together (nothing lost, oldest first, no deficit beside credits, no more carried than
owed). The functions are recursive on the years. That they exist is proved from the
well-founded order (`Running` is a total function), and what holds of all years from the
least year at which it would fail; both replace the induction rules, which need an
operator as a parameter. Monotonicity (`ClassADueGrows`, `ClassATakenGrows`: a supplier that
sold more owes and gives no less of class A in any year) is there for reassessments.

The rest of `ModelYearReportProofs`, about reports with their supplemental reports:

- `SupplementalsOfAssessed`: `Shape`, the invariant that everything else rests on
  (`ReportsShape`, `SuppsShape`, and `OfAssessed`: a supplemental report is of an assessed
  report). A step is one of three kinds: it changes no report and no supplemental
  (`Stays`), it is of one report that is not assessed (`OfReport`), or of supplemental
  reports of one that is (`OfSupplemental`); the lemma `StepKinds` gives for each what it
  may change. `AssessedReportsFinal`, `OnlyAssessmentsAdjust`, `ReductionsPosted` and `DeficitsOfLastAssessment` follow from these kinds.
- `EverythingComputed`: `Computed` says of the numbers what `Shape` says of the statuses.
  `RowsComputed`: every saved row is `Reduce` of a basis whose start and debts are not
  negative, and a report that left the draft has rows; it needs that the deficits and
  endings that a page loads are again of that kind (`Adjustable`, `Movable`,
  `SuppsComputed`), through reassessments too. `ComplianceTypes` is then a consequence, and
  with the lemmas about the arithmetic so are `NothingLost`, `OldestCreditsFirst`,
  `DeficitsSettledFirst` and `PagesAgree`.
- `CreditsAreThere` (`LedgerMatchesEnding`): along the years. The ledger of a year is that
  of the year before, the credits of the period and what the report took (`PostedIsAssessed`);
  the ending of an undisturbed report is the ending before with the same two changes. The
  least year in which they differ gives the contradiction.
- `NoDeficitTwice` (`DeficitsCountedOnce`): what a page loads as owed is on record for each
  year and class (`OwedOnRecord`, one case per source of an opening), and `Reduce` carries no
  more than is owed (`LeavesNoMore`); a step saves rows of one report only (`FreshRows`).

`SupplementalReportProofs`, which builds on it, about reassessments, the history and the
balance page:

- `HistoryTold`, `SelectionOfRecord`: what the rest needs to know of the records. The rows
  of a correction are those a page computes for its sales (`Figured`), links lead to
  earlier keys, keys are given in order and an issued reassessment is in the history
  (`History`); the rows of a report have the selection it shows (`SelectionsAgree`). A step
  of supplemental reports is a request for one report (`OfRequest`), which makes, writes or
  removes one of them (`RequestEffect`).
- `RaisedOnce` and `ReassessmentsPosted` (`ReassessedLedger`): the property speaks of every
  later state, so the invariant keeps what issuing left (`RaisedLedger`) together with the
  fact that a reassessment that is alone is issued once (`LoneIssued`): without it the
  changes could be posted on top of themselves. `ComparedReductions` shows that the
  reductions the director's page compares are what is posted and what the new sales take,
  `ClassATakenGrows` that none of class A vanishes, which is what the comparison would miss,
  and `CellSum` what updating and inserting the transactions of one year and class adds up
  to, whichever of two equal transactions is found for a change. `IssueRaises` puts them
  together; every other request leaves the ledger of such a report alone (`LoneRequest`).
- `BalanceTold` (`BalancePageAgrees`): `PlainShown` for a report without reassessment,
  `RaisedShown` for one with. The page adds to the balance of the latest rows what happened
  since; the ledger up to the year of those rows is what they end with
  (`LedgerOfUndisturbed`, from `LedgerMatchesEnding` and `RaisedLedger`), and nothing was
  taken after it (`NothingSpentAfter`, `LedgerSince`).
- `WrittenInOrder` and `IssuedIsFinal` (`IssuedStaysIssued`): which supplemental report a
  request writes is decided by the history (`LatestFor`), which page offers the request by
  the records. `Orderly` ties the two together. `Kept`: the newest entry of a supplemental
  report gives its status, those of the government are never submitted, and all were made
  in the order of their keys. `Settled`, for each report: once a reassessment is issued, or
  another one is told of at all that is not passed over, what was there before is not
  written again. What is passed over is the delicate part: the supplier does not pass it
  over, so `Paired`, `Tied` and `Gaps` say that a return right after a submission is a
  reassessment linked to what was submitted, written once, and that neither leaves the
  history before the other. `Acts` sums up what a request does to one report, `Fresh` what
  the newest entry then is. With one at a time the links go through the supplemental reports
  in the order of their keys (`LinkedInOrder`), so what is open beside an issued one would be
  older and followed up, or newer and written first (`IssuedIsAlone`).
- `AnswersSubmissions` (`ReassessmentAnswers`), from `Orderly` too: a reassessment begun
  before a submission and written after it would be written with that submission in
  between, which `Settled` excludes. It needs nothing of the drafts being ended.
- `LinksAreTraced` and `LatestIssuedIsLast` (`LatestAssessedIsLast`): the list that the
  property speaks of follows the links, "issued last" is told by the history. An issued
  reassessment can be set back while several are made at once, and those beside it can then
  be removed or deleted: if what is left looked as if made one at a time, the one issued
  last would not be assessed any more. It never looks so: whatever the order of requests, one that is set
  back leaves a trace (`Scar`) that rules it out. Either a submission before it stays that
  nothing, or another one of the supplier, is linked to (`ScarSent`), or an open
  reassessment before it (`ScarOpen`), or a returned pair after it (`ScarOver`), or the links
  from it end at what cannot be issued any more (`ScarCut`). `ScarMade` shows that setting it
  back leaves one, `ScarKept` that it stays (what was there before an issue is `Frozen`), and
  `ScarIsNotAlone` that it does not go with `OneAtATime`. `Drafts` is the part that is hard
  to find: all that the government is shown since it last saved a draft leads back to the
  draft, to a dead end, or was made after something was lost. `OrderedByKey` shows that the
  list of those made one at a time is that of their keys, `LastIssued` puts both together.

Only model-checked: `UploadsEnd` (liveness under fairness is out of the prover's reach).
Every other property of the runs that should hold is stated by a theorem.


## What is not modelled

- Weight classes (always LDV), credit values (each key is counted in whole credits in the
  modules of documents), comments as text, signing assertions one by one, e-mails; the
  history tables of agreements and submissions, which no code reads to decide anything.
- Of the warnings of a sales submission all but `VIN_ALREADY_AWARDED`; vehicles that
  are not validated; evidence files; the bulk reasons screen; the status
  `RECOMMEND_REJECTION`, which no page offers for submissions.
- Of the ICBC upload the percentages of the progress bar, the creation of ICBC
  vehicles and model years, and `chunk_upload`, which nothing in the frontend calls.
- With more than one worker, timestamps of sales submissions are ordered as commits
  are, which is exact for one; the runs with two workers have no submission.
- Of model year reports the makes, addresses, consumer sales by vehicle, comments and
  documents, and the averages that make a supplier small, medium or large (its class is a
  constant); pages of a report that were opened earlier; the two PATCHes of an assessment
  overtaking each other. Of supplemental reports all corrections but that of the number of
  vehicles; comments on a reassessment that is not saved yet.
- Of the dashboard the counts of documents other than transfers.
- The components marked "no" in the table above.

## Plan

1. `CreditLedger`, `CreditTransfer`, `SalesSubmission`, `IcbcUpload` with their runs
   and proofs. (Done.)
2. `CreditAgreement` with its proofs; `Accounts`, which composes it with transfers. (Done.)
3. `CreditReduction`, `ModelYearReport`, `SupplementalReport`, `BalancePage`, on one run.
   (Done.)
4. `Vehicle` and `TransferHistory` with their proofs. (Done.)
5. `ModelYearReportProofs`, from it `SupplementalReportProofs`, and `AccountsProofs`. (Done.)
6. Model year reports and supplemental reports with pages that were opened earlier, as the
   documents have them, and the proofs again for what then still holds.
