--------------------------- MODULE CreditTransfer ---------------------------
(***************************************************************************)
(* Credit transfers: the seller drafts and submits a notice, the buyer     *)
(* accepts or rejects it, a government analyst recommends, the director    *)
(* records it in the credit_transaction table.                             *)
(*                                                                         *)
(* A request is served by one gunicorn worker inside one PostgreSQL        *)
(* transaction (ATOMIC_REQUESTS, READ COMMITTED, no select_for_update).    *)
(* Its steps here are: Receive* (get_object and the serializer's checks    *)
(* read committed rows), Save (the UPDATE takes the transfer's row lock,   *)
(* and validate_transfer reads the balance), Commit (the writes become     *)
(* visible) or Refuse (an exception rolls everything back).                *)
(*                                                                         *)
(* The backend never compares the stored status with the requested one.    *)
(* Which request a user can send is decided by the page in the browser,    *)
(* from the status the page was loaded with, which may be old.             *)
(***************************************************************************)
EXTENDS Integers, FiniteSetsExt

CONSTANTS
    Organizations,   \* the suppliers
    Keys,            \* (model year, credit class); the weight class is always LDV
    Transfers,       \* ids of credit transfers
    Contents,        \* contents the form offers, summed by key
    Workers,         \* gunicorn workers
    Opening,         \* [Organizations -> [Keys -> Nat]]: credits issued before
    FreshPages,      \* TRUE: every page shows the stored status when it is used
    LedgerBound      \* bound on what one organization is debited, by key

NoContent == [k \in Keys |-> 0]

ASSUME ContentsAssumption == Contents \subseteq [Keys -> Nat] \ {NoContent}
ASSUME OpeningAssumption == Opening \in [Organizations -> [Keys -> Nat]]
ASSUME FreshPagesAssumption == FreshPages \in BOOLEAN
ASSUME LedgerBoundAssumption == LedgerBound \in Nat

Government == "government"

ASSUME GovernmentAssumption == Government \notin Organizations

VARIABLES
    transfer,    \* credit_transfer rows
    content,     \* credit_transfer_content rows of each transfer, summed by key
    credited,    \* credit_transaction rows, summed by credit_to and key
    debited,     \* credit_transaction rows, summed by debit_from and key
    linked,      \* rows linked by credit_transfer_credit_transaction, by key
    signed,      \* signing authority confirmations: the content each party signed
    pages,       \* statuses of a transfer that pages still open in a browser show
    job          \* the request each worker is serving

vars == <<transfer, content, credited, debited, linked, signed, pages, job>>

-----------------------------------------------------------------------------
\* Rows and requests

Absent == "ABSENT"   \* no such row yet

Statuses ==
    { "DRAFT", "SUBMITTED", "APPROVED", "DISAPPROVED", "RECOMMEND_APPROVAL",
      "RECOMMEND_REJECTION", "VALIDATED", "RESCIND_PRE_APPROVAL", "RESCINDED",
      "REJECTED", "DELETED" }

Rows == [ status : Statuses \cup {Absent},
          debit_from : Organizations, credit_to : Organizations ]

Idle == [phase |-> "idle"]

\* status and credit_to are what the row will get; signer is who confirms the
\* signing assertions, if anyone; edits says that the request replaces the
\* content, by rows that sum to content; missed are the rows that the other
\* worker's edit of the same transfer added while this one was in progress.
Requests ==
    [ phase : {"read", "saved"}, transfer : Transfers, status : Statuses,
      signer : SUBSET Organizations, edits : BOOLEAN, content : [Keys -> Nat],
      credit_to : Organizations, missed : [Keys -> Nat] ]

\* A notice rescinded before the buyer accepted it gets a status of its own,
\* by the status that get_object read.
StatusToSave(seen, status) ==
    IF seen = "SUBMITTED" /\ status = "RESCINDED" THEN "RESCIND_PRE_APPROVAL"
    ELSE status

\* Mutant: the buyer is not asked to confirm.
SignerOfSubmission(by, status) == {o \in Organizations : o = by /\ status = "SUBMITTED"}

\* Suppliers confirm the signing assertions when they submit or accept.
Signer(by, status) ==
    {o \in Organizations : o = by /\ status \in {"SUBMITTED", "APPROVED"}}

Request(t, by, status, edits, c, to) ==
    [ phase |-> "read", transfer |-> t,
      status |-> StatusToSave(transfer[t].status, status),
      signer |-> Signer(by, status), edits |-> edits, content |-> c,
      credit_to |-> to, missed |-> NoContent ]

TypeOK ==
    /\ transfer \in [Transfers -> Rows]
    /\ content \in [Transfers -> [Keys -> Nat]]
    /\ credited \in [Organizations -> [Keys -> Nat]]
    /\ debited \in [Organizations -> [Keys -> Nat]]
    /\ linked \in [Transfers -> [Keys -> Nat]]
    /\ signed \in [Transfers -> [Organizations -> [Keys -> Nat]]]
    /\ pages \in [Transfers -> SUBSET Statuses]
    /\ job \in [Workers -> Requests \cup {Idle}]

-----------------------------------------------------------------------------
\* Balances

Plus(c, d) == [k \in Keys |-> c[k] + d[k]]

Balance(o, k) == credited[o][k] - debited[o][k]

\* A key is in the aggregate only if some row of the organization has it.
HasRows(o, k) == credited[o][k] + debited[o][k] > 0

\* Statuses in which the content of a transfer counts as pending.
Pending == {"SUBMITTED", "APPROVED", "RECOMMEND_APPROVAL"}

PendingTotal(o, k, side) ==
    MapThenSumSet(LAMBDA t : content[t][k],
        {t \in Transfers : transfer[t].status \in Pending /\ transfer[t][side] = o})

\* Issued credits, plus those on their way in, less those on their way out.
Available(o, k) ==
    Balance(o, k) + PendingTotal(o, k, "credit_to") - PendingTotal(o, k, "debit_from")

\* What validate_status asks of a notice that is saved or submitted.
Sufficient(o, c) ==
    \A k \in Keys : c[k] > 0 => HasRows(o, k) /\ c[k] <= Available(o, k)

\* Mutant: asks for rows of every key, not for enough of them.
CoveredIfFound(o, c) == \A k \in Keys : c[k] > 0 => HasRows(o, k)

\* What validate_transfer asks of a notice that is recorded.
Covered(o, c) == \A k \in Keys : c[k] > 0 => HasRows(o, k) /\ c[k] <= Balance(o, k)

-----------------------------------------------------------------------------
\* What the pages offer and what the API shows

Editable == {"DRAFT", "RESCIND_PRE_APPROVAL", "RESCINDED"}
Recommended == {"RECOMMEND_APPROVAL", "RECOMMEND_REJECTION"}
Closed == {"DISAPPROVED", "VALIDATED", "REJECTED", "DELETED"}

\* A page that shows status s lets `by' ask for status new without an edit.
Offers(t, s, by, new) ==
    \/ /\ by = transfer[t].debit_from
       /\ s \in {"SUBMITTED", "APPROVED"} \cup Recommended
       /\ new = "RESCINDED"
    \/ /\ by = transfer[t].credit_to
       /\ \/ s \in {"APPROVED"} \cup Recommended /\ new = "RESCINDED"
          \/ s = "SUBMITTED" /\ new \in {"APPROVED", "DISAPPROVED"}
    \/ /\ by = Government
       /\ \/ s = "APPROVED" /\ new \in {"APPROVED"} \cup Recommended
          \/ s \in Recommended /\ new \in {s, "APPROVED", "VALIDATED", "REJECTED"}

\* get_queryset: anything else answers 404.
Visible(t, by) ==
    LET status == transfer[t].status IN
    \/ by = Government
       /\ status \notin { Absent, "DRAFT", "SUBMITTED", "DELETED",
                          "RESCIND_PRE_APPROVAL", "DISAPPROVED" }
    \/ by = transfer[t].credit_to /\ status \notin {Absent, "DRAFT", "DELETED"}
    \/ by = transfer[t].debit_from /\ status \notin {Absent, "DELETED"}

-----------------------------------------------------------------------------
\* Ids are not reused, so the seller of a notice that is yet to be made can be
\* chosen here; credit_to is the seller until the POST sets it.
Init ==
    /\ transfer \in [Transfers -> [ status : {Absent}, debit_from : Organizations,
                                    credit_to : Organizations ]]
    /\ \A t \in Transfers : transfer[t].credit_to = transfer[t].debit_from
    /\ content = [t \in Transfers |-> NoContent]
    /\ credited = Opening
    /\ debited = [o \in Organizations |-> NoContent]
    /\ linked = [t \in Transfers |-> NoContent]
    /\ signed = [t \in Transfers |-> [o \in Organizations |-> NoContent]]
    /\ pages = [t \in Transfers |-> {}]
    /\ job = [w \in Workers |-> Idle]

\* POST: the seller saves or submits a new notice.
ReceivePost(w, t, status, c, to) ==
    /\ job[w] = Idle
    /\ transfer[t].status = Absent
    /\ \A v \in Workers : job[v] # Idle => job[v].transfer # t
    /\ Sufficient(transfer[t].debit_from, c)
    /\ job' = [job EXCEPT ![w] =
                   Request(t, transfer[t].debit_from, status, TRUE, c, to)]
    /\ UNCHANGED <<transfer, content, credited, debited, linked, signed, pages>>

\* PATCH with content, from the edit form: save, submit or delete a notice.
ReceiveEdit(w, t, status, c, to) ==
    LET by == transfer[t].debit_from IN
    /\ job[w] = Idle
    /\ pages[t] \cap Editable # {}
    /\ Visible(t, by)
    /\ status \in {"DRAFT", "SUBMITTED"} => Sufficient(by, c)
    /\ job' = [job EXCEPT ![w] = Request(t, by, status, TRUE, c, to)]
    /\ UNCHANGED <<transfer, content, credited, debited, linked, signed, pages>>

\* PATCH without content, from the details page: a decision or a comment.
ReceiveDecision(w, t, by, status) ==
    /\ job[w] = Idle
    /\ \E s \in pages[t] : Offers(t, s, by, status)
    /\ Visible(t, by)
    /\ status = "VALIDATED" => \A k \in Keys :
           debited[transfer[t].debit_from][k] + content[t][k] <= LedgerBound
    /\ job' = [job EXCEPT ![w] =
                   Request(t, by, status, FALSE, NoContent, transfer[t].credit_to)]
    /\ UNCHANGED <<transfer, content, credited, debited, linked, signed, pages>>

\* Mutant: the row is not locked before the balance is read.
RowNeverLocked(w) == w \in Workers

\* The UPDATE of the row waits for the transaction that last updated it.
RowFree(w) ==
    \A v \in Workers \ {w} :
        job[v].phase = "saved" => job[v].transfer # job[w].transfer

\* Mutant: validate_transfer does not raise.
SaveUncovered(w) ==
    /\ job[w].phase = "read"
    /\ RowFree(w)
    /\ job' = [job EXCEPT ![w].phase = "saved"]
    /\ UNCHANGED <<transfer, content, credited, debited, linked, signed, pages>>

Save(w) ==
    /\ job[w].phase = "read"
    /\ RowFree(w)
    /\ job[w].status = "VALIDATED" =>
           Covered(transfer[job[w].transfer].debit_from, content[job[w].transfer])
    /\ job' = [job EXCEPT ![w].phase = "saved"]
    /\ UNCHANGED <<transfer, content, credited, debited, linked, signed, pages>>

\* validate_transfer raises: the request is rolled back as a whole.
Refuse(w) ==
    /\ job[w].phase = "read"
    /\ RowFree(w)
    /\ job[w].status = "VALIDATED"
    /\ ~Covered(transfer[job[w].transfer].debit_from, content[job[w].transfer])
    /\ job' = [job EXCEPT ![w] = Idle]
    /\ UNCHANGED <<transfer, content, credited, debited, linked, signed, pages>>

\* The DELETE of the old rows runs before the row lock is taken: when it started
\* before the other worker's edit was committed, it leaves that edit's rows.
ContentToSave(j) ==
    IF j.edits THEN {j.content, Plus(j.content, j.missed)} ELSE {content[j.transfer]}

\* Mutant: records when the analyst recommends it, too.
RecordOnRecommendation(j) ==
    LET from == transfer[j.transfer].debit_from
        rows == content[j.transfer] IN
    IF j.status \in {"VALIDATED", "RECOMMEND_APPROVAL"}
    THEN /\ credited' = [credited EXCEPT ![j.credit_to] = Plus(@, rows)]
         /\ debited' = [debited EXCEPT ![from] = Plus(@, rows)]
         /\ linked' = [linked EXCEPT ![j.transfer] = Plus(@, rows)]
    ELSE UNCHANGED <<credited, debited, linked>>

\* Mutant: records only what the analyst recommended for approval.
RecordIfRecommended(j) ==
    LET from == transfer[j.transfer].debit_from
        rows == content[j.transfer] IN
    IF j.status = "VALIDATED" /\ transfer[j.transfer].status = "RECOMMEND_APPROVAL"
    THEN /\ credited' = [credited EXCEPT ![j.credit_to] = Plus(@, rows)]
         /\ debited' = [debited EXCEPT ![from] = Plus(@, rows)]
         /\ linked' = [linked EXCEPT ![j.transfer] = Plus(@, rows)]
    ELSE UNCHANGED <<credited, debited, linked>>

\* One credit_transaction row and one link row per key of the content.
Record(j) ==
    LET from == transfer[j.transfer].debit_from
        rows == content[j.transfer] IN
    IF j.status = "VALIDATED"
    THEN /\ credited' = [credited EXCEPT ![j.credit_to] = Plus(@, rows)]
         /\ debited' = [debited EXCEPT ![from] = Plus(@, rows)]
         /\ linked' = [linked EXCEPT ![j.transfer] = Plus(@, rows)]
    ELSE UNCHANGED <<credited, debited, linked>>

\* The confirmations are stored with the transfer, for its content c.
Sign(j, c) ==
    signed' = [signed EXCEPT ![j.transfer] =
                   [o \in Organizations |-> IF o \in j.signer THEN c ELSE @[o]]]

\* After a commit open pages may go on showing what they showed before.  Pages
\* that offer no request any more are not kept.
Show(t, status) ==
    pages' = [pages EXCEPT ![t] = (IF FreshPages THEN {status} ELSE @ \cup {status})
                                      \ Closed]

Overlaps(v, j) == /\ job[v].phase = "read"
                  /\ job[v].transfer = j.transfer
                  /\ job[v].edits /\ j.edits

Release(w) ==
    job' = [v \in Workers |->
               IF v = w THEN Idle
               ELSE IF Overlaps(v, job[w])
               THEN [job[v] EXCEPT !.missed = job[w].content]
               ELSE job[v]]

\* instance.save() writes every column: status, and credit_to as it was read.
Commit(w) ==
    LET j == job[w]
        t == job[w].transfer IN
    /\ j.phase = "saved"
    /\ transfer' = [transfer EXCEPT ![t].status = j.status,
                                    ![t].credit_to = j.credit_to]
    /\ \E c \in ContentToSave(j) : content' = [content EXCEPT ![t] = c] /\ Sign(j, c)
    /\ Record(j)
    /\ Show(t, j.status)
    /\ Release(w)

Receive(w, t) ==
    \/ \E status \in {"DRAFT", "SUBMITTED"}, c \in Contents, to \in Organizations :
           ReceivePost(w, t, status, c, to)
    \/ \E status \in {"DRAFT", "SUBMITTED", "DELETED"}, c \in Contents,
          to \in Organizations : ReceiveEdit(w, t, status, c, to)
    \/ \E by \in Organizations \cup {Government}, status \in Statuses :
           ReceiveDecision(w, t, by, status)

Next ==
    \E w \in Workers :
        \/ \E t \in Transfers : Receive(w, t)
        \/ Save(w)
        \/ Refuse(w)
        \/ Commit(w)

Spec == Init /\ [][Next]_vars

-----------------------------------------------------------------------------
\* Properties for one worker and pages that show the stored status

\* One request is served at a time.
Serial == \A v, w \in Workers : v = w

\* No supplier spends credits it does not have: validate_transfer refuses a transfer
\* that the balance does not cover.  (With one worker this holds with old pages too.)
NoNegativeBalance ==
    \A o \in Organizations, k \in Keys : Balance(o, k) >= 0

\* A transfer has moved credits exactly when it is VALIDATED, and then its
\* content, once: rescinding, returning, editing, commenting and recording
\* never leave the ledger and the status telling different stories.
LedgerAgreesWithStatus ==
    \A t \in Transfers :
        linked[t] = IF transfer[t].status = "VALIDATED" THEN content[t] ELSE NoContent

\* From the moment the government sees a notice to review, what it would
\* record is what the seller and the buyer each signed, whatever was
\* rescinded, edited and submitted again on the way.
UnderReview == {"APPROVED", "VALIDATED", "REJECTED"} \cup Recommended

BothSigned ==
    \A t \in Transfers : transfer[t].status \in UnderReview =>
        \A o \in {transfer[t].debit_from, transfer[t].credit_to} :
            signed[t][o] = content[t]

\* Transfers use the ledger as CreditLedger promises: each posts at most once
\* and moves only what the seller has.
Ledger == INSTANCE CreditLedger
              WITH Documents <- Transfers, Reducing <- {}, Amounts <- Contents,
                   posted <- linked

LedgerSpec == Ledger!Spec

-----------------------------------------------------------------------------
\* Properties for any number of workers and any pages

\* A status VALIDATED is never written without ledger rows: the update of the
\* transfer and the rows of validate_transfer are one transaction.
ValidatedWasRecorded ==
    \A t \in Transfers : transfer[t].status = "VALIDATED" => linked[t] # NoContent

\* A notice that several workers record at once, or again from an old page, does
\* not overdraw its seller: the second waits for the row lock and only then
\* reads the balance.  (Two notices of one seller do not wait for each other.)
SingleNoticeCovered ==
    \A o \in Organizations, k \in Keys :
        (\A t, u \in Transfers :
             transfer[t].debit_from = o /\ transfer[u].debit_from = o => t = u)
            => Balance(o, k) >= 0
=============================================================================
