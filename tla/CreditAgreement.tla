--------------------------- MODULE CreditAgreement ---------------------------
(***************************************************************************)
(* Credit agreements and adjustments: an analyst saves an agreement with a *)
(* supplier and submits it to the director, who returns it or issues it,   *)
(* which posts its content to the credit_transaction table.                *)
(*                                                                         *)
(* As in CreditTransfer a request is one READ COMMITTED transaction of one *)
(* worker: Receive* (get_object) and Commit.  The backend ignores a DELETED*)
(* that comes too late and compares no other status with the stored one;   *)
(* a request without a status writes back the one it read, and posts the   *)
(* content if that is ISSUED.                                              *)
(*                                                                         *)
(* The page saves an agreement in two requests: its details and content,   *)
(* and, after the files are uploaded, its attachments (a PATCH without a   *)
(* status, also when there are none).                                      *)
(***************************************************************************)
EXTENDS Integers

CONSTANTS
    Organizations,   \* the suppliers
    Keys,            \* (model year, credit class); the weight class is always LDV
    Agreements,      \* ids of credit agreements
    Contents,        \* contents of the form with positive quantities, by key
    Types,           \* transaction types, as far as the code tells them apart
    Workers,         \* gunicorn workers
    Opening,         \* [Organizations -> [Keys -> Nat]]: credits issued before
    FreshPages,      \* TRUE: every page shows the stored status when it is used
    SavesFinish,     \* TRUE: nobody decides while a page still uploads its files
    UploadBound,     \* bound on the saves of an agreement whose files are uploaded
    PostingBound     \* no request for an agreement that has posted as much by a key

NoContent == [k \in Keys |-> 0]

ASSUME ContentsAssumption == Contents \subseteq [Keys -> Nat] \ {NoContent}
\* An administrative reduction, the automatic administrative penalty, which needs
\* no content, and all others.
ASSUME TypesAssumption == Types # {} /\ Types \subseteq {"reduction", "penalty", "allocation"}
ASSUME OpeningAssumption == Opening \in [Organizations -> [Keys -> Nat]]
ASSUME FlagsAssumption == FreshPages \in BOOLEAN /\ SavesFinish \in BOOLEAN
ASSUME BoundsAssumption == UploadBound \in Nat /\ PostingBound \in Nat

VARIABLES
    agreement,   \* credit_agreement rows
    content,     \* credit_agreement_content rows of each agreement, summed by key
    credited,    \* credit_transaction rows, summed by credit_to and key
    debited,     \* credit_transaction rows, summed by debit_from and key
    posted,      \* rows linked by credit_agreement_credit_transaction, by key
    pages,       \* statuses of an agreement that pages still open in a browser show
    uploading,   \* how many saves of an agreement still have to send their files
    job          \* the request each worker is serving

vars == <<agreement, content, credited, debited, posted, pages, uploading, job>>

-----------------------------------------------------------------------------
\* Rows and requests

Absent == "ABSENT"   \* no such row yet

Statuses == {"DRAFT", "RECOMMENDED", "ISSUED", "DELETED", "RETURNED"}

Rows == [ status : Statuses \cup {Absent}, organization : Organizations, type : Types ]

Idle == [phase |-> "idle"]

\* status and type are what the row will get.  edits says that the request
\* replaces the content, by rows that sum to content; missed are the rows that
\* the other worker's edit of the same agreement added while this one was in
\* progress; files says that a second request will follow.
Requests ==
    [ phase : {"read"}, agreement : Agreements, status : Statuses, type : Types,
      edits : BOOLEAN, content : [Keys -> Nat], missed : [Keys -> Nat], files : BOOLEAN ]

Editable == {"DRAFT", "RETURNED"}

\* update ignores DELETED unless the status that get_object read allows it.
StatusToSave(seen, asked) ==
    IF asked = "DELETED" /\ seen \notin Editable THEN seen ELSE asked

Request(a, asked, type, edits, c, files) ==
    [ phase |-> "read", agreement |-> a,
      status |-> StatusToSave(agreement[a].status, asked),
      type |-> type, edits |-> edits, content |-> c, missed |-> NoContent,
      files |-> files ]

TypeOK ==
    /\ agreement \in [Agreements -> Rows]
    /\ content \in [Agreements -> [Keys -> Nat]]
    /\ credited \in [Organizations -> [Keys -> Nat]]
    /\ debited \in [Organizations -> [Keys -> Nat]]
    /\ posted \in [Agreements -> [Keys -> Nat]]
    /\ pages \in [Agreements -> SUBSET Statuses]
    /\ uploading \in [Agreements -> Nat]
    /\ job \in [Workers -> Requests \cup {Idle}]

-----------------------------------------------------------------------------
\* What the pages offer and what the API shows

\* A details page that shows status s.  Submit is disabled without content.
Offers(a, s, new) ==
    \/ s \in Editable /\ new = "DELETED"
    \/ /\ s \in Editable /\ new = "RECOMMENDED"
       /\ FreshPages => agreement[a].type = "penalty" \/ content[a] # NoContent
    \/ s = "RECOMMENDED" /\ new \in {"RECOMMENDED", "RETURNED", "ISSUED"}

\* get_queryset for the government: anything else answers 404.
Visible(a) == agreement[a].status \notin {Absent, "DELETED"}

-----------------------------------------------------------------------------
\* The supplier of an agreement never changes, so it can be chosen here; its type is
\* set by the POST.
Init ==
    /\ agreement \in [Agreements -> [ status : {Absent}, organization : Organizations,
                                      type : {CHOOSE type \in Types : TRUE} ]]
    /\ content = [a \in Agreements |-> NoContent]
    /\ credited = Opening
    /\ debited = [o \in Organizations |-> NoContent]
    /\ posted = [a \in Agreements |-> NoContent]
    /\ pages = [a \in Agreements |-> {}]
    /\ uploading = [a \in Agreements |-> 0]
    /\ job = [w \in Workers |-> Idle]

\* After a commit open pages may go on showing what they showed before.
Show(a, status) ==
    pages' = [pages EXCEPT ![a] = IF FreshPages THEN {status} ELSE @ \cup {status}]

\* POST: a new agreement.  Rows without a quantity are not stored.
Create(w, a, type, c) ==
    /\ job[w] = Idle
    /\ agreement[a].status = Absent
    /\ agreement' = [agreement EXCEPT ![a].status = "DRAFT", ![a].type = type]
    /\ content' = [content EXCEPT ![a] = c]
    /\ uploading' = [uploading EXCEPT ![a] = 1]
    /\ Show(a, "DRAFT")
    /\ UNCHANGED <<credited, debited, posted, job>>

Start(w, a, request) ==
    /\ job[w] = Idle
    /\ Visible(a)
    /\ \A k \in Keys : posted[a][k] < PostingBound
    /\ job' = [job EXCEPT ![w] = request]
    /\ UNCHANGED <<agreement, content, credited, debited, posted, pages>>

\* PATCH with the details, from the edit form.  An empty list of rows leaves the
\* content as it is.
ReceiveSave(w, a, type, edits, c) ==
    /\ pages[a] \cap Editable # {}
    /\ uploading[a] < UploadBound
    /\ Start(w, a, Request(a, agreement[a].status, type, edits, c, TRUE))
    /\ UNCHANGED uploading

\* PATCH with the attachments, when the files are uploaded.
ReceiveFiles(w, a) ==
    /\ uploading[a] > 0
    /\ Start(w, a, Request(a, agreement[a].status, agreement[a].type, FALSE, NoContent,
                           FALSE))
    /\ uploading' = [uploading EXCEPT ![a] = @ - 1]

\* PATCH with a status, from the details page.
ReceiveDecision(w, a, new) ==
    /\ \E s \in pages[a] : Offers(a, s, new)
    /\ SavesFinish => uploading[a] = 0
    /\ Start(w, a, Request(a, new, agreement[a].type, FALSE, NoContent, FALSE))
    /\ UNCHANGED uploading

\* An upload fails or the page is closed: the second request is never sent.
LoseFiles(a) ==
    /\ uploading[a] > 0
    /\ uploading' = [uploading EXCEPT ![a] = @ - 1]
    /\ UNCHANGED <<agreement, content, credited, debited, posted, pages, job>>

-----------------------------------------------------------------------------
Plus(c, d) == [k \in Keys |-> c[k] + d[k]]

\* The DELETE of the old rows runs before the row lock is taken: when it started
\* before the other worker's edit was committed, it leaves that edit's rows.
ContentToSave(j) ==
    IF j.edits THEN {j.content, Plus(j.content, j.missed)} ELSE {content[j.agreement]}

\* Mutant: posts when the agreement is submitted to the director, too.
PostsEarly(j) == j.status \in {"RECOMMENDED", "ISSUED"}

\* Mutant: posts only what becomes ISSUED by this request.
PostsOnce(j) == j.status = "ISSUED" /\ agreement[j.agreement].status # "ISSUED"

\* perform_update looks at the status that was saved, not at the request's.
Posts(j) == j.status = "ISSUED"

\* Mutant: the rows are not linked to the agreement.
AdjustCreditsUnlinked(a, type, rows) ==
    LET o == agreement[a].organization IN
    /\ IF type = "reduction"
       THEN debited' = [debited EXCEPT ![o] = Plus(@, rows)] /\ UNCHANGED credited
       ELSE credited' = [credited EXCEPT ![o] = Plus(@, rows)] /\ UNCHANGED debited
    /\ UNCHANGED posted

\* Mutant: a reduction is a row with credit_to and a negative value.
AdjustCreditsNegated(a, type, rows) ==
    LET o == agreement[a].organization
        sign == IF type = "reduction" THEN -1 ELSE 1 IN
    /\ credited' = [credited EXCEPT ![o] = [k \in Keys |-> @[k] + sign * rows[k]]]
    /\ posted' = [posted EXCEPT ![a] = Plus(@, rows)]
    /\ UNCHANGED debited

\* adjust_credits: one credit_transaction row and one link row per row of the
\* content.  A reduction looks at no balance.
AdjustCredits(a, type, rows) ==
    LET o == agreement[a].organization IN
    /\ IF type = "reduction"
       THEN debited' = [debited EXCEPT ![o] = Plus(@, rows)] /\ UNCHANGED credited
       ELSE credited' = [credited EXCEPT ![o] = Plus(@, rows)] /\ UNCHANGED debited
    /\ posted' = [posted EXCEPT ![a] = Plus(@, rows)]

Overlaps(v, j) ==
    job[v] # Idle /\ job[v].agreement = j.agreement /\ job[v].edits /\ j.edits

Release(w) ==
    job' = [v \in Workers |->
               IF v = w THEN Idle
               ELSE IF Overlaps(v, job[w])
               THEN [job[v] EXCEPT !.missed = job[w].content]
               ELSE job[v]]

\* instance.save() writes every column: the status and the type as they were read,
\* unless the request changes them.
Commit(w) ==
    LET j == job[w]
        a == job[w].agreement IN
    /\ j # Idle
    /\ agreement' = [agreement EXCEPT ![a].status = j.status, ![a].type = j.type]
    /\ \E c \in ContentToSave(j) :
           /\ content' = [content EXCEPT ![a] = c]
           /\ IF Posts(j) THEN AdjustCredits(a, j.type, c)
              ELSE UNCHANGED <<credited, debited, posted>>
    /\ uploading' = [uploading EXCEPT ![a] = IF j.files THEN @ + 1 ELSE @]
    /\ Show(a, j.status)
    /\ Release(w)

Receive(w, a) ==
    \/ \E type \in Types, c \in Contents \cup {NoContent} :
           Create(w, a, type, c) \/ ReceiveSave(w, a, type, TRUE, c)
    \/ \E type \in Types : ReceiveSave(w, a, type, FALSE, NoContent)
    \/ ReceiveFiles(w, a)
    \/ \E new \in Statuses : ReceiveDecision(w, a, new)

Next ==
    \/ \E w \in Workers : (\E a \in Agreements : Receive(w, a)) \/ Commit(w)
    \/ \E a \in Agreements : LoseFiles(a)

Spec == Init /\ [][Next]_vars

-----------------------------------------------------------------------------
\* Properties for one worker, pages that show the stored status and saves that finish

\* An agreement has posted its content once if it is ISSUED and nothing otherwise,
\* however often it was saved, submitted, returned and its type or its rows changed.
LedgerAgreesWithStatus ==
    \A a \in Agreements :
        posted[a] = IF agreement[a].status = "ISSUED" THEN content[a] ELSE NoContent

\* Agreements use the ledger as CreditLedger promises: each posts at most once, and
\* those that debit do so as reductions.
Ledger == INSTANCE CreditLedger
              WITH Documents <- Agreements, Amounts <- Contents, Reducing <- Agreements

LedgerSpec == Ledger!Spec

-----------------------------------------------------------------------------
\* Properties for any number of workers, any pages and any uploads

\* An agreement that suppliers see as ISSUED has posted at least the content it
\* shows: an edit or an upload that overlaps the decision or comes after it never
\* leaves an ISSUED agreement with credits the supplier did not get.
IssuedIsPosted ==
    \A a \in Agreements : agreement[a].status = "ISSUED" =>
        \A k \in Keys : content[a][k] <= posted[a][k]
=============================================================================
