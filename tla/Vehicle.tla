------------------------------ MODULE Vehicle ------------------------------
(***************************************************************************)
(* ZEV models: a supplier describes a model and submits it, the government *)
(* validates it, rejects it or asks for changes.  Sales of a validated     *)
(* model are issued the credits its fields stand for.                      *)
(*                                                                         *)
(* Requests are served one at a time, but the pages send several for one   *)
(* button: the form saves the fields and, when the files are uploaded,     *)
(* sends their names and the status; the page of the government saves the  *)
(* comment and then the decision.  Anything can happen between the two.    *)
(***************************************************************************)
EXTENDS Integers, FiniteSets, Sequences, SequencesExt

CONSTANTS
    Vehicles,       \* ids of ZEV models, of one supplier
    Entries,        \* what can be typed in the form
    FreshPages,     \* TRUE: every page shows the stored status when it is used
    HistoryBound,   \* no decision about a model with as many rows of history
    UploadBound     \* no save of a model that still waits for as many uploads

ZevTypes == {"BEV", "FCEV", "EREV", "PHEV"}

\* name stands for make, model name and model year.
ASSUME EntriesAssumption ==
    \A f \in Entries : /\ DOMAIN f = {"name", "zevType", "range", "weight", "us06"}
                       /\ f.zevType \in ZevTypes /\ f.range \in Nat /\ f.weight \in Nat
                       /\ f.us06 \in BOOLEAN
\* A new form can be filled in without a claim.
ASSUME PlainAssumption == \E f \in Entries : ~f.us06
ASSUME FlagAssumption == FreshPages \in BOOLEAN
ASSUME BoundsAssumption == HistoryBound \in Nat /\ UploadBound \in Nat

VARIABLES
    vehicle,   \* vehicle rows
    history,   \* vehicle_change_history rows of each, oldest first: their status
    pages,     \* statuses of a model that pages still open in a browser show
    uploads,   \* second requests of the form that are still to be sent
    reviews    \* decisions whose comment is saved and that are still to be sent

vars == <<vehicle, history, pages, uploads, reviews>>

-----------------------------------------------------------------------------
\* What a model is worth, in hundredths of a credit

\* Below 50 miles, or 10 for a hybrid, nothing is issued.
ClassC(f) == f.range <= (IF f.zevType \in {"BEV", "FCEV"} THEN 80 ELSE 15)

CreditClass(f) ==
    IF ClassC(f) THEN "C"
    ELSE IF f.zevType \in {"BEV", "FCEV"} \/ (f.zevType = "EREV" /\ f.range >= 121) THEN "A"
    ELSE "B"

AtMost(limit, n) == IF n > limit THEN limit ELSE n

CreditValue(f) ==
    LET upTo(limit, base) ==
            AtMost(limit, (f.range * 6214 + base * 10000 + 5000) \div 10000) IN
    IF ClassC(f) THEN 0
    ELSE IF CreditClass(f) = "A" THEN upTo(400, 50)
    ELSE IF f.us06 THEN upTo(130, 50)
    ELSE upTo(110, 30)

Credit(f) == [class |-> CreditClass(f), value |-> CreditValue(f)]

NoCredit == [class |-> "none", value |-> 0]

-----------------------------------------------------------------------------
Absent == "ABSENT"   \* no such row yet

Statuses == {"DRAFT", "SUBMITTED", "VALIDATED", "REJECTED", "CHANGES_REQUESTED", "DELETED"}
Decisions == {"REJECTED", "CHANGES_REQUESTED"}

\* The checkbox of the US06 credit is cleared and disabled for other types.
Fields == {f \in Entries : f.us06 => f.zevType \in {"EREV", "PHEV"}}

\* credit is what validation stored; files says that an attachment is there, and
\* commented that the government has written a comment.
Rows ==
    [ status : Statuses \cup {Absent}, fields : Fields, active : BOOLEAN,
      credit : [class : {"none", "A", "B", "C"}, value : Nat],
      files : BOOLEAN, commented : BOOLEAN ]

SecondRequests == [files : BOOLEAN, submits : BOOLEAN]

TypeOK ==
    /\ vehicle \in [Vehicles -> Rows]
    /\ history \in [Vehicles -> Seq(Statuses)]
    /\ pages \in [Vehicles -> SUBSET Statuses]
    /\ uploads \in [Vehicles -> SUBSET SecondRequests]
    /\ reviews \in [Vehicles -> SUBSET Decisions]

-----------------------------------------------------------------------------
\* What the pages offer

\* Mutant: the list opens the form for a validated model, too.
OpensWide(gov, s) == IF ~gov /\ s \notin {"SUBMITTED", "DELETED"} THEN "form" ELSE "details"

\* The page a row of the list opens.
Opens(gov, s) == IF ~gov /\ s \in {"DRAFT", "CHANGES_REQUESTED"} THEN "form" ELSE "details"

ValidWeight(f) == f.weight <= 4536

\* The attachments that are neither removed in the list of files nor still to be
\* uploaded: a claim of the US06 credit needs one.
Certified(v, f, kept, files) == f.us06 => files \/ (kept /\ vehicle[v].files)

FormOffers(v, f, kept, files, submits) ==
    submits => ValidWeight(f) /\ Certified(v, f, kept, files)

\* The details page does not ask for a certificate, and offers anyone to delete.
DetailsOffers(gov, v, s, new) ==
    \/ new = "DELETED" /\ s \in {"DRAFT", "CHANGES_REQUESTED", "REJECTED"}
    \/ /\ new = "SUBMITTED" /\ s \in {"DRAFT", "CHANGES_REQUESTED"} /\ ~gov
       /\ FreshPages => ValidWeight(vehicle[v].fields)

\* The checkbox that asks for changes empties both comments, and enables one of them.
ReviewOffers(s, new, checked, comment) ==
    /\ s = "SUBMITTED"
    /\ CASE new = "CHANGES_REQUESTED" -> checked /\ comment
         [] new = "REJECTED"          -> ~checked /\ comment
         [] OTHER                     -> new = "VALIDATED" /\ ~checked /\ ~comment

ActivityOffers(v, s, active) == s = "VALIDATED" /\ active = ~vehicle[v].active

\* The page shows the comment of the government in two statuses only.
CommentShown(v, s) == s \in Decisions /\ vehicle[v].commented

-----------------------------------------------------------------------------
\* What the API does

Visible(gov, v) ==
    vehicle[v].status \notin {Absent, IF gov THEN "DRAFT" ELSE "DELETED"}

\* The constraint of the table: a name and type is used once, except by DELETED rows.
Unique(rows) ==
    \A v, w \in Vehicles :
        (/\ {rows[v].status, rows[w].status} \cap {Absent, "DELETED"} = {}
         /\ rows[v].fields.name = rows[w].fields.name
         /\ rows[v].fields.zevType = rows[w].fields.zevType) => v = w

Show(v, status) ==
    pages' = [pages EXCEPT ![v] = IF FreshPages THEN {status} ELSE @ \cup {status}]

Update(v, row) ==
    /\ vehicle' = [vehicle EXCEPT ![v] = row]
    /\ Unique(vehicle')
    /\ Show(v, row.status)

\* validate_validation_status says nothing of the other two.
MayBecome(s, new) ==
    CASE new = "SUBMITTED"               -> s \in {"DRAFT", "CHANGES_REQUESTED"}
      [] new \in {"VALIDATED", "REJECTED"} -> s = "SUBMITTED"
      [] OTHER                           -> TRUE

\* change_status: a row for every change it makes.
Record(v, new) ==
    history' = IF new = vehicle[v].status THEN history
               ELSE [history EXCEPT ![v] = Append(@, new)]

\* What validation stores beside the fields.
CreditToStore(v, new) ==
    IF new = "VALIDATED" THEN Credit(vehicle[v].fields) ELSE vehicle[v].credit

\* PATCH state_change.
StateChange(gov, v, new) ==
    /\ Visible(gov, v)
    /\ MayBecome(vehicle[v].status, new)
    /\ Len(history[v]) < HistoryBound
    /\ Record(v, new)
    /\ Update(v, [vehicle[v] EXCEPT !.status = new, !.credit = CreditToStore(v, new)])

-----------------------------------------------------------------------------
Init ==
    /\ vehicle = [v \in Vehicles |->
                     [ status |-> Absent, fields |-> CHOOSE f \in Fields : TRUE,
                       active |-> TRUE, credit |-> NoCredit,
                       files |-> FALSE, commented |-> FALSE ]]
    /\ history = [v \in Vehicles |-> <<>>]
    /\ pages = [v \in Vehicles |-> {}]
    /\ uploads = [v \in Vehicles |-> {}]
    /\ reviews = [v \in Vehicles |-> {}]

\* The page goes on with its second request when the files are uploaded.
Upload(v, files, submits) ==
    uploads' = [uploads EXCEPT ![v] = @ \cup {[files |-> files, submits |-> submits]}]

\* POST from the form of a new model.
Create(v, f, files, submits) ==
    /\ vehicle[v].status = Absent
    /\ FormOffers(v, f, FALSE, files, submits)
    /\ Update(v, [vehicle[v] EXCEPT !.status = "DRAFT", !.fields = f])
    /\ Upload(v, files, submits)
    /\ UNCHANGED <<history, reviews>>

\* PATCH with the fields, from the form of a stored one.
Save(v, f, kept, files, submits) ==
    /\ \E s \in pages[v] : Opens(FALSE, s) = "form"
    /\ FormOffers(v, f, kept, files, submits)
    /\ Visible(FALSE, v)
    /\ Cardinality(uploads[v]) < UploadBound
    /\ Update(v, [vehicle[v] EXCEPT !.fields = f, !.files = kept /\ @])
    /\ Upload(v, files, submits)
    /\ UNCHANGED <<history, reviews>>

\* PATCH with the names of the files, and the status if the form was submitted: it
\* is neither validated nor recorded.
SaveFiles(v, request) ==
    /\ request \in uploads[v]
    /\ Visible(FALSE, v)
    /\ Update(v, [vehicle[v] EXCEPT !.files = @ \/ request.files,
                                    !.status = IF request.submits THEN "SUBMITTED" ELSE @])
    /\ uploads' = [uploads EXCEPT ![v] = @ \ {request}]
    /\ UNCHANGED <<history, reviews>>

\* The upload fails, the page is closed or the model is DELETED by now.
LoseFiles(v, request) ==
    /\ request \in uploads[v]
    /\ uploads' = [uploads EXCEPT ![v] = @ \ {request}]
    /\ UNCHANGED <<vehicle, history, pages, reviews>>

\* The supplier submits a model from its page, or anyone deletes it from there or
\* from the form.
Decide(gov, v, new) ==
    /\ \E s \in pages[v] : DetailsOffers(gov, v, s, new)
    /\ StateChange(gov, v, new)
    /\ UNCHANGED <<uploads, reviews>>

Validate(v) ==
    /\ \E s \in pages[v] : ReviewOffers(s, "VALIDATED", FALSE, FALSE)
    /\ StateChange(TRUE, v, "VALIDATED")
    /\ UNCHANGED <<uploads, reviews>>

\* Mutant: the decision is sent at once and nobody waits for the comment.
CommentLater(v, new) ==
    /\ \E s \in pages[v], checked \in BOOLEAN : ReviewOffers(s, new, checked, TRUE)
    /\ Visible(TRUE, v)
    /\ reviews' = [reviews EXCEPT ![v] = @ \cup {new}]
    /\ UNCHANGED <<vehicle, history, pages, uploads>>

\* PATCH with the comment for a rejection or a request for changes.
Comment(v, new) ==
    /\ \E s \in pages[v], checked \in BOOLEAN : ReviewOffers(s, new, checked, TRUE)
    /\ Visible(TRUE, v)
    /\ Update(v, [vehicle[v] EXCEPT !.commented = TRUE])
    /\ reviews' = [reviews EXCEPT ![v] = @ \cup {new}]
    /\ UNCHANGED <<history, uploads>>

\* The decision follows when the comment is saved.
Review(v, new) ==
    /\ new \in reviews[v]
    /\ StateChange(TRUE, v, new)
    /\ reviews' = [reviews EXCEPT ![v] = @ \ {new}]
    /\ UNCHANGED uploads

\* It is refused or never sent.
LoseReview(v, new) ==
    /\ new \in reviews[v]
    /\ reviews' = [reviews EXCEPT ![v] = @ \ {new}]
    /\ UNCHANGED <<vehicle, history, pages, uploads>>

SetActive(v, active) ==
    /\ \E s \in pages[v] : ActivityOffers(v, s, active)
    /\ Visible(FALSE, v)
    /\ Update(v, [vehicle[v] EXCEPT !.active = active])
    /\ UNCHANGED <<history, uploads, reviews>>

Supply(v) ==
    \/ \E f \in Fields, files, submits \in BOOLEAN :
           \/ Create(v, f, files, submits)
           \/ \E kept \in BOOLEAN : Save(v, f, kept, files, submits)
    \/ \E request \in SecondRequests : SaveFiles(v, request) \/ LoseFiles(v, request)
    \/ \E active \in BOOLEAN : SetActive(v, active)

Govern(v) ==
    \/ Validate(v)
    \/ \E new \in Decisions : Comment(v, new) \/ Review(v, new) \/ LoseReview(v, new)

Next ==
    \E v \in Vehicles :
        \/ Supply(v)
        \/ Govern(v)
        \/ \E gov \in BOOLEAN, new \in {"SUBMITTED", "DELETED"} : Decide(gov, v, new)

Spec == Init /\ [][Next]_vars

-----------------------------------------------------------------------------
\* Credits are issued for what the fields of a model say when a sale is awarded: for
\* a validated model that is what was stored when the government validated it, also
\* when a form or a decision of somebody else was still on its way.  (For pages that
\* show the stored status: a form opened before changes a validated model.)
ValueAsValidated ==
    \A v \in Vehicles :
        vehicle[v].status = "VALIDATED" => vehicle[v].credit = Credit(vehicle[v].fields)

\* Whichever of its two requests is lost or late, a decision of the government is the
\* last row of the history, and a model that is rejected or sent back shows why.
DecisionsDocumented ==
    \A v \in Vehicles :
        /\ vehicle[v].status \notin {Absent, "DRAFT", "SUBMITTED"} =>
               history[v] # <<>> /\ Last(history[v]) = vehicle[v].status
        /\ vehicle[v].status \in Decisions => CommentShown(v, vehicle[v].status)
=============================================================================
