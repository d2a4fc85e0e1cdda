---------------------------- MODULE VehicleProofs ----------------------------
(***************************************************************************)
(* Theorems about Vehicle, for any models and forms: types, what the fields*)
(* of a validated model are worth, and what the history and the comments   *)
(* say of a decision.                                                      *)
(***************************************************************************)
EXTENDS Vehicle, TLAPS

LEMMA FieldsTyped ==
    ASSUME NEW f \in Fields
    PROVE  f.zevType \in ZevTypes /\ f.range \in Nat /\ f.weight \in Nat /\ f.us06 \in BOOLEAN
BY EntriesAssumption DEF Fields

LEMMA SomeFields == (CHOOSE f \in Fields : TRUE) \in Fields
<1>1. \E f \in Fields : TRUE
    BY PlainAssumption DEF Fields
<1> QED
    BY <1>1

\* A credit is a class and a natural number of hundredths.
LEMMA CreditTyped ==
    ASSUME NEW f \in Fields
    PROVE  Credit(f) \in [class : {"none", "A", "B", "C"}, value : Nat]
<1>1. f.range \in Nat
    BY FieldsTyped
<1>2. \A base \in {30, 50} : (f.range * 6214 + base * 10000 + 5000) \div 10000 \in Nat
    BY <1>1
<1>3. \A limit \in {110, 130, 400}, n \in Nat : AtMost(limit, n) \in Nat
    BY DEF AtMost
<1>4. CreditValue(f) \in Nat
    <2>1. CASE ClassC(f)
        BY <2>1 DEF CreditValue
    <2>2. CASE ~ClassC(f) /\ CreditClass(f) = "A"
        BY <1>2, <1>3, <2>2 DEF CreditValue
    <2>3. CASE ~ClassC(f) /\ CreditClass(f) # "A" /\ f.us06
        BY <1>2, <1>3, <2>3 DEF CreditValue
    <2>4. CASE ~ClassC(f) /\ CreditClass(f) # "A" /\ ~f.us06
        BY <1>2, <1>3, <2>4 DEF CreditValue
    <2> QED
        BY <2>1, <2>2, <2>3, <2>4
<1>5. CreditClass(f) \in {"A", "B", "C"}
    BY DEF CreditClass
<1> QED
    BY <1>4, <1>5 DEF Credit

\* What saving a row does.
LEMMA Updated ==
    ASSUME TypeOK, NEW v \in Vehicles, NEW row \in Rows, row.status # Absent, Update(v, row)
    PROVE  /\ vehicle' \in [Vehicles -> Rows]
           /\ pages' \in [Vehicles -> SUBSET Statuses]
           /\ vehicle'[v] = row
           /\ FreshPages => pages'[v] = {row.status}
           /\ \A u \in Vehicles : u # v => vehicle'[u] = vehicle[u] /\ pages'[u] = pages[u]
<1>1. row.status \in Statuses
    BY DEF Rows
<1> QED
    BY <1>1 DEF TypeOK, Update, Show

\* What a request to change the status does.
Changed(v, new) ==
    /\ vehicle'[v] = [vehicle[v] EXCEPT !.status = new, !.credit = CreditToStore(v, new)]
    /\ FreshPages => pages'[v] = {new}
    /\ vehicle[v].status # new => history'[v] = Append(history[v], new)
    /\ vehicle[v].status = new => history'[v] = history[v]
    /\ \A u \in Vehicles : u # v => /\ vehicle'[u] = vehicle[u]
                                    /\ pages'[u] = pages[u]
                                    /\ history'[u] = history[u]

LEMMA StateChanged ==
    ASSUME TypeOK, NEW gov \in BOOLEAN, NEW v \in Vehicles, NEW new \in Statuses,
           StateChange(gov, v, new)
    PROVE  /\ vehicle' \in [Vehicles -> Rows]
           /\ pages' \in [Vehicles -> SUBSET Statuses]
           /\ history' \in [Vehicles -> Seq(Statuses)]
           /\ Changed(v, new)
<1> DEFINE row == [vehicle[v] EXCEPT !.status = new, !.credit = CreditToStore(v, new)]
<1>1. vehicle[v] \in Rows /\ vehicle[v].fields \in Fields
    BY DEF TypeOK, Rows
<1>2. CreditToStore(v, new) \in [class : {"none", "A", "B", "C"}, value : Nat]
    BY <1>1, CreditTyped DEF CreditToStore, Rows
<1>3. row \in Rows /\ row.status = new /\ new # Absent
    BY <1>1, <1>2 DEF Rows, Statuses, Absent
<1>4. Update(v, row) /\ Record(v, new)
    BY DEF StateChange
<1> HIDE DEF row
<1>5. /\ vehicle' \in [Vehicles -> Rows] /\ pages' \in [Vehicles -> SUBSET Statuses]
      /\ vehicle'[v] = row /\ (FreshPages => pages'[v] = {new})
      /\ \A u \in Vehicles : u # v => vehicle'[u] = vehicle[u] /\ pages'[u] = pages[u]
    BY <1>3, <1>4, Updated
<1>6. /\ history' \in [Vehicles -> Seq(Statuses)]
      /\ vehicle[v].status # new => history'[v] = Append(history[v], new)
      /\ vehicle[v].status = new => history'[v] = history[v]
      /\ \A u \in Vehicles : u # v => history'[u] = history[u]
    BY <1>4 DEF Record, TypeOK
<1> QED
    BY <1>5, <1>6 DEF row, Changed

-----------------------------------------------------------------------------
\* The steps, as far as the invariants see them: a row is added or its fields change
\* (in a form), the second request of the form, a decision, or something else that
\* leaves status, fields and credit alone.
FormSaved(v) ==
    /\ \/ vehicle[v].status = Absent /\ vehicle'[v].status = "DRAFT"
       \/ /\ \E s \in pages[v] : Opens(FALSE, s) = "form"
          /\ vehicle'[v].status = vehicle[v].status
    /\ vehicle'[v].commented = vehicle[v].commented
    /\ history' = history /\ reviews' = reviews

FilesSaved(v) ==
    /\ vehicle'[v].status \in {vehicle[v].status, "SUBMITTED"}
    /\ vehicle'[v].fields = vehicle[v].fields /\ vehicle'[v].credit = vehicle[v].credit
    /\ vehicle[v].commented => vehicle'[v].commented
    /\ history' = history
    /\ \/ reviews' = reviews
       \/ vehicle'[v].commented /\ \A u \in Vehicles : u # v => reviews'[u] = reviews[u]

Decided(v, new) ==
    /\ Changed(v, new)
    /\ new \in Decisions => new \in reviews[v]
    /\ \A u \in Vehicles : reviews'[u] \subseteq reviews[u]

Others(v) == \A u \in Vehicles : u # v => vehicle'[u] = vehicle[u] /\ pages'[u] = pages[u]

LEMMA CreateStep ==
    ASSUME TypeOK, NEW v \in Vehicles, NEW f \in Fields, NEW files \in BOOLEAN,
           NEW submits \in BOOLEAN, Create(v, f, files, submits)
    PROVE  TypeOK' /\ FormSaved(v) /\ Others(v) /\ (FreshPages => pages'[v] = {vehicle'[v].status})
<1> DEFINE row == [vehicle[v] EXCEPT !.status = "DRAFT", !.fields = f]
<1>1. vehicle[v] \in Rows
    BY DEF TypeOK
<1>2. row \in Rows /\ row.status = "DRAFT" /\ row.status # Absent
      /\ row.commented = vehicle[v].commented
    BY <1>1 DEF Rows, Statuses, Absent
<1>3. Update(v, row) /\ vehicle[v].status = Absent /\ UNCHANGED <<history, reviews>>
      /\ Upload(v, files, submits)
    BY DEF Create
<1>4. uploads' \in [Vehicles -> SUBSET SecondRequests]
    BY <1>3 DEF Upload, TypeOK, SecondRequests
<1> HIDE DEF row
<1> QED
    BY <1>2, <1>3, <1>4, Updated DEF TypeOK, FormSaved, Others

LEMMA SaveStep ==
    ASSUME TypeOK, NEW v \in Vehicles, NEW f \in Fields, NEW kept \in BOOLEAN,
           NEW files \in BOOLEAN, NEW submits \in BOOLEAN, Save(v, f, kept, files, submits)
    PROVE  TypeOK' /\ FormSaved(v) /\ Others(v) /\ (FreshPages => pages'[v] = {vehicle'[v].status})
<1> DEFINE row == [vehicle[v] EXCEPT !.fields = f, !.files = kept /\ @]
<1>1. vehicle[v] \in Rows /\ vehicle[v].status # Absent
    BY DEF TypeOK, Save, Visible
<1>2. row \in Rows /\ row.status = vehicle[v].status /\ row.commented = vehicle[v].commented
    BY <1>1 DEF Rows
<1>3. Update(v, row) /\ UNCHANGED <<history, reviews>> /\ Upload(v, files, submits)
      /\ \E s \in pages[v] : Opens(FALSE, s) = "form"
    BY DEF Save
<1>4. uploads' \in [Vehicles -> SUBSET SecondRequests]
    BY <1>3 DEF Upload, TypeOK, SecondRequests
<1> HIDE DEF row
<1> QED
    BY <1>1, <1>2, <1>3, <1>4, Updated DEF TypeOK, FormSaved, Others

LEMMA SaveFilesStep ==
    ASSUME TypeOK, NEW v \in Vehicles, NEW request \in SecondRequests, SaveFiles(v, request)
    PROVE  TypeOK' /\ FilesSaved(v) /\ Others(v) /\ (FreshPages => pages'[v] = {vehicle'[v].status})
<1> DEFINE row == [vehicle[v] EXCEPT !.files = @ \/ request.files,
                                     !.status = IF request.submits THEN "SUBMITTED" ELSE @]
<1>1. vehicle[v] \in Rows /\ vehicle[v].status # Absent
    BY DEF TypeOK, SaveFiles, Visible
<1>2. /\ row \in Rows /\ row.status # Absent /\ row.commented = vehicle[v].commented
      /\ row.status \in {vehicle[v].status, "SUBMITTED"}
      /\ row.fields = vehicle[v].fields /\ row.credit = vehicle[v].credit
    BY <1>1 DEF Rows, SecondRequests, Statuses, Absent
<1>3. Update(v, row) /\ UNCHANGED <<history, reviews>>
      /\ uploads' = [uploads EXCEPT ![v] = @ \ {request}]
    BY DEF SaveFiles
<1>4. uploads' \in [Vehicles -> SUBSET SecondRequests]
    BY <1>3 DEF TypeOK
<1> HIDE DEF row
<1> QED
    BY <1>1, <1>2, <1>3, <1>4, Updated DEF TypeOK, FilesSaved, Others

LEMMA CommentStep ==
    ASSUME TypeOK, NEW v \in Vehicles, NEW new \in Decisions, Comment(v, new)
    PROVE  TypeOK' /\ FilesSaved(v) /\ Others(v) /\ (FreshPages => pages'[v] = {vehicle'[v].status})
<1> DEFINE row == [vehicle[v] EXCEPT !.commented = TRUE]
<1>1. vehicle[v] \in Rows /\ vehicle[v].status # Absent
    BY DEF TypeOK, Comment, Visible
<1>2. /\ row \in Rows /\ row.status = vehicle[v].status /\ row.commented
      /\ row.fields = vehicle[v].fields /\ row.credit = vehicle[v].credit
    BY <1>1 DEF Rows
<1>3. Update(v, row) /\ UNCHANGED <<history, uploads>>
      /\ reviews' = [reviews EXCEPT ![v] = @ \cup {new}]
    BY DEF Comment
<1>4. reviews' \in [Vehicles -> SUBSET Decisions]
      /\ \A u \in Vehicles : u # v => reviews'[u] = reviews[u]
    BY <1>3 DEF TypeOK
<1> HIDE DEF row
<1> QED
    BY <1>1, <1>2, <1>3, <1>4, Updated DEF TypeOK, FilesSaved, Others

LEMMA SetActiveStep ==
    ASSUME TypeOK, NEW v \in Vehicles, NEW active \in BOOLEAN, SetActive(v, active)
    PROVE  TypeOK' /\ FilesSaved(v) /\ Others(v) /\ (FreshPages => pages'[v] = {vehicle'[v].status})
<1> DEFINE row == [vehicle[v] EXCEPT !.active = active]
<1>1. vehicle[v] \in Rows /\ vehicle[v].status # Absent
    BY DEF TypeOK, SetActive, Visible
<1>2. /\ row \in Rows /\ row.status = vehicle[v].status /\ row.commented = vehicle[v].commented
      /\ row.fields = vehicle[v].fields /\ row.credit = vehicle[v].credit
    BY <1>1 DEF Rows
<1>3. Update(v, row) /\ UNCHANGED <<history, uploads, reviews>>
    BY DEF SetActive
<1> HIDE DEF row
<1> QED
    BY <1>1, <1>2, <1>3, Updated DEF TypeOK, FilesSaved, Others

LEMMA DecidedStep ==
    ASSUME TypeOK, NEW v \in Vehicles,
           \/ Validate(v)
           \/ \E new \in Decisions : Review(v, new)
           \/ \E gov \in BOOLEAN, new \in {"SUBMITTED", "DELETED"} : Decide(gov, v, new)
    PROVE  /\ TypeOK'
           /\ \E new \in Statuses \ {"DRAFT"} : Decided(v, new)
<1>1. CASE Validate(v)
    <2>1. StateChange(TRUE, v, "VALIDATED") /\ UNCHANGED <<uploads, reviews>>
        BY <1>1 DEF Validate
    <2>2. "VALIDATED" \in Statuses \ {"DRAFT"} /\ "VALIDATED" \notin Decisions
        BY DEF Statuses, Decisions
    <2>3. TypeOK' /\ Changed(v, "VALIDATED")
        BY <2>1, <2>2, StateChanged DEF TypeOK
    <2> QED
        BY <2>1, <2>2, <2>3 DEF Decided
<1>2. ASSUME NEW new \in Decisions, Review(v, new)
      PROVE  TypeOK' /\ \E n \in Statuses \ {"DRAFT"} : Decided(v, n)
    <2>1. /\ StateChange(TRUE, v, new) /\ new \in reviews[v] /\ UNCHANGED uploads
          /\ reviews' = [reviews EXCEPT ![v] = @ \ {new}]
        BY <1>2 DEF Review
    <2>2. new \in Statuses \ {"DRAFT"}
        BY DEF Statuses, Decisions
    <2>3. reviews' \in [Vehicles -> SUBSET Decisions]
          /\ \A u \in Vehicles : reviews'[u] \subseteq reviews[u]
        BY <2>1 DEF TypeOK
    <2>4. TypeOK' /\ Changed(v, new)
        BY <2>1, <2>2, <2>3, StateChanged DEF TypeOK
    <2> QED
        BY <2>1, <2>2, <2>3, <2>4 DEF Decided
<1>3. ASSUME NEW gov \in BOOLEAN, NEW new \in {"SUBMITTED", "DELETED"}, Decide(gov, v, new)
      PROVE  TypeOK' /\ \E n \in Statuses \ {"DRAFT"} : Decided(v, n)
    <2>1. StateChange(gov, v, new) /\ UNCHANGED <<uploads, reviews>>
        BY <1>3 DEF Decide
    <2>2. new \in Statuses \ {"DRAFT"} /\ new \notin Decisions
        BY DEF Statuses, Decisions
    <2>3. TypeOK' /\ Changed(v, new)
        BY <2>1, <2>2, StateChanged DEF TypeOK
    <2> QED
        BY <2>1, <2>2, <2>3 DEF Decided
<1> QED
    BY <1>1, <1>2, <1>3

\* A request that is never sent.
Lost ==
    /\ UNCHANGED <<vehicle, history, pages>>
    /\ \A u \in Vehicles : reviews'[u] \subseteq reviews[u]

LEMMA LostStep ==
    ASSUME TypeOK, NEW v \in Vehicles,
           \/ \E request \in SecondRequests : LoseFiles(v, request)
           \/ \E new \in Decisions : LoseReview(v, new)
    PROVE  TypeOK' /\ Lost
BY DEF LoseFiles, LoseReview, TypeOK, Lost

\* Every step is one of these.
LEMMA Steps ==
    ASSUME TypeOK, Next
    PROVE  /\ TypeOK'
           /\ \/ Lost
              \/ \E v \in Vehicles, new \in Statuses \ {"DRAFT"} : Decided(v, new)
              \/ \E v \in Vehicles :
                     /\ FormSaved(v) \/ FilesSaved(v)
                     /\ Others(v)
                     /\ FreshPages => pages'[v] = {vehicle'[v].status}
<1>1. PICK v \in Vehicles :
          \/ Supply(v)
          \/ Govern(v)
          \/ \E gov \in BOOLEAN, new \in {"SUBMITTED", "DELETED"} : Decide(gov, v, new)
    BY DEF Next
<1>2. CASE Supply(v)
    BY <1>2, CreateStep, SaveStep, SaveFilesStep, SetActiveStep, LostStep DEF Supply
<1>3. CASE Govern(v)
    BY <1>3, CommentStep, DecidedStep, LostStep DEF Govern
<1>4. CASE \E gov \in BOOLEAN, new \in {"SUBMITTED", "DELETED"} : Decide(gov, v, new)
    BY <1>4, DecidedStep
<1> QED
    BY <1>1, <1>2, <1>3, <1>4

LEMMA InitTyped == Init => TypeOK
BY SomeFields DEF Init, TypeOK, Rows, NoCredit, Absent

\* Every reachable state is well typed, for any models and forms.
THEOREM TypeCorrect == Spec => []TypeOK
<1>1. TypeOK /\ [Next]_vars => TypeOK'
    <2>1. TypeOK /\ UNCHANGED vars => TypeOK'
        BY DEF TypeOK, vars
    <2> QED
        BY <2>1, Steps
<1> QED
    BY InitTyped, <1>1, PTL DEF Spec

-----------------------------------------------------------------------------
\* Pages that show the stored status offer the form for drafts and for models that
\* were sent back only, so nothing changes the fields of a validated model.
Fresh == \A v \in Vehicles : pages[v] \subseteq {vehicle[v].status}

ValueInv == TypeOK /\ Fresh /\ ValueAsValidated

LEMMA ValueOfSteps ==
    ASSUME FreshPages, ValueInv, Next
    PROVE  ValueInv'
<1> USE DEF ValueInv
<1>0. TypeOK'
    BY Steps
<1>1. CASE Lost
    BY <1>0, <1>1 DEF Lost, Fresh, ValueAsValidated, Credit, CreditClass, CreditValue, ClassC
<1>2. ASSUME NEW v \in Vehicles, NEW new \in Statuses \ {"DRAFT"}, Decided(v, new)
      PROVE  ValueInv'
    <2>2. /\ vehicle'[v] = [vehicle[v] EXCEPT !.status = new, !.credit = CreditToStore(v, new)]
          /\ pages'[v] = {new}
          /\ \A u \in Vehicles : u # v => vehicle'[u] = vehicle[u] /\ pages'[u] = pages[u]
        BY <1>2 DEF Decided, Changed
    <2>3. vehicle[v] \in Rows
        BY DEF TypeOK
    <2>4. /\ vehicle'[v].status = new /\ vehicle'[v].fields = vehicle[v].fields
          /\ vehicle'[v].credit = CreditToStore(v, new)
        BY <2>2, <2>3 DEF Rows
    <2>5. new = "VALIDATED" => vehicle'[v].credit = Credit(vehicle'[v].fields)
        BY <2>4 DEF CreditToStore
    <2>6. ValueAsValidated'
        BY <2>2, <2>4, <2>5 DEF ValueAsValidated
    <2>7. Fresh'
        BY <2>2, <2>4 DEF Fresh
    <2> QED
        BY <1>0, <2>6, <2>7
<1>3. ASSUME NEW v \in Vehicles, FormSaved(v) \/ FilesSaved(v), Others(v),
             pages'[v] = {vehicle'[v].status}
      PROVE  ValueInv'
    <2>1. Fresh'
        BY <1>3 DEF Fresh, Others
    <2>2. FormSaved(v) => vehicle'[v].status # "VALIDATED"
        BY DEF FormSaved, Fresh, Opens, Absent
    <2>3. FilesSaved(v) /\ vehicle'[v].status = "VALIDATED" =>
              /\ vehicle[v].status = "VALIDATED"
              /\ vehicle'[v].fields = vehicle[v].fields /\ vehicle'[v].credit = vehicle[v].credit
        BY DEF FilesSaved
    <2>4. ValueAsValidated'
        BY <1>3, <2>2, <2>3 DEF ValueAsValidated, Others
    <2> QED
        BY <1>0, <2>1, <2>4
<1> QED
    BY <1>1, <1>2, <1>3, Steps

\* With pages that show the stored status, what the credits of a validated model are
\* computed from is what the government validated.
THEOREM ValidatedIsReviewed == FreshPages => (Spec => []ValueAsValidated)
<1> SUFFICES ASSUME FreshPages PROVE Spec => []ValueAsValidated
    OBVIOUS
<1>1. Init => ValueInv
    <2>1. ASSUME Init PROVE Fresh /\ ValueAsValidated
        BY <2>1 DEF Init, Fresh, ValueAsValidated, Absent
    <2> QED
        BY <2>1, InitTyped DEF ValueInv
<1>2. ValueInv /\ [Next]_vars => ValueInv'
    <2>1. ValueInv /\ UNCHANGED vars => ValueInv'
        BY DEF ValueInv, TypeOK, Fresh, ValueAsValidated, vars
    <2> QED
        BY <2>1, ValueOfSteps
<1>3. ValueInv => ValueAsValidated
    BY DEF ValueInv
<1> QED
    BY <1>1, <1>2, <1>3, PTL DEF Spec

-----------------------------------------------------------------------------
\* A decision is only sent when its comment is saved.
ReviewsCommented == \A v \in Vehicles : reviews[v] # {} => vehicle[v].commented

DocInv == TypeOK /\ ReviewsCommented /\ DecisionsDocumented

LEMMA LastOfAppend ==
    ASSUME NEW S, NEW s \in Seq(S), NEW e \in S
    PROVE  Append(s, e) # <<>> /\ Last(Append(s, e)) = e
BY DEF Last

LEMMA DocumentedBySteps ==
    ASSUME DocInv, Next
    PROVE  DocInv'
<1> USE DEF DocInv
<1>0. TypeOK'
    BY Steps
<1>1. CASE Lost
    BY <1>0, <1>1 DEF Lost, ReviewsCommented, DecisionsDocumented, CommentShown, TypeOK
<1>2. ASSUME NEW v \in Vehicles, NEW new \in Statuses \ {"DRAFT"}, Decided(v, new)
      PROVE  DocInv'
    <2>2. /\ vehicle'[v] = [vehicle[v] EXCEPT !.status = new, !.credit = CreditToStore(v, new)]
          /\ vehicle[v].status # new => history'[v] = Append(history[v], new)
          /\ vehicle[v].status = new => history'[v] = history[v]
          /\ \A u \in Vehicles : u # v => vehicle'[u] = vehicle[u] /\ history'[u] = history[u]
        BY <1>2 DEF Decided, Changed
    <2>3. vehicle[v] \in Rows /\ history[v] \in Seq(Statuses)
        BY DEF TypeOK
    <2>4. vehicle'[v].status = new /\ vehicle'[v].commented = vehicle[v].commented
        BY <2>2, <2>3 DEF Rows
    <2>5. ReviewsCommented'
        BY <1>2, <2>2, <2>4 DEF Decided, ReviewsCommented
    <2>6. new # "SUBMITTED" => history'[v] # <<>> /\ Last(history'[v]) = new
        <3>1. CASE vehicle[v].status # new
            <4>1. history'[v] = Append(history[v], new)
                BY <2>2, <3>1
            <4> QED
                BY <2>3, <4>1, LastOfAppend
        <3>2. CASE vehicle[v].status = new
            BY <2>2, <3>2 DEF DecisionsDocumented, Absent, Statuses
        <3> QED
            BY <3>1, <3>2
    <2>7. new \in Decisions => vehicle'[v].commented
        BY <1>2, <2>4 DEF Decided, ReviewsCommented
    <2>8. DecisionsDocumented'
        BY <2>2, <2>4, <2>6, <2>7 DEF DecisionsDocumented, CommentShown
    <2> QED
        BY <1>0, <2>5, <2>8
<1>3. ASSUME NEW v \in Vehicles, FormSaved(v) \/ FilesSaved(v), Others(v)
      PROVE  DocInv'
    <2>1. ReviewsCommented'
        BY <1>3 DEF FormSaved, FilesSaved, Others, ReviewsCommented
    <2>2. DecisionsDocumented'
        <3>1. history' = history
            BY <1>3 DEF FormSaved, FilesSaved
        <3>2. vehicle'[v].status \in {vehicle[v].status, "DRAFT", "SUBMITTED"}
            BY <1>3 DEF FormSaved, FilesSaved
        <3>3. vehicle[v].commented => vehicle'[v].commented
            BY <1>3 DEF FormSaved, FilesSaved
        <3> QED
            BY <1>3, <3>1, <3>2, <3>3 DEF Others, DecisionsDocumented, CommentShown, Decisions
    <2> QED
        BY <1>0, <2>1, <2>2
<1> QED
    BY <1>1, <1>2, <1>3, Steps

\* Whatever pages are open and whichever requests are lost, a decision is in the
\* history, and a model that is rejected or sent back shows why.
THEOREM DecisionsAreDocumented == Spec => []DecisionsDocumented
<1>1. Init => DocInv
    <2>1. ASSUME Init PROVE ReviewsCommented /\ DecisionsDocumented
        BY <2>1 DEF Init, ReviewsCommented, DecisionsDocumented, Absent, Decisions
    <2> QED
        BY <2>1, InitTyped DEF DocInv
<1>2. DocInv /\ [Next]_vars => DocInv'
    <2>1. DocInv /\ UNCHANGED vars => DocInv'
        BY DEF DocInv, TypeOK, ReviewsCommented, DecisionsDocumented, CommentShown, vars
    <2> QED
        BY <2>1, DocumentedBySteps
<1>3. DocInv => DecisionsDocumented
    BY DEF DocInv
<1> QED
    BY <1>1, <1>2, <1>3, PTL DEF Spec
=============================================================================
