---------------------------- MODULE ModelYearReport ----------------------------
(***************************************************************************)
(* The model year reports of one supplier: the report of a year is filled  *)
(* in, submitted, assessed by an analyst and issued by the director, which *)
(* takes credits from the balance and records what the supplier still      *)
(* owes.  What is taken is computed by the pages (CreditReduction) from    *)
(* the credits of the period and from where the previous report ended, and *)
(* saved as rows, one set by the supplier and one by the government.       *)
(*                                                                         *)
(* A page is loaded and used in one step: two open pages of one report are *)
(* left to the modules of transfers and agreements.  The request that      *)
(* saves the rows of the government is not awaited, and may fail.          *)
(***************************************************************************)
EXTENDS CreditReduction, FiniteSets

CONSTANTS
    Reports,          \* primary keys
    LdvSales,         \* the numbers of vehicles that are ever entered
    OtherParts,       \* the pages confirmed besides that of the obligation
    InitialCredits,   \* what the supplier may hold before its first report
    PostedCredits,    \* what other parts of the system may post to it
    Applications,     \* the applications for credits it may make
    UsualSales, UsualSelection,   \* what is entered when nothing unusual happens
    MaxDetours        \* bound: the steps off the usual way from creation to assessment

ASSUME ReportsAssumption == Reports \subseteq Nat \ {0} /\ IsFiniteSet(Reports)
ASSUME LdvSalesAssumption == LdvSales \subseteq Nat \ {0} /\ UsualSales \in LdvSales
ASSUME UsualSelectionAssumption == UsualSelection \in Classes
ASSUME PartsAssumption == OtherParts \subseteq {"supplier_information", "consumer_sales"}
ASSUME CreditsAssumption ==
    /\ InitialCredits \subseteq [Years -> Balances]
    /\ PostedCredits \subseteq [period : Years, year : Years, class : Classes, value : Int]
    /\ Applications \subseteq [year : Years, class : Classes, value : Nat \ {0}]
    /\ MaxDetours \in Nat

VARIABLES
    report,     \* [Reports -> Report]: model_year_report, its sales and confirmations
    rows,       \* [Reports -> saved rows]: model_year_report_compliance_obligation
    posted,     \* [Reports -> [Kinds -> Balances]]: the Reduction transactions of a report
    deficits,   \* organization_deficits, by model year and class
    orgSales,   \* organization_ldv_sales, by model year
    credits,    \* [Years -> Balances]: the other transactions, by period
    pending,    \* applications for credits not issued yet, by model year
    detours     \* the steps taken that MaxDetours bounds

assessedVars == <<posted, deficits, orgSales>>
creditVars == <<credits, pending>>
reportVars == <<report, rows, assessedVars, creditVars, detours>>

Detour == detours < MaxDetours /\ detours' = detours + 1
Straight == UNCHANGED detours

Statuses == {"NONE", "DRAFT", "SUBMITTED", "RECOMMENDED", "RETURNED", "ASSESSED"}
Kinds == {"offset", "classA", "unspecified", "added"}
Parts == OtherParts \union {"compliance_obligation"}
Modules == Parts \union {"compliance_summary"}

NoReport == [status |-> "NONE", year |-> FirstYear, confirmed |-> {}, selection |-> "none",
             supplierSales |-> 0, govSales |-> 0, display |-> TRUE, newest |-> "supplier"]
NoRows == [saved |-> FALSE]
Existing == {r \in Reports : report[r].status # "NONE"}

\* ldv_sales as the government is shown it, and as a supplier is.
GovSales(rep) == IF rep.govSales # 0 /\ rep.display THEN rep.govSales ELSE rep.supplierSales
SupplierSales(rep) == rep.supplierSales

\* The row of any origin that was written last.
NewestSales(rep) == IF rep.newest = "gov" THEN rep.govSales ELSE rep.supplierSales

-----------------------------------------------------------------------------
\* What the page of the obligation shows and saves

Saved(year, basis, selection, classA, unspecified) ==
    [saved |-> TRUE, year |-> year, basis |-> basis, selection |-> selection,
     due |-> [c \in Classes |-> IF c = "A" THEN classA ELSE unspecified],
     result |-> Reduce(basis.start, basis.owed, basis.activity, basis.pending, selection,
                       classA, unspecified)]

SupplierRows(year, basis, selection, sales) ==
    Saved(year, basis, selection, ClassAReduction(sales, year), UnspecifiedReduction(sales, year))
GovRows(year, basis, selection, sales) ==
    Saved(year, basis, selection, ClassAReduction(sales, year), UnspecifiedReductionBig(sales, year))

\* What is still owed after a report: the deficits carried over and its own.
Outstanding(saved) ==
    [y \in Years |-> [c \in Classes |->
        saved.result.carried[y][c] + IF y = saved.year THEN saved.result.deficit[c] ELSE 0]]

\* What the page of the obligation lists: the balances of the years in which one
\* is positive, and the deficits.
Listing(saved) ==
    LET kept == {y \in Years : \E c \in Classes : saved.result.ending[y][c] > 0}
    IN  [c \in Classes |->
            Total([y \in Years |-> (IF y \in kept THEN saved.result.ending[y][c] ELSE 0)
                                     - Outstanding(saved)[y][c]])]

\* Mutant: the deficits of the years are not subtracted.
SummaryWithoutDeficits(saved) ==
    LET b == saved.basis
        spent == saved.result
        start == Minus(b.start, b.owed)
    IN  [c \in Classes |->
            Total([y \in Years |->
                PositivePart(start)[y][c] + b.activity[y][c] + b.pending[y][c]
                - spent.offset[y][c] - spent.unspecified[y][c]
                - (IF c = "A" THEN spent.classA[y] ELSE 0)])]

\* The last line of the summary, which is computed from the saved rows again: the
\* positive rows of the starting balance and all others, of all years.
SummaryBalance(saved) ==
    LET b == saved.basis
        spent == saved.result
        start == Minus(b.start, b.owed)
    IN  [c \in Classes |->
            Total([y \in Years |->
                PositivePart(start)[y][c] + b.activity[y][c] + b.pending[y][c]
                - spent.offset[y][c] - spent.unspecified[y][c]
                - (IF c = "A" THEN spent.classA[y] ELSE 0)
                - Outstanding(saved)[y][c]])]

\* The report with the lowest key of the year before, whatever its status.
Previous(r) ==
    {p \in Existing : /\ report[p].year = report[r].year - 1
                      /\ \A q \in Existing : report[q].year = report[p].year => p <= q}

\* Mutant: the deficits of the supplier are loaded whatever the report before says.
OpeningWithDeficits(r) ==
    IF \E p \in Previous(r) : rows[p].gov # NoRows
    THEN LET saved == rows[CHOOSE p \in Previous(r) : TRUE].gov
         IN  [start |-> PositivePart(saved.result.ending),
              owed |-> Plus(Outstanding(saved), deficits)]
    ELSE [start |-> NoBalance, owed |-> deficits]

\* Where the previous report ended, or the deficits of the supplier.
Opening(r) ==
    IF \E p \in Previous(r) : rows[p].gov # NoRows
    THEN LET saved == rows[CHOOSE p \in Previous(r) : TRUE].gov
         IN  [start |-> PositivePart(saved.result.ending), owed |-> Outstanding(saved)]
    ELSE [start |-> NoBalance, owed |-> deficits]

\* The details: the opening, the credits of the period, and the applications
\* for vehicles of the model year that are not decided.
Basis(r, opening) ==
    [start |-> opening.start, owed |-> opening.owed, activity |-> credits[report[r].year],
     pending |-> [y \in Years |-> IF y = report[r].year THEN pending[y] ELSE [c \in Classes |-> 0]]]

-----------------------------------------------------------------------------
\* What the pages of a report show and offer

\* The status a tab shows the supplier; what is saved and what is not yet is one.
TabStatus(r, part) ==
    CASE report[r].status \in {"NONE", "DRAFT"} ->
            IF part \in report[r].confirmed THEN "CONFIRMED"
            ELSE IF part # "compliance_summary" \/ Parts \subseteq report[r].confirmed THEN "SAVED"
            ELSE "UNSAVED"
      [] report[r].status = "ASSESSED" -> "ASSESSED"
      [] OTHER -> "SUBMITTED"

\* The tabs a user can open: for a supplier, that of the assessment once it is issued.
Tabs(r, gov) ==
    CASE r \notin Existing -> {"supplier_information"}
      [] gov \/ TabStatus(r, "compliance_summary") = "ASSESSED" -> Modules \union {"assessment"}
      [] OTHER -> Modules

\* Edit, which asks first, cancels a confirmation.
Editable(shown) == shown = "CONFIRMED"
Deletable(r, shown) == report[r].status = "DRAFT" /\ shown \notin {"SUBMITTED", "ASSESSED"}

InformationOffers(r, command) ==
    LET shown == TabStatus(r, "supplier_information")
    IN  \/ command = "edit" /\ Editable(shown)
        \/ command = "save" /\ shown = "SAVED"
        \/ command = "delete" /\ Deletable(r, shown)

\* Save is enabled when every box is ticked, and from 2023 on with a forecast.
SalesOffers(r, command) ==
    LET shown == TabStatus(r, "consumer_sales")
    IN  \/ command = "edit" /\ Editable(shown)
        \/ command = "save" /\ shown = "SAVED"
        \/ command = "delete" /\ Deletable(r, shown)

\* The boxes can be ticked when the sales are given and a class is selected.
ObligationOffers(r, command, sales, selection) ==
    LET shown == TabStatus(r, "compliance_obligation")
    IN  \/ command = "edit" /\ Editable(shown)
        \/ command = "save" /\ shown = "SAVED"
        \/ command = "confirm" /\ shown = "SAVED" /\ sales # 0 /\ selection # "none"
        \/ command = "delete" /\ Deletable(r, shown)

\* The sales can be typed and the class selected until the page is confirmed; the
\* class is given for a supplier of small volume, which owes nothing.
SalesToEnter(r) ==
    IF TabStatus(r, "compliance_obligation") = "SAVED"
    THEN LdvSales \union {report[r].supplierSales} ELSE {report[r].supplierSales}
SelectionsToMake(r) ==
    CASE SupplierClass = "S" -> {"B"}
      [] TabStatus(r, "compliance_obligation") = "SAVED" -> {"A", "B", report[r].selection}
      [] OTHER -> {report[r].selection}

\* Submit is enabled by the box of the summary, which the three confirmations enable.
SummaryOffers(r, command) ==
    LET shown == TabStatus(r, "compliance_summary")
    IN  \/ command = "submit" /\ shown = "SAVED" /\ Parts \subseteq report[r].confirmed
        \/ command = "delete" /\ Deletable(r, shown)

SupplierOffered(r, part, command) ==
    /\ part \in Tabs(r, FALSE)
    /\ \/ part = "supplier_information" /\ InformationOffers(r, command)
       \/ part = "consumer_sales" /\ SalesOffers(r, command)
       \/ /\ part = "compliance_obligation"
          /\ ObligationOffers(r, command, report[r].supplierSales, report[r].selection)
       \/ part = "compliance_summary" /\ SummaryOffers(r, command)

\* Mutant: an assessed report can be recommended again.
AnalystMayAgain(r, command) ==
    /\ report[r].status \in {"SUBMITTED", "RETURNED", "ASSESSED"}
    /\ command = "recommend" => \A c \in Classes : pending[report[r].year][c] = 0

\* The page of the assessment: a recommendation waits until the applications of
\* the year are decided.
AnalystMay(r, command) ==
    /\ report[r].status \in {"SUBMITTED", "RETURNED"}
    /\ command = "recommend" => \A c \in Classes : pending[report[r].year][c] = 0

\* Mutant: an assessed report can be returned.
DirectorMayReturnAlways(r, command) ==
    report[r].status \in {"RECOMMENDED", "ASSESSED"} /\ command \in {"save", "return", "issue"}

DirectorMay(r, command) ==
    report[r].status = "RECOMMENDED" /\ command \in {"save", "return", "issue"}

\* The page of the corrections saves what differs from what it was loaded with.
SalesToCorrect(r) == IF AnalystMay(r, "edit") THEN LdvSales \ {GovSales(report[r])} ELSE {}

\* The page of the assessment computes the rows from what it was loaded with.
AssessmentPage(r, opening) ==
    [year |-> report[r].year, basis |-> Basis(r, opening), selection |-> report[r].selection,
     sales |-> GovSales(report[r])]

-----------------------------------------------------------------------------
\* The supplier

\* Mutant: the next year is offered whether reports can be made for it or not.
YearOfAnyReport ==
    LET submitted == {r \in Existing : report[r].status # "DRAFT"}
        assessed == {r \in submitted : report[r].status = "ASSESSED"}
    IN  IF submitted = {} THEN {y \in Years : \A r \in Existing : report[r].year <= y}
        ELSE IF assessed = submitted
        THEN {y \in {report[r].year + 1 : r \in assessed} : \A r \in assessed : report[r].year < y}
        ELSE {}

\* The year of a new report: the one after the last that was assessed, or the
\* current one when none was submitted; nothing while a report is assessed.
\* The calendar is not kept: the current year is any that no report is ahead of.
YearOfNewReport ==
    LET submitted == {r \in Existing : report[r].status # "DRAFT"}
        assessed == {r \in submitted : report[r].status = "ASSESSED"}
    IN  IF submitted = {} THEN {y \in Years : \A r \in Existing : report[r].year <= y}
        ELSE IF assessed = submitted
        THEN {y \in Years : /\ \E r \in assessed : report[r].year = y - 1
                            /\ \A r \in assessed : report[r].year < y}
        ELSE {y \in {FirstYear} : \A r \in submitted : report[r].status = "RETURNED"}

\* What the page of a new report is filled in with, confirmed or not.
NewDraft(y) == [NoReport EXCEPT !.status = "DRAFT", !.year = y]

Create(r) ==
    /\ \A e \in Existing : e < r
    /\ \A e \in Reports : e < r => e \in Existing
    /\ SupplierOffered(r, "supplier_information", "save")
    /\ \E y \in YearOfNewReport : report' = [report EXCEPT ![r] = NewDraft(y)]
    /\ Straight
    /\ UNCHANGED <<rows, assessedVars, creditVars>>

\* The pages of the supplier information and of the consumer sales; saving one
\* without its confirmation changes nothing here.
ConfirmPart(r, part) ==
    /\ r \in Existing
    /\ SupplierOffered(r, part, "save")
    /\ report' = [report EXCEPT ![r].confirmed = @ \union {part}]
    /\ Straight
    /\ UNCHANGED <<rows, assessedVars, creditVars>>

\* All rows are replaced, those of the government included.
SaveObligation(r, sales, selection, confirm, opening) ==
    /\ r \in Existing
    /\ ObligationOffers(r, IF confirm THEN "confirm" ELSE "save", sales, selection)
    /\ IF confirm /\ sales = UsualSales /\ selection = UsualSelection THEN Straight ELSE Detour
    /\ report' = [report EXCEPT
          ![r].supplierSales = sales,
          ![r].newest = IF sales # 0 THEN "supplier" ELSE @,
          ![r].selection = selection,
          ![r].confirmed = IF confirm THEN @ \union {"compliance_obligation"} ELSE @]
    /\ rows' = [rows EXCEPT
          ![r] = [supplier |-> SupplierRows(report[r].year, Basis(r, opening), selection, sales),
                  gov |-> NoRows]]
    /\ UNCHANGED <<assessedVars, creditVars>>

\* Edit, on a page that was confirmed.
CancelConfirmation(r, part) ==
    /\ r \in Existing
    /\ SupplierOffered(r, part, "edit")
    /\ Detour
    /\ report' = [report EXCEPT ![r].confirmed = @ \ {part}]
    /\ UNCHANGED <<rows, assessedVars, creditVars>>

Submit(r) ==
    /\ r \in Existing
    /\ SupplierOffered(r, "compliance_summary", "submit")
    /\ report' = [report EXCEPT ![r].status = "SUBMITTED", ![r].confirmed = Modules]
    /\ Straight
    /\ UNCHANGED <<rows, assessedVars, creditVars>>

Delete(r) ==
    /\ {part \in Modules : SupplierOffered(r, part, "delete")} # {}
    /\ Detour
    /\ report' = [report EXCEPT ![r] = NoReport]
    /\ rows' = [rows EXCEPT ![r] = [supplier |-> NoRows, gov |-> NoRows]]
    /\ UNCHANGED <<assessedVars, creditVars>>

-----------------------------------------------------------------------------
\* The analyst

\* The sales are corrected.  The code takes the first of two rows for that of
\* the supplier, and asks for them in no order; a row once hidden stays hidden.
EditAssessment(r, sales) ==
    LET rep == report[r]
        both == rep.supplierSales # 0 /\ rep.govSales # 0
    IN  /\ sales \in SalesToCorrect(r)
        /\ Detour
        /\ \/ /\ sales \notin {rep.supplierSales, rep.govSales}
              /\ report' = [report EXCEPT ![r].govSales = sales, ![r].newest = "gov",
                                          ![r].display = @ \/ rep.govSales = 0]
           \/ /\ both /\ sales = rep.supplierSales
              /\ report' = [report EXCEPT ![r].govSales = 0, ![r].newest = "supplier",
                                          ![r].display = TRUE]
           \/ /\ both /\ sales = rep.govSales
              /\ report' = [report EXCEPT ![r].supplierSales = 0, ![r].newest = "gov"]
        /\ UNCHANGED <<rows, assessedVars, creditVars>>

\* Recommend Assessment sends the rows and the status; only the second request
\* is waited for.
Recommend(r, saved, opening) ==
    /\ AnalystMay(r, "recommend")
    /\ IF saved THEN Straight ELSE Detour
    /\ report' = [report EXCEPT ![r].status = "RECOMMENDED"]
    /\ rows' = IF saved
               THEN LET page == AssessmentPage(r, opening)
                    IN  [rows EXCEPT ![r].gov =
                            GovRows(page.year, page.basis, page.selection, page.sales)]
               ELSE rows
    /\ UNCHANGED <<assessedVars, creditVars>>

\* Two requests again, in either order: the one that clears the confirmations
\* does not find a report that is a draft already.
ReturnToSupplier(r, draftFirst) ==
    /\ AnalystMay(r, "return")
    /\ Detour
    /\ report' = [report EXCEPT
          ![r].status = "DRAFT",
          ![r].display = report[r].govSales = 0,
          ![r].confirmed = IF draftFirst THEN @ \ {"compliance_summary"} ELSE {}]
    /\ UNCHANGED <<rows, assessedVars, creditVars>>

-----------------------------------------------------------------------------
\* The director

\* Save re-sends what the page shows: the saved rows, and when those of the
\* government were lost, a calculation from those of the supplier.
DirectorSave(r) ==
    LET given == rows[r].supplier
    IN  /\ DirectorMay(r, "save")
        /\ rows[r].gov = NoRows
        /\ rows' = [rows EXCEPT ![r].gov = GovRows(report[r].year, given.basis,
                                                   report[r].selection, GovSales(report[r]))]
        /\ Straight
        /\ UNCHANGED <<report, assessedVars, creditVars>>

ReturnToAnalyst(r) ==
    /\ DirectorMay(r, "return")
    /\ Detour
    /\ report' = [report EXCEPT ![r].status = "RETURNED"]
    /\ UNCHANGED <<rows, assessedVars, creditVars>>

\* The rows an assessment is based on.
RowsOfRecord(r) == IF rows[r].gov # NoRows THEN rows[r].gov ELSE rows[r].supplier

\* Mutant: the credits that offset a deficit are not taken.
TakenWithoutOffset(saved) ==
    [k \in Kinds |->
        CASE k = "classA" -> WithColumn(NoBalance, "A", saved.result.classA)
          [] k = "unspecified" -> PositivePart(saved.result.unspecified)
          [] k \in {"offset", "added"} -> NoBalance]

\* What an assessment takes: the reductions of every kind that are positive.
Taken(saved) ==
    [k \in Kinds |->
        CASE k = "offset" -> saved.result.offset
          [] k = "classA" -> WithColumn(NoBalance, "A", saved.result.classA)
          [] k = "unspecified" -> PositivePart(saved.result.unspecified)
          [] k = "added" -> NoBalance]

\* Mutant: the deficits of earlier reports are not deleted.
AssessAddsDeficits(r) ==
    /\ DirectorMay(r, "issue")
    /\ report' = [report EXCEPT ![r].status = "ASSESSED"]
    /\ posted' = [posted EXCEPT ![r] = Taken(RowsOfRecord(r))]
    /\ deficits' = [y \in Years |-> [c \in Classes |->
                       IF Outstanding(RowsOfRecord(r))[y][c] > 0
                       THEN Outstanding(RowsOfRecord(r))[y][c] ELSE deficits[y][c]]]
    /\ orgSales' = [orgSales EXCEPT ![report[r].year] = NewestSales(report[r])]
    /\ Straight
    /\ UNCHANGED <<rows, creditVars>>

\* Issue Assessment.
Assess(r) ==
    /\ DirectorMay(r, "issue")
    /\ report' = [report EXCEPT ![r].status = "ASSESSED"]
    /\ posted' = [posted EXCEPT ![r] = Taken(RowsOfRecord(r))]
    /\ deficits' = Outstanding(RowsOfRecord(r))
    /\ orgSales' = [orgSales EXCEPT ![report[r].year] = NewestSales(report[r])]
    /\ Straight
    /\ UNCHANGED <<rows, creditVars>>

-----------------------------------------------------------------------------
\* The rest of the system: transfers, agreements, applications for credits

Post(p) ==
    /\ Detour
    /\ credits' = [credits EXCEPT ![p.period][p.year][p.class] = @ + p.value]
    /\ UNCHANGED <<report, rows, assessedVars, pending>>

SubmitApplication(a) ==
    /\ pending[a.year][a.class] = 0
    /\ Detour
    /\ pending' = [pending EXCEPT ![a.year][a.class] = a.value]
    /\ UNCHANGED <<report, rows, assessedVars, credits>>

\* Issued in the period of its vehicles or a later one, or rejected.
DecideApplication(a, issued) ==
    /\ pending[a.year][a.class] > 0
    /\ pending' = [pending EXCEPT ![a.year][a.class] = 0]
    /\ IF issued
       THEN \E period \in a.year .. LastYear :
               credits' = [credits EXCEPT ![period][a.year][a.class] = @ + pending[a.year][a.class]]
       ELSE UNCHANGED credits
    /\ Straight
    /\ UNCHANGED <<report, rows, assessedVars>>

Environment ==
    \/ \E p \in PostedCredits : Post(p)
    \/ \E a \in Applications : SubmitApplication(a)
    \/ \E a \in Applications, issued \in BOOLEAN : DecideApplication(a, issued)

-----------------------------------------------------------------------------
ReportsInit ==
    /\ report = [r \in Reports |-> NoReport]
    /\ rows = [r \in Reports |-> [supplier |-> NoRows, gov |-> NoRows]]
    /\ posted = [r \in Reports |-> [k \in Kinds |-> NoBalance]]
    /\ deficits = NoBalance
    /\ orgSales = [y \in Years |-> 0]
    /\ credits \in InitialCredits
    /\ pending = NoBalance
    /\ detours = 0

ReportStep(r, supplierOpening, govOpening) ==
    \/ Create(r)
    \/ \E part \in OtherParts : ConfirmPart(r, part)
    \/ \E sales \in SalesToEnter(r), selection \in SelectionsToMake(r), confirm \in BOOLEAN :
          SaveObligation(r, sales, selection, confirm, supplierOpening)
    \/ \E part \in Parts : CancelConfirmation(r, part)
    \/ Submit(r) \/ Delete(r)
    \/ \E sales \in LdvSales : EditAssessment(r, sales)
    \/ \E saved \in BOOLEAN : Recommend(r, saved, govOpening)
    \/ \E draftFirst \in BOOLEAN : ReturnToSupplier(r, draftFirst)
    \/ DirectorSave(r) \/ ReturnToAnalyst(r) \/ Assess(r)
=============================================================================
