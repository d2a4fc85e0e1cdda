-------------------------- MODULE SupplementalReport --------------------------
(***************************************************************************)
(* Compliance: the model year reports of one supplier together with the    *)
(* supplemental reports that correct them.  A supplier corrects the sales  *)
(* of an assessed report; an analyst answers with a reassessment, a        *)
(* supplemental report of the government, or starts one; the director      *)
(* issues it, which changes the Reduction transactions of the report, the  *)
(* deficits of the supplier and what the next report starts with.          *)
(*                                                                         *)
(* A request names the report, not the supplemental: the one that it       *)
(* changes is the latest that the user may see, which the history decides. *)
(* Of the corrections, that of the number of vehicles is kept.             *)
(***************************************************************************)
EXTENDS ModelYearReport, Sequences

CONSTANT MaxSupplementals   \* bound: the supplemental reports ever made
ASSUME SupplementalsAssumption == MaxSupplementals \in Nat

VARIABLES
    supps,   \* [Supps -> Supplemental]: supplemental_report and its rows
    log      \* supplemental_report_history, oldest first

suppVars == <<supps, log>>
vars == <<reportVars, suppVars>>

Supps == 1 .. MaxSupplementals
NoActivity == [ending |-> NoBalance, deficit |-> [y \in {} |-> 0], before |-> [y \in {} |-> 0]]
NoSupp == [report |-> 0, gov |-> FALSE, status |-> "NONE", link |-> 0, sales |-> 0, rows |-> NoActivity]

\* One is removed with all its rows, its history included, or keeps them as deleted;
\* none of these is found again.
Of(r) == {s \in Supps : supps[s].report = r /\ supps[s].status \notin {"NONE", "REMOVED", "DELETED"}}
Oldest(S) == CHOOSE s \in S : \A t \in S : s <= t
Newest(S) == CHOOSE s \in S : \A t \in S : t <= s

-----------------------------------------------------------------------------
\* Which supplemental report is the latest

\* The places of the entries of the history that a user is shown.
Seen(r, gov) ==
    LET of == Of(r)
    IN  {i \in DOMAIN log :
            /\ log[i].supp \in of
            /\ ~gov => log[i].status # "RECOMMENDED"
            /\ log[i].status = "DRAFT" => log[i].gov = gov}

\* The government passes over what was returned right after it was submitted.
PassedOver(seen) ==
    LET Returned(i, j) == /\ i < j /\ log[i].status = "SUBMITTED" /\ log[j].status = "RETURNED"
                          /\ ~ \E k \in seen : i < k /\ k < j
    IN  {i \in seen : \E j \in seen : Returned(i, j) \/ Returned(j, i)}

\* Mutant: the one that was made last.
LatestMade(r, gov) ==
    LET seen == Seen(r, gov)
        left == IF gov THEN seen \ PassedOver(seen) ELSE seen
    IN  IF left = {} THEN 0 ELSE Newest({log[i].supp : i \in left})

LatestFor(r, gov) ==
    LET seen == Seen(r, gov)
        left == IF gov THEN seen \ PassedOver(seen) ELSE seen
    IN  IF left = {} THEN 0 ELSE log[Newest(left)].supp

\* The supplemental reports, by place, in the order of their links, or of their
\* creation when there is not exactly one without a link; 0 in a place left empty.
Linked(r, s) == {t \in Of(r) : supps[t].link = s}
Ordered(r) ==
    LET initial == Linked(r, 0)
        chain[n \in Supps] ==
            IF n = 1 THEN Oldest(initial)
            ELSE LET before == chain[n - 1]
                     next == IF before = 0 THEN {} ELSE Linked(r, before)
                 IN  IF next = {} THEN 0 ELSE Oldest(next)
    IN  IF Cardinality(initial) = 1 THEN chain
        ELSE [n \in Supps |-> IF n \in Of(r) THEN n ELSE 0]

StatusesAllowReassessment(r) ==
    LET list == Ordered(r)
        places == {n \in Supps : list[n] \in Of(r)}
    IN  /\ report[r].status = "ASSESSED"
        /\ places # {} => supps[list[Newest(places)]].status = "ASSESSED"

\* Mutant: the first one that was assessed.
FirstAssessed(r) ==
    LET list == Ordered(r)
        assessed == {n \in Supps : list[n] \in Of(r) /\ supps[list[n]].status = "ASSESSED"}
    IN  IF assessed = {} THEN 0 ELSE list[Oldest(assessed)]

LatestAssessed(r) ==
    LET list == Ordered(r)
        assessed == {n \in Supps : list[n] \in Of(r) /\ supps[list[n]].status = "ASSESSED"}
    IN  IF assessed = {} THEN 0 ELSE list[Newest(assessed)]

\* What a page lists, and the status it shows for one of them.
Listed(s, gov) ==
    LET r == supps[s].report
    IN  /\ s \in Of(r)
        /\ IF supps[s].gov THEN gov \/ supps[s].status = "ASSESSED"
           ELSE IF supps[s].status = "SUBMITTED" /\ Linked(r, s) # {}
           THEN \E t \in Linked(r, s) : ~supps[t].gov \/ (~gov /\ supps[t].status # "ASSESSED")
           ELSE gov => supps[s].status \notin {"DRAFT", "RETURNED"}

ActualStatus(s, gov) ==
    LET r == supps[s].report
        Answer(t) == supps[t].gov /\ (gov \/ supps[t].status = "ASSESSED")
        latest == LatestFor(r, gov)
    IN  IF supps[s].gov \/ Linked(r, s) = {} THEN {supps[s].status}
        ELSE {IF Answer(t) THEN supps[t].status
              ELSE IF latest # 0 THEN supps[latest].status ELSE report[r].status : t \in Linked(r, s)}

-----------------------------------------------------------------------------
\* What the pages compute

\* The sales before the correction: those of the newest assessed one, if given.
SalesBefore(r) ==
    LET assessed == {s \in Of(r) : supps[s].status = "ASSESSED"}
    IN  IF assessed # {} /\ supps[Newest(assessed)].sales # 0 THEN supps[Newest(assessed)].sales
        ELSE NewestSales(report[r])

\* Where the report of the year before ends after its own reassessment.
EndingBefore(r) ==
    LET previous == {p \in Existing : report[p].year = report[r].year - 1
                                      /\ report[p].status = "ASSESSED"}
        assessed == {s \in Of(Oldest(previous)) : supps[s].status = "ASSESSED"}
    IN  IF previous = {} \/ assessed = {} THEN [y \in {} |-> 0]
        ELSE supps[Newest(assessed)].rows.ending

\* The starting balance as the rows have it, net of the deficits.
StartOfRows(basis, before) ==
    [y \in Years |->
        IF y \in DOMAIN before /\ \E c \in Classes : basis.start[y][c] # 0 \/ basis.owed[y][c] # 0
        THEN before[y]
        ELSE [c \in Classes |-> basis.start[y][c] - basis.owed[y][c]]]

\* The deficits are subtracted from the new balance, which has them already.
NewBalances(basis, before) ==
    Minus(Plus(Plus(StartOfRows(basis, before), basis.activity), basis.pending), basis.owed)

\* The balance before the correction, with the selection the page offsets with.
OldBalances(basis, before, selection) ==
    ObligationDetails(StartOfRows(basis, before), basis.owed, basis.activity, basis.pending, selection)

Reduction(r, balance, sales) ==
    CalculateCreditReduction(balance, ClassAReduction(sales, report[r].year),
        UnspecifiedReductionBig(sales, report[r].year), report[r].selection)

Corrected(r, sales) == IF sales # 0 THEN sales ELSE SalesBefore(r)

\* The rows of the credit activity.  The row of a deficit is written while there
\* is one before or after the correction, and left as it was when there is none.
ActivityRows(r, given, sales) ==
    LET basis == RowsOfRecord(r).basis
        old == OldBalances(basis, given.before, report[r].selection)
        now == Reduction(r, NewBalances(basis, given.before), Corrected(r, sales))
        was == Reduction(r, old.balance, SalesBefore(r))
        carried == {y \in Years : \E c \in Classes : old.carried[y][c] > 0}
        own == IF \E c \in Classes : was.deficit[c] > 0 \/ now.deficit[c] > 0
               THEN {report[r].year} ELSE {}
    IN  [ending |-> now.ending,
         deficit |-> [y \in DOMAIN given.deficit \union carried \union own |->
                         IF y \in carried THEN old.carried[y]
                         ELSE IF y \in own THEN now.deficit ELSE given.deficit[y]],
         before |-> given.before]

\* Mutant: a reduction that was not there before is not sent.
ConstructUpdates(now, was) ==
    {[kind |-> "classA", year |-> y, class |-> "A", old |-> was.classA[y], new |-> now.classA[y]] :
        y \in {y \in Years : now.classA[y] > 0 /\ was.classA[y] \notin {0, now.classA[y]}}}
    \union
    {[kind |-> "unspecified", year |-> p[1], class |-> p[2],
      old |-> was.unspecified[p[1]][p[2]], new |-> now.unspecified[p[1]][p[2]]] :
        p \in {p \in Years \X Classes :
                  was.unspecified[p[1]][p[2]] \notin {0, now.unspecified[p[1]][p[2]]}}}

\* The changes of the Reduction transactions.  The new reductions are gone
\* through: one of class A that is no longer made is kept.
ConstructReassessmentReductions(now, was) ==
    {[kind |-> "classA", year |-> y, class |-> "A", old |-> was.classA[y], new |-> now.classA[y]] :
        y \in {y \in Years : now.classA[y] > 0 /\ now.classA[y] # was.classA[y]}}
    \union
    {[kind |-> "unspecified", year |-> p[1], class |-> p[2],
      old |-> was.unspecified[p[1]][p[2]], new |-> now.unspecified[p[1]][p[2]]] :
        p \in {p \in Years \X Classes : now.unspecified[p[1]][p[2]] # was.unspecified[p[1]][p[2]]}}

\* What the director's page sends.  It offsets the old deficits before it knows
\* the selection, so without one.
ReassessmentReductions(r, given, sales) ==
    LET basis == RowsOfRecord(r).basis
    IN  ConstructReassessmentReductions(
            Reduction(r, NewBalances(basis, given.before), Corrected(r, sales)),
            Reduction(r, OldBalances(basis, given.before, "none").balance, SalesBefore(r)))

-----------------------------------------------------------------------------
\* What issuing a reassessment adjusts

\* A transaction is found by its year, its class and its old value.
Found(r, updates) ==
    {f \in [updates -> Kinds] :
        /\ \A u \in updates : posted[r][f[u]][u.year][u.class] = u.old
        /\ \A u, v \in updates : u # v => f[u] # f[v]}

AdjustedCell(r, changes, y, c) ==
    LET here == {u \in changes : u.year = y /\ u.class = c}
        updates == {u \in here : u.old # 0}
        f == CHOOSE f \in Found(r, updates) : TRUE
        updated == [k \in Kinds |-> IF \E u \in updates : f[u] = k
                                    THEN (CHOOSE u \in updates : f[u] = k).new
                                    ELSE posted[r][k][y][c]]
        Room(u) == IF updated[u.kind] = 0 THEN u.kind ELSE "added"
    IN  [k \in Kinds |-> IF \E u \in here \ updates : Room(u) = k
                         THEN updated[k] + (CHOOSE u \in here \ updates : Room(u) = k).new
                         ELSE updated[k]]

\* Nothing is written when a transaction is not found: the request fails.
AdjustCreditsReassessment(s, changes) ==
    LET r == supps[s].report
        year == report[r].year
    IN  /\ \A y \in Years, c \in Classes :
              Found(r, {u \in changes : u.year = y /\ u.class = c /\ u.old # 0}) # {}
        /\ posted' = [posted EXCEPT ![r] = [k \in Kinds |-> [y \in Years |-> [c \in Classes |->
                         AdjustedCell(r, changes, y, c)[k]]]]]
        /\ orgSales' = IF supps[s].sales = 0 THEN orgSales
                       ELSE [orgSales EXCEPT ![year] = supps[s].sales]
        /\ IF DOMAIN supps[s].rows.deficit = {} THEN UNCHANGED deficits
           ELSE \E y \in DOMAIN supps[s].rows.deficit :   \* every row is written to the year of the report
                   deficits' = [deficits EXCEPT ![year] = [c \in Classes |->
                                   IF supps[s].rows.deficit[y][c] > 0
                                   THEN supps[s].rows.deficit[y][c] ELSE 0]]

-----------------------------------------------------------------------------
\* The request that saves a supplemental report

Entry(s, status, gov) == [supp |-> s, status |-> status, gov |-> gov]
NewestStatus(s) == log[Newest({i \in DOMAIN log : log[i].supp = s})].status

MakeNew(r, gov, status, sales, given) ==
    \E s \in Supps :
        /\ supps[s].status = "NONE"
        /\ \A t \in Supps : t < s => supps[t].status # "NONE"
        /\ supps' = [supps EXCEPT ![s] =
              [report |-> r, gov |-> gov, status |-> status, link |-> LatestFor(r, gov),
               sales |-> sales, rows |-> given]]
        /\ log' = Append(log, Entry(s, status, gov))

\* Mutant: all reassessments end.
SaveEndsReassessments(s, r, gov, status, sales, given) ==
    /\ supps' = [t \in Supps |->
          IF t = s THEN [supps[t] EXCEPT !.status = status, !.sales = sales, !.rows = given]
          ELSE IF status = "SUBMITTED" /\ t \in Of(r) /\ supps[t].gov
          THEN [supps[t] EXCEPT !.status = "DELETED"]
          ELSE supps[t]]
    /\ log' = Append(log, Entry(s, status, gov))

\* The draft reassessments end when the supplier submits.
SaveLatest(s, r, gov, status, sales, given) ==
    /\ supps' = [t \in Supps |->
          IF t = s THEN [supps[t] EXCEPT !.status = status, !.sales = sales, !.rows = given]
          ELSE IF status = "SUBMITTED" /\ t \in Of(r) /\ supps[t].gov /\ supps[t].status = "DRAFT"
          THEN [supps[t] EXCEPT !.status = "DELETED"]
          ELSE supps[t]]
    /\ log' = Append(log, Entry(s, status, gov))

RemoveLatest(s) ==
    /\ supps[s].status # "ASSESSED"
    /\ supps' = [supps EXCEPT ![s].status = "REMOVED"]
    /\ UNCHANGED log

\* Mutant: a recommendation adjusts the credits.
AdjustsWhenRecommended(status) == status \in {"RECOMMENDED", "ASSESSED"}

Adjusts(status) == status = "ASSESSED"

\* The request adjusts the credits only for a reassessment that is the latest.
SupplementalSave(r, gov, status, sales, given, changes) ==
    \E latest \in {LatestFor(r, gov)} :
    LET again == latest # 0 /\ status = "RETURNED" /\ NewestStatus(latest) = "RETURNED"
        own == latest # 0 /\ supps[latest].gov = gov
    IN  \/ /\ again
           /\ supps' = [supps EXCEPT ![latest].status = "RETURNED"]
           /\ log' = Append(log, Entry(latest, status, gov))
           /\ UNCHANGED assessedVars
        \/ /\ ~again /\ own /\ status = "DELETED"
           /\ RemoveLatest(latest)
           /\ UNCHANGED assessedVars
        \/ /\ ~again /\ own /\ status # "DELETED"
           /\ SaveLatest(latest, r, gov, status, sales, given)
           /\ IF Adjusts(status) THEN AdjustCreditsReassessment(latest, changes)
              ELSE UNCHANGED assessedVars
        \/ /\ ~again /\ ~own
           /\ MakeNew(r, gov, status, sales, given)
           /\ UNCHANGED assessedVars

-----------------------------------------------------------------------------
\* The pages

UsualWay(b) == IF b THEN Straight ELSE Detour
Unchanged == UNCHANGED <<report, rows, creditVars>>

\* The supplier's page of s can be edited, saved, submitted and deleted.
SupplierOffers(s) ==
    Listed(s, FALSE) /\ ActualStatus(s, FALSE) \intersect {"DRAFT", "RETURNED"} # {}

\* The analyst's page of s, which is listed and shows the status shown.
AnalystMayEdit(s, shown) ==
    supps[s].status \in {"DRAFT", "RETURNED"} \/ shown = "SUBMITTED"

AnalystOffers(s, shown, status) ==
    /\ AnalystMayEdit(s, shown)
    /\ CASE status = "DELETED" -> supps[s].gov
         [] status = "RECOMMENDED" -> supps[s].status \in {"DRAFT", "SUBMITTED", "RETURNED"}
         [] OTHER -> status = shown

\* Return to Vehicle Supplier.
AnalystReturns(s, shown) ==
    /\ ~supps[s].gov /\ supps[s].status # "DRAFT"
    /\ AnalystMayEdit(s, shown) \/ supps[s].status = "SUBMITTED"

\* Return to Analyst, Save and Issue Assessment.
DirectorOffers(s) == supps[s].gov /\ supps[s].status = "RECOMMENDED" /\ Listed(s, TRUE)

\* The status that is sent: an analyst who saves a submitted report makes a draft.
Requested(status, gov) == IF gov /\ status = "SUBMITTED" THEN "DRAFT" ELSE status

\* Create Supplementary Report, or Reassessment: the button is shown when no
\* other one is open, the form may be older than that.
CreateSupplemental(r, gov, sales) ==
    LET latest == LatestFor(r, gov)
        shown == IF latest = 0 THEN NoActivity ELSE supps[latest].rows
        before == EndingBefore(r)
        given == [shown EXCEPT !.before = IF DOMAIN before = {} THEN @ ELSE before]
    IN  /\ report[r].status = "ASSESSED"
        /\ UsualWay(~gov /\ sales # UsualSales /\ StatusesAllowReassessment(r))
        /\ MakeNew(r, gov, "DRAFT", sales, ActivityRows(r, given, sales))
        /\ UNCHANGED assessedVars /\ Unchanged

SupplierEdits(s, status, sales) ==
    LET r == supps[s].report
    IN  /\ UsualWay(status = "SUBMITTED" /\ sales = supps[s].sales /\ LatestFor(r, FALSE) = s)
        /\ SupplementalSave(r, FALSE, status, sales, ActivityRows(r, supps[s].rows, sales), {})
        /\ Unchanged

AnalystEdits(s, shown, status, sales) ==
    LET r == supps[s].report
    IN  /\ AnalystOffers(s, shown, status)
        /\ UsualWay(status = "RECOMMENDED" /\ sales = supps[s].sales /\ LatestFor(r, TRUE) = s)
        /\ SupplementalSave(r, TRUE, Requested(status, TRUE), sales,
               ActivityRows(r, supps[s].rows, sales), {})
        /\ Unchanged

ReturnSupplemental(s, shown) ==
    LET r == supps[s].report
        latest == LatestFor(r, TRUE)
    IN  /\ AnalystReturns(s, shown)
        /\ Detour
        /\ IF latest # 0 /\ supps[latest].status = "SUBMITTED"
           THEN /\ supps' = [supps EXCEPT ![latest].status = "DRAFT"]
                /\ log' = Append(log, Entry(latest, "DRAFT", TRUE))
                /\ UNCHANGED assessedVars
           ELSE SupplementalSave(r, TRUE, "DRAFT", supps[s].sales, supps[s].rows, {})
        /\ Unchanged

DirectorDecides(s, status) ==
    LET r == supps[s].report
    IN  /\ UsualWay(status = "ASSESSED" /\ LatestFor(r, TRUE) = s)
        /\ SupplementalSave(r, TRUE, status, supps[s].sales, supps[s].rows,
               ReassessmentReductions(r, supps[s].rows, supps[s].sales))
        /\ Unchanged

SupplementalStep ==
    \/ \E r \in Existing, gov \in BOOLEAN, sales \in LdvSales : CreateSupplemental(r, gov, sales)
    \/ \E s \in {s \in Supps : supps[s].status # "NONE"} :
          \/ /\ SupplierOffers(s)
             /\ \E status \in {"DRAFT", "SUBMITTED", "DELETED"}, sales \in LdvSales \union {supps[s].sales} :
                   SupplierEdits(s, status, sales)
          \/ /\ Listed(s, TRUE)
             /\ \E shown \in ActualStatus(s, TRUE) :
                   \/ \E status \in {shown, "RECOMMENDED", "DELETED"},
                         sales \in LdvSales \union {supps[s].sales} :
                         AnalystEdits(s, shown, status, sales)
                   \/ ReturnSupplemental(s, shown)
          \/ /\ DirectorOffers(s)
             /\ \E status \in {"RETURNED", "RECOMMENDED", "ASSESSED"} : DirectorDecides(s, status)

-----------------------------------------------------------------------------
\* What a report starts with: a supplemental report of the year before goes
\* first, for the supplier the latest one it sees, for the government the
\* latest that was assessed.  Its deficits are not carried.

StartsWith(s) == [start |-> PositivePart(supps[s].rows.ending), owed |-> NoBalance]

SupplierOpening(r) ==
    LET latest == {LatestFor(p, FALSE) : p \in Previous(r)} \ {0}
    IN  IF latest # {} THEN StartsWith(Newest(latest)) ELSE Opening(r)

GovOpening(r) ==
    LET assessed == {LatestAssessed(p) : p \in Previous(r)} \ {0}
    IN  IF assessed # {} THEN StartsWith(Newest(assessed)) ELSE Opening(r)

Init ==
    /\ ReportsInit
    /\ supps = [s \in Supps |-> NoSupp]
    /\ log = << >>

Next ==
    \/ \E r \in Reports : ReportStep(r, SupplierOpening(r), GovOpening(r)) /\ UNCHANGED suppVars
    \/ Environment /\ UNCHANGED suppVars
    \/ SupplementalStep

Spec == Init /\ [][Next]_vars

-----------------------------------------------------------------------------
\* Properties

\* The type invariant.
TypeOK ==
    /\ \A r \in Reports :
          /\ report[r].status \in Statuses /\ report[r].year \in Years
          /\ report[r].confirmed \subseteq Modules /\ report[r].selection \in Selections
          /\ posted[r] \in [Kinds -> Balances]
    /\ deficits \in Balances /\ credits \in [Years -> Balances] /\ pending \in Balances
    /\ orgSales \in [Years -> Nat]
    /\ \A s \in Supps :
          /\ supps[s].report \in Reports \union {0} /\ supps[s].link \in 0 .. MaxSupplementals
          /\ supps[s].status \in Statuses \union {"REMOVED", "DELETED"}
          /\ supps[s].rows.ending \in Balances
    /\ log \in Seq([supp : Supps, status : Statuses \union {"DELETED"}, gov : BOOLEAN])

SavedRows == UNION {{rows[r][by] : by \in {by \in {"supplier", "gov"} : rows[r][by].saved}} : r \in Reports}
Assessed(r) == report[r].status = "ASSESSED"
Issues(h, r) == h.gov /\ h.status = "ASSESSED" /\ supps[h.supp].report = r
Reassessed(r) == \E i \in DOMAIN log : Issues(log[i], r)
OnlyOfItsYear(r) == \A q \in Existing : report[q].year = report[r].year => q = r
Available(basis) == Plus(Plus(basis.start, basis.activity), basis.pending)
Apart(basis) == \A y \in Years, c \in Classes : basis.start[y][c] = 0 \/ basis.owed[y][c] = 0

\* Saved rows lose no credit and no debt: what was started with and moved is
\* still there, was offset or was taken, and what was owed is settled or still
\* owed.
ObligationAccounted ==
    \A saved \in SavedRows :
        saved.selection # "none" =>
            LET b == saved.basis
            IN  Worth(Available(b)) - Worth(b.owed)
                    - saved.due["A"] - saved.due["B"]
                = Worth(saved.result.ending) - Worth(Outstanding(saved))

\* Credits of a year are taken only when those of the years before are used up,
\* unless what the supplier has of some year is negative: the code adds that to
\* what is still needed, and takes it from the credits of later years.
OldestFirst ==
    \A saved \in SavedRows : NotNegative(Available(saved.basis)) => \A y, z \in Years : y < z =>
        /\ saved.result.classA[z] > 0 => saved.result.ending[y]["A"] <= 0
        /\ \A c \in Classes : saved.result.unspecified[z][c] > 0 => saved.result.ending[y][c] <= 0

\* No deficit is left beside credits that could have settled it, whichever of
\* offsetting, class A and unspecified reductions should have used them, again
\* unless what the supplier has is negative somewhere.
NoCreditsBesideDeficit ==
    \A saved \in SavedRows :
        saved.selection # "none" /\ NotNegative(Available(saved.basis)) => \A y, z \in Years :
            /\ Outstanding(saved)[y]["A"] > 0 => saved.result.ending[z]["A"] <= 0
            /\ Outstanding(saved)[y]["B"] > 0 => \A c \in Classes : saved.result.ending[z][c] <= 0

\* The two pages that show a supplier the outcome agree: what the summary adds up
\* is what the page of the obligation lists, unless credits were negative or the
\* report starts with credits and with a deficit of the same year and class.
SummaryAgrees ==
    \A saved \in SavedRows :
        LET b == saved.basis
        IN  saved.selection # "none" /\ NotNegative(Available(b)) /\ Apart(b)
                => SummaryBalance(saved) = Listing(saved)

\* What is on record of a deficit: with the supplier, and as left by or loaded for
\* the rows of a report.
Recorded(y, c) ==
    {deficits[y][c]} \union {Outstanding(saved)[y][c] : saved \in SavedRows}
                     \union {saved.basis.owed[y][c] : saved \in SavedRows}

\* A deficit is counted once, however often it is carried: rows that are saved leave
\* no more of it than was on record somewhere and, for the year of their report,
\* what is due, unless the supplier had less than nothing of some year.
DeficitsCountedOnce ==
    [][\A saved \in SavedRows' \ SavedRows : NotNegative(Available(saved.basis)) =>
          \A y \in Years, c \in Classes : \E n \in Recorded(y, c) :
              Outstanding(saved)[y][c] <= n + IF y = saved.year THEN saved.due[c] ELSE 0]_rows

\* From the time a report is assessed until it is reassessed, what is posted for
\* it is what its rows of record say, and nothing is posted before.
PostedIsAssessed ==
    \A r \in Reports : ~Reassessed(r) =>
        posted[r] = IF Assessed(r) THEN Taken(RowsOfRecord(r)) ELSE [k \in Kinds |-> NoBalance]

\* The deficits of a supplier are those of one assessment, never a mix of two.
DeficitsOfOneAssessment ==
    (\A r \in Reports : ~Reassessed(r)) =>
        \/ deficits = NoBalance /\ \A r \in Reports : ~Assessed(r)
        \/ \E r \in Reports : Assessed(r) /\ deficits = Outstanding(RowsOfRecord(r))

\* The credits of the periods up to a year, less what was taken for its reports.
Ledger(year) ==
    LET Spent(p, y, c) ==
            LET of == {r \in Existing : report[r].year = p}
                r == Oldest(of)
            IN  IF of = {} THEN 0
                ELSE posted[r]["offset"][y][c] + posted[r]["classA"][y][c]
                     + posted[r]["unspecified"][y][c] + posted[r]["added"][y][c]
    IN  [y \in Years |-> [c \in Classes |->
            Total([p \in Years |-> IF p <= year THEN credits[p][y][c] - Spent(p, y, c) ELSE 0])]]

\* Nothing moved or went negative behind a report, which starts where the one
\* before it ended.
Undisturbed(r) ==
    LET b == RowsOfRecord(r).basis
    IN  /\ OnlyOfItsYear(r)
        /\ b.pending = NoBalance /\ b.activity = credits[report[r].year]
        /\ b.activity = PositivePart(b.activity)
        /\ \/ report[r].year = FirstYear
           \/ \E p \in Previous(r) : Assessed(p) /\ b.start = RowsOfRecord(p).result.ending

Regular(r) == Assessed(r) /\ ~Reassessed(r) /\ Undisturbed(r)

\* What an assessed report ends with is what the ledger then holds: the credits
\* that the pages compute with are those the transactions leave.
LedgerMatchesEnding ==
    \A r \in Existing :
        (\A q \in Existing : report[q].year <= report[r].year => Regular(q))
            => Ledger(report[r].year) = RowsOfRecord(r).result.ending

\* No supplemental report was started beside another one or from one that is gone:
\* a reassessment from the supplier's, or any from a reassessment that is issued.
OneAtATime(r) ==
    \A s, t \in Of(r) :
        /\ supps[t].link \in Of(r) \union {0}
        /\ supps[s].link = supps[t].link => s = t
        /\ supps[t].link = s => IF supps[s].gov THEN supps[s].status = "ASSESSED" ELSE supps[t].gov

\* The report was assessed for these sales, as the government's page rounds them.
AssessedFor(r, sales) ==
    RowsOfRecord(r).due = [c \in Classes |->
        IF c = "A" THEN ClassAReduction(sales, report[r].year)
        ELSE UnspecifiedReductionBig(sales, report[r].year)]

\* The reassessment s of r raised the sales and is the only one, the report was
\* assessed for its sales of record, and neither an earlier deficit, a negative
\* balance nor a reassessment of the year before comes in.
RaisesSales(s, r) ==
    LET b == RowsOfRecord(r).basis
    IN  /\ supps[s].report = r /\ supps[s].gov /\ supps[s].status = "ASSESSED"
        /\ \A t \in Supps : supps[t].report = r =>
              t = s \/ (t = supps[s].link /\ ~supps[t].gov)
        /\ AssessedFor(r, NewestSales(report[r]))
        /\ supps[s].sales >= NewestSales(report[r])
        /\ b.owed = NoBalance /\ NotNegative(Available(b))
        /\ DOMAIN supps[s].rows.before = {}

\* A reassessment that raises the sales leaves posted what the new sales take.
ReassessedLedger ==
    \A r \in Reports, s \in Supps :
        LET b == RowsOfRecord(r).basis
            new == Reduction(r, Available(b), supps[s].sales)
        IN  RaisesSales(s, r) =>
                \A y \in Years, c \in Classes :
                  posted[r]["classA"][y][c] + posted[r]["unspecified"][y][c] + posted[r]["added"][y][c]
                  = (IF c = "A" THEN new.classA[y] ELSE 0) + new.unspecified[y][c]

\* The supplemental report that the next year starts with is the one that was
\* issued last, as long as they were made one at a time.
LatestAssessedIsLast ==
    \A r \in Reports :
        LET issued == {i \in DOMAIN log : log[i].supp \in Of(r) /\ log[i].status = "ASSESSED"}
        IN  issued # {} /\ OneAtATime(r) => LatestAssessed(r) = log[Newest(issued)].supp

\* The government answers what was submitted: the reassessment that its requests
\* change was begun after every submission it is shown, whichever branch of the
\* request made the submission and whether or not that ended the drafts, but for
\* a submission that was returned right after.
ReassessmentAnswers ==
    \A r \in Reports :
        LET t == LatestFor(r, TRUE)
        IN  t # 0 /\ supps[t].gov =>
              \A i \in Seen(r, TRUE) \ PassedOver(Seen(r, TRUE)), j \in DOMAIN log :
                 log[i].status = "SUBMITTED" /\ log[j].supp = t => i < j

\* An assessed report is final: neither its status nor its rows change again.
AssessedIsFinal ==
    [][\A r \in Reports : Assessed(r) => report'[r] = report[r] /\ rows'[r] = rows[r]]_vars

\* The credits, deficits and sales of record change only when a report is issued,
\* or a reassessment is and the history says so.
AdjustedOnlyByAssessment ==
    [][assessedVars' # assessedVars =>
          \/ \E r \in Reports : ~Assessed(r) /\ Assessed(r)'
          \/ \E s \in Supps : supps[s].gov /\ supps'[s].status = "ASSESSED"
                                /\ log' = Append(log, Entry(s, "ASSESSED", TRUE))]_vars

\* An issued reassessment stays issued, as long as they are made one at a time and
\* none that is there was returned right after something was submitted.
IssuedStaysIssued ==
    [][\A s \in Supps :
          /\ supps[s].gov /\ supps[s].status = "ASSESSED" /\ OneAtATime(supps[s].report)
          /\ PassedOver(Seen(supps[s].report, TRUE)) = {}
          => supps'[s].status = "ASSESSED"]_vars
=============================================================================
