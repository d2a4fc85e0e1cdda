----------------------------- MODULE BalancePage -----------------------------
(***************************************************************************)
(* The page of a supplier's credit balance.  It adds the credits that      *)
(* moved since the last report that took any to what that report ended     *)
(* with, which it computes again from the saved rows, or reads from the    *)
(* rows of the reassessment; the ledger is never added up as a whole.      *)
(***************************************************************************)
EXTENDS SupplementalReport

\* Reductions are dated to the end of the period of their report, and never deleted.
HasReductions(r) ==
    /\ report[r].status = "ASSESSED"
    /\ \/ posted[r] # [k \in Kinds |-> NoBalance]
       \/ Taken(RowsOfRecord(r)) # [k \in Kinds |-> NoBalance]

LastReduced ==
    {r \in Existing : /\ HasReductions(r)
                      /\ \A q \in Existing : HasReductions(q) => report[q].year <= report[r].year}

\* The reassessment of a report that was saved last.
MostRecentSupplemental(r) ==
    LET issued == {i \in DOMAIN log : log[i].supp \in Of(r) /\ supps[log[i].supp].status = "ASSESSED"}
    IN  IF issued = {} THEN 0 ELSE log[Newest(issued)].supp

\* The rows of the report again, with the deficits offset before the selection is known.
ReportBalances(r) ==
    LET start == OldBalances(RowsOfRecord(r).basis, [y \in {} |-> 0], "none")
        reduced == Reduction(r, start.balance, GovSales(report[r]))
    IN  [balances |-> reduced.ending,
         deficits |-> [y \in Years |-> [c \in Classes |->
             start.carried[y][c] + IF y = report[r].year THEN reduced.deficit[c] ELSE 0]]]

\* The rows of a reassessment; its deficits are not read.
ActivityBalances(s) == [balances |-> supps[s].rows.ending, deficits |-> NoBalance]

AssessedBalances(r) ==
    IF MostRecentSupplemental(r) # 0 THEN ActivityBalances(MostRecentSupplemental(r))
    ELSE ReportBalances(r)

\* Mutant: what moved in the period of the report is added again.
RecentSinceStart(r) ==
    [y \in Years |-> [c \in Classes |->
        Total([p \in Years |-> IF p >= report[r].year THEN credits[p][y][c] ELSE 0])]]

\* What moved after the last reductions.
RecentBalances(r) ==
    [y \in Years |-> [c \in Classes |->
        Total([p \in Years |-> IF p > report[r].year THEN credits[p][y][c] ELSE 0])]]

InDeficit(owed) == {c \in Classes : \E y \in Years : owed[y][c] # 0}

\* The totals by model year; with a deficit none, only the deficits and, when that
\* of class A is the only one, what the last report left of class B.
BalanceShown(assessed, recent) ==
    [deficits |-> assessed.deficits,
     credits |-> CASE InDeficit(assessed.deficits) = {} -> Plus(assessed.balances, recent)
                   [] InDeficit(assessed.deficits) = {"A"} ->
                        WithColumn(NoBalance, "B", Column(assessed.balances, "B"))
                   [] OTHER -> NoBalance]

-----------------------------------------------------------------------------
\* The last report that took credits was issued for its sales of record, and no
\* selection of class A changes how earlier deficits are offset: the page offsets
\* them before it knows the selection.
Plain(r) ==
    LET b == RowsOfRecord(r).basis
    IN  /\ Regular(r) /\ AssessedFor(r, GovSales(report[r])) /\ Apart(b)
        /\ b.owed = NoBalance \/ report[r].selection # "A"

\* It was reassessed for more sales, and nothing else moved.
Raised(r) == Undisturbed(r) /\ \E s \in Supps : RaisesSales(s, r)

\* The balance page tells the truth.  For a supplier whose reports each started
\* where the one before ended it shows the deficits that the last assessment left
\* and, with a deficit of class A only, the credits of class B that it left; when
\* there is none, what the transactions of the supplier add up to.  After a
\* reassessment for more sales it shows what they add up to, and no deficits.
BalancePageAgrees ==
    \A r \in LastReduced :
        LET shown == BalanceShown(AssessedBalances(r), RecentBalances(r))
            left == Outstanding(RowsOfRecord(r))
        IN  /\ \A q \in Existing : report[q].year < report[r].year => Regular(q)
            /\ \A q \in Existing : Assessed(q) => report[q].year <= report[r].year
            => /\ Plain(r) =>
                    /\ shown.deficits = left
                    /\ InDeficit(left) = {} => shown.credits = Ledger(LastYear)
                    /\ InDeficit(left) = {"A"} =>
                         Column(shown.credits, "B") = Column(Ledger(report[r].year), "B")
               /\ Raised(r) => shown.credits = Ledger(LastYear)
=============================================================================
