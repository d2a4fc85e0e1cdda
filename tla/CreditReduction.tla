--------------------------- MODULE CreditReduction ---------------------------
(***************************************************************************)
(* The arithmetic of a compliance obligation, as the pages of model year   *)
(* reports compute it (frontend/src/app/utilities): what a supplier owes   *)
(* for the vehicles it sold, how deficits of earlier years are offset, and *)
(* which credits are taken, oldest first.                                  *)
(*                                                                         *)
(* Amounts are integers, hundredths of a credit.  A balance has a value    *)
(* for every year and credit class, zero where the program has no entry.   *)
(* A deficit has a class A part and an unspecified part; the tables keep   *)
(* the latter in the column of class B, and so does "B" here.              *)
(***************************************************************************)
EXTENDS Integers

CONSTANTS
    FirstYear, LastYear,   \* the model years of credits and of reports
    ComplianceRatio,       \* [Years -> Nat]: hundredths of a percent
    ZevClassA,             \* [Years -> Nat]: hundredths of a percent
    SupplierClass          \* "S", "M" or "L"

Years == FirstYear .. LastYear
Classes == {"A", "B"}

ASSUME YearsAssumption == FirstYear \in Nat /\ LastYear \in Nat /\ FirstYear <= LastYear
ASSUME RatiosAssumption ==
    /\ ComplianceRatio \in [Years -> Nat]
    /\ ZevClassA \in [Years -> Nat]
    /\ \A y \in Years : ZevClassA[y] <= ComplianceRatio[y]
ASSUME SupplierClassAssumption == SupplierClass \in {"S", "M", "L"}

Amounts == [Years -> Int]                  \* one class
Balances == [Years -> [Classes -> Int]]    \* both
NoBalance == [y \in Years |-> [c \in Classes |-> 0]]
Selections == Classes \union {"none"}      \* credit_reduction_selection

Lesser(m, n) == IF m <= n THEN m ELSE n
Positive(amounts) == [y \in Years |-> IF amounts[y] > 0 THEN amounts[y] ELSE 0]
PositivePart(balance) ==
    [y \in Years |-> [c \in Classes |-> IF balance[y][c] > 0 THEN balance[y][c] ELSE 0]]
Column(balance, c) == [y \in Years |-> balance[y][c]]
WithColumn(balance, c, amounts) == [y \in Years |-> [balance[y] EXCEPT ![c] = amounts[y]]]

\* The sum up to and including each year.
Running(amounts) ==
    LET sum[y \in Years] == amounts[y] + IF y = FirstYear THEN 0 ELSE sum[y - 1]
    IN  sum

Total(amounts) == Running(amounts)[LastYear]
Worth(balance) == Total(Column(balance, "A")) + Total(Column(balance, "B"))
NotNegative(balance) == \A y \in Years, c \in Classes : balance[y][c] >= 0

Plus(b1, b2) == [y \in Years |-> [c \in Classes |-> b1[y][c] + b2[y][c]]]
Minus(b1, b2) == [y \in Years |-> [c \in Classes |-> b1[y][c] - b2[y][c]]]

-----------------------------------------------------------------------------
\* What is owed for a number of vehicles

Rounded(hundredths) == (hundredths + 50) \div 100

TotalReduction(sales, year) ==
    IF SupplierClass = "S" THEN 0 ELSE Rounded(sales * ComplianceRatio[year])

ClassAReduction(sales, year) ==
    IF SupplierClass # "L" THEN 0 ELSE Rounded(sales * ZevClassA[year])

\* The supplier's page subtracts rounded numbers ...
UnspecifiedReduction(sales, year) ==
    IF SupplierClass = "S" THEN 0
    ELSE TotalReduction(sales, year) - ClassAReduction(sales, year)

\* ... and the page of the government rounds the difference.
UnspecifiedReductionBig(sales, year) ==
    IF SupplierClass = "S" THEN 0
    ELSE Rounded(sales * (ComplianceRatio[year] - IF SupplierClass = "L" THEN ZevClassA[year] ELSE 0))

-----------------------------------------------------------------------------
\* Deficits of earlier years are offset with the credits

\* What is left of amounts when n of them are used, oldest first.
Consume(amounts, n) ==
    LET run == Running(Positive(amounts))
    IN  [y \in Years |->
            IF amounts[y] <= 0 THEN amounts[y]
            ELSE IF run[y] < n THEN 0
            ELSE IF y = FirstYear \/ run[y] - amounts[y] < n THEN run[y] - n
            ELSE amounts[y]]

\* Mutant: the unspecified deficits are offset before those of class A.
OffsetUnspecifiedFirst(s, c, d) ==
    LET credits == Column(s.balance, c)
        debts == Column(s.owed, d)
        used == Lesser(Total(Positive(credits)), Total(debts))
    IN  IF c = "A" /\ d = "A" THEN s
        ELSE [balance |-> WithColumn(s.balance, c, Consume(credits, used)),
              owed |-> WithColumn(s.owed, d, Consume(debts, used))]

\* Credits of class c against the deficits of kind d; s has both.
Offset(s, c, d) ==
    LET credits == Column(s.balance, c)
        debts == Column(s.owed, d)
        used == Lesser(Total(Positive(credits)), Total(debts))
    IN  IF s.balance = NoBalance \/ s.owed = NoBalance THEN s
        ELSE [balance |-> WithColumn(s.balance, c, Consume(credits, used)),
              owed |-> WithColumn(s.owed, d, Consume(debts, used))]

\* The reductions shown for a balance that was offset.
OffsetReductions(initial, ending) ==
    [y \in Years |-> [c \in Classes |->
        IF initial[y][c] > 0 /\ ending[y][c] >= 0 /\ initial[y][c] > ending[y][c]
        THEN initial[y][c] - ending[y][c] ELSE 0]]

NewProvisionalBalance(balance, owed, selection) ==
    LET first == IF selection = "A" THEN "A" ELSE "B"
        second == IF first = "A" THEN "B" ELSE "A"
        s == Offset(Offset(Offset([balance |-> balance, owed |-> owed], "A", "A"),
                           first, "B"),
                    second, "B")
    IN  [balance |-> s.balance,
         offset |-> OffsetReductions(balance, s.balance),
         carried |-> s.owed]

-----------------------------------------------------------------------------
\* The credits taken for the obligation

\* Mutant: the amount still needed is not reduced by what a year gave.
TakeEachYear(amounts, need) ==
    LET given == [y \in Years |-> Lesser(amounts[y], need)]
    IN  [taken |-> given,
         left |-> IF Total(given) >= need THEN 0 ELSE need - Total(given)]

\* Mutant: the newest credits are taken first.
TakeNewestFirst(amounts, need) ==
    LET back(y) == FirstYear + LastYear - y
        left[y \in Years] ==
            LET before == IF y = FirstYear THEN need ELSE left[y - 1]
            IN  IF amounts[back(y)] >= before THEN 0 ELSE before - amounts[back(y)]
    IN  [taken |-> [y \in Years |->
                        LET before == IF y = LastYear THEN need ELSE left[back(y) - 1]
                        IN  Lesser(amounts[y], before)],
         left |-> left[LastYear]]

\* What each year still has to give; a year with less gives what it has, also
\* when that is negative.
Take(amounts, need) ==
    LET left[y \in Years] ==
            LET before == IF y = FirstYear THEN need ELSE left[y - 1]
            IN  IF amounts[y] >= before THEN 0 ELSE before - amounts[y]
    IN  [taken |-> [y \in Years |->
                        LET before == IF y = FirstYear THEN need ELSE left[y - 1]
                        IN  Lesser(amounts[y], before)],
         left |-> left[LastYear]]

\* Class A first; then the unspecified part, with the selected class before the
\* other one, and not at all when no class was selected.
CalculateCreditReduction(balance, classA, unspecified, selection) ==
    LET a == Take(Column(balance, "A"), classA)
        afterA == WithColumn(balance, "A", [y \in Years |-> balance[y]["A"] - a.taken[y]])
        other == IF selection = "A" THEN "B" ELSE "A"
        first == Take(Column(afterA, selection), unspecified)
        second == Take(Column(afterA, other), first.left)
        takenNext == [y \in Years |-> [c \in Classes |->
                        IF c = selection THEN first.taken[y] ELSE second.taken[y]]]
    IN  IF selection = "none"
        THEN [classA |-> Positive(a.taken), unspecified |-> NoBalance, ending |-> afterA,
              deficit |-> [c \in Classes |-> IF c = "A" THEN a.left ELSE 0]]
        ELSE [classA |-> Positive(a.taken), unspecified |-> takenNext,
              ending |-> Minus(afterA, takenNext),
              deficit |-> [c \in Classes |-> IF c = "A" THEN a.left ELSE second.left]]

\* Everything a page derives from what the supplier starts with, the deficits it
\* owes, the credits that moved and those that are pending.
ObligationDetails(start, owed, activity, pending, selection) ==
    NewProvisionalBalance(
        Plus(Plus(PositivePart(start), activity), pending),
        owed, selection)

Reduce(start, owed, activity, pending, selection, classA, unspecified) ==
    LET provisional == ObligationDetails(start, owed, activity, pending, selection)
        reduced == CalculateCreditReduction(provisional.balance, classA, unspecified, selection)
    IN  IF SupplierClass = "S"
        THEN [offset |-> provisional.offset, carried |-> provisional.carried,
              classA |-> [y \in Years |-> 0], unspecified |-> NoBalance,
              ending |-> provisional.balance, deficit |-> [c \in Classes |-> 0]]
        ELSE [offset |-> provisional.offset, carried |-> provisional.carried,
              classA |-> reduced.classA, unspecified |-> reduced.unspecified,
              ending |-> reduced.ending, deficit |-> reduced.deficit]
=============================================================================
