------------------------ MODULE ModelYearReportProofs ------------------------
(***************************************************************************)
(* What holds of the assessments of any number of reports, with any number *)
(* of supplemental reports and without a bound on detours.  First what the *)
(* arithmetic of a compliance obligation computes, for all years, ratios,  *)
(* balances and deficits: nothing is lost, the oldest credits go first,    *)
(* and no deficit is left beside credits that could settle it (the         *)
(* recursive definitions are reasoned about with the least year for which  *)
(* a claim fails).  Then which report, which supplemental report and which *)
(* entry of the history a request changes; what the saved rows hold, and   *)
(* the sums of the ledger, by induction over the years.                    *)
(***************************************************************************)
EXTENDS SupplementalReport, WellFoundedInduction, TLAPS

-----------------------------------------------------------------------------
\* Induction and recursion over the years

\* A set of natural numbers that is not empty has a least one.
LEMMA LeastNumber ==
    ASSUME NEW T \in SUBSET Nat, T # {}
    PROVE  \E n \in T : \A m \in T : n <= m
<1>1. IsWellFoundedOn(OpToRel(<, Nat), Nat)
    BY NatLessThanWellFounded
<1> DEFINE R == OpToRel(<, Nat)
<1>2. \A x, y \in Nat : <<y, x>> \in R <=> y < x
    BY DEF OpToRel
<1> HIDE DEF R
<1>3. \E x \in T : \A y \in T : ~ (<<y, x>> \in R)
    BY <1>1, WFMin DEF R
<1>4. PICK x \in T : \A y \in T : ~ (<<y, x>> \in R)
    BY <1>3
<1>5. \A y \in T : x <= y
    <2> SUFFICES ASSUME NEW y \in T PROVE x <= y
        OBVIOUS
    <2>1. x \in Nat /\ y \in Nat
        OBVIOUS
    <2>2. ~ (y < x)
        BY <1>2, <1>4, <2>1, Zenon
    <2> QED
        BY <2>1, <2>2
<1> QED
    BY <1>5

\* Induction: the set S holds all years.
LEMMA YearInduction ==
    ASSUME NEW S, FirstYear \in S,
           \A y \in Years : y \in S /\ y + 1 \in Years => y + 1 \in S
    PROVE  Years \subseteq S
<1> SUFFICES ASSUME Years \ S # {} PROVE FALSE
    OBVIOUS
<1>1. Years \ S \in SUBSET Nat
    BY YearsAssumption DEF Years
<1>2. PICK n \in Years \ S : \A m \in Years \ S : n <= m
    BY <1>1, LeastNumber
<1>3. n - 1 \in Years /\ n = (n - 1) + 1
    BY <1>2, YearsAssumption DEF Years
<1>4. n - 1 \in S
    BY <1>2, <1>3, YearsAssumption DEF Years
<1> QED
    BY <1>2, <1>3, <1>4

\* What comes before year y of a function g that starts with init.
Before(g, init, y) == IF y = FirstYear THEN init ELSE g[y - 1]

\* A function of the years is given by its value for a year, which may depend on
\* that for the year before.
LEMMA RecursionExists ==
    ASSUME NEW F \in [Years \X Int -> Int], NEW init \in Int
    PROVE  \E g \in [Years -> Int] : \A y \in Years : g[y] = F[<<y, Before(g, init, y)>>]
<1> DEFINE Upto(n) == FirstYear .. n
           Has(n) == \E g \in [Upto(n) -> Int] :
                         \A y \in Upto(n) : g[y] = F[<<y, Before(g, init, y)>>]
           S == {n \in Years : Has(n)}
<1>1. FirstYear \in S
    <2> DEFINE g == [y \in Upto(FirstYear) |-> F[<<FirstYear, init>>]]
    <2>1. FirstYear \in Years /\ \A y \in Upto(FirstYear) : y = FirstYear
        BY YearsAssumption DEF Years
    <2>2. F[<<FirstYear, init>>] \in Int
        BY <2>1
    <2>3. g \in [Upto(FirstYear) -> Int]
        BY <2>2
    <2>4. \A y \in Upto(FirstYear) : g[y] = F[<<y, Before(g, init, y)>>]
        BY <2>1 DEF Before
    <2> QED
        BY <2>1, <2>3, <2>4
<1>2. ASSUME NEW n \in Years, n \in S, n + 1 \in Years PROVE n + 1 \in S
    <2>1. PICK g \in [Upto(n) -> Int] : \A y \in Upto(n) : g[y] = F[<<y, Before(g, init, y)>>]
        BY <1>2
    <2>2. n \in Upto(n) /\ g[n] \in Int
        BY <2>1, YearsAssumption DEF Years
    <2> DEFINE h == [y \in Upto(n + 1) |-> IF y = n + 1 THEN F[<<n + 1, g[n]>>] ELSE g[y]]
    <2>3. F[<<n + 1, g[n]>>] \in Int
        BY <1>2, <2>2
    <2>4. \A y \in Upto(n + 1) : y = n + 1 \/ y \in Upto(n)
        BY YearsAssumption DEF Years
    <2>5. h \in [Upto(n + 1) -> Int]
        BY <2>1, <2>3, <2>4
    <2>6. ASSUME NEW y \in Upto(n + 1) PROVE h[y] = F[<<y, Before(h, init, y)>>]
        <3>1. CASE y = n + 1
            <4>1. y # FirstYear /\ y - 1 = n /\ n \in Upto(n + 1) /\ n # n + 1
                BY <3>1, YearsAssumption DEF Years
            <4>2. Before(h, init, y) = g[n]
                BY <4>1 DEF Before
            <4> QED
                BY <3>1, <4>2
        <3>2. CASE y # n + 1
            <4>1. y \in Upto(n)
                BY <2>4, <3>2
            <4>2. y # FirstYear => y - 1 \in Upto(n) /\ y - 1 \in Upto(n + 1) /\ y - 1 # n + 1
                BY <4>1, YearsAssumption DEF Years
            <4>3. Before(h, init, y) = Before(g, init, y)
                BY <4>2 DEF Before
            <4> QED
                BY <2>1, <3>2, <4>1, <4>3
        <3> QED
            BY <3>1, <3>2
    <2> HIDE DEF h
    <2> QED
        BY <1>2, <2>5, <2>6
<1>3. LastYear \in Years /\ Upto(LastYear) = Years
    BY YearsAssumption DEF Years
<1>4. Years \subseteq S
    <2> HIDE DEF S
    <2> QED
        BY <1>1, <1>2, YearInduction
<1> QED
    BY <1>3, <1>4

-----------------------------------------------------------------------------
\* Sums over the years

LEMMA YearsFacts ==
    /\ Years \subseteq Nat /\ FirstYear \in Years /\ LastYear \in Years
    /\ \A y \in Years : FirstYear <= y /\ y <= LastYear
    /\ \A y \in Years : y # FirstYear => y - 1 \in Years
BY YearsAssumption DEF Years

LEMMA RunningIs ==
    ASSUME NEW amounts \in Amounts
    PROVE  /\ Running(amounts) \in Amounts
           /\ \A y \in Years : Running(amounts)[y] = amounts[y] + Before(Running(amounts), 0, y)
<1> DEFINE F == [p \in Years \X Int |-> amounts[p[1]] + p[2]]
           sum == CHOOSE sum : sum = [y \in Years |->
                      amounts[y] + IF y = FirstYear THEN 0 ELSE sum[y - 1]]
<1>1. F \in [Years \X Int -> Int]
    BY DEF Amounts
<1>2. PICK g \in [Years -> Int] : \A y \in Years : g[y] = F[<<y, Before(g, 0, y)>>]
    <2> HIDE DEF F
    <2>1. 0 \in Int
        OBVIOUS
    <2> QED
        BY <1>1, <2>1, RecursionExists, Zenon
<1>3. \A y \in Years : Before(g, 0, y) \in Int
    BY <1>2, YearsFacts DEF Before
<1>4. \A y \in Years : g[y] = amounts[y] + IF y = FirstYear THEN 0 ELSE g[y - 1]
    BY <1>2, <1>3 DEF Before
<1>5. g = [y \in Years |-> amounts[y] + IF y = FirstYear THEN 0 ELSE g[y - 1]]
    BY <1>2, <1>4
<1>6. sum = [y \in Years |-> amounts[y] + IF y = FirstYear THEN 0 ELSE sum[y - 1]]
    <2>1. \E f : f = [y \in Years |-> amounts[y] + IF y = FirstYear THEN 0 ELSE f[y - 1]]
        BY <1>5
    <2> QED
        BY <2>1, Zenon
<1>7. Running(amounts) = sum
    BY Zenon DEF Running
<1> HIDE DEF sum
<1>8. \A y \in Years : sum[y] = amounts[y] + Before(sum, 0, y)
    BY <1>6 DEF Before
<1>9. sum \in [Years -> Int]
    <2> DEFINE S == {y \in Years : sum[y] \in Int}
    <2>1. FirstYear \in S
        BY <1>8, YearsFacts DEF Before, Amounts
    <2>2. ASSUME NEW y \in Years, y \in S, y + 1 \in Years PROVE y + 1 \in S
        <3>1. y + 1 # FirstYear /\ (y + 1) - 1 = y
            BY <2>2, YearsFacts
        <3>2. sum[y + 1] = amounts[y + 1] + sum[y]
            BY <1>8, <2>2, <3>1 DEF Before
        <3> QED
            BY <2>2, <3>2 DEF Amounts
    <2>3. Years \subseteq S
        <3> HIDE DEF S
        <3> QED
            BY <2>1, <2>2, YearInduction
    <2> QED
        BY <1>6, <2>3
<1> QED
    BY <1>7, <1>8, <1>9 DEF Amounts

\* The recursion, year by year.
LEMMA RunningSteps ==
    ASSUME NEW amounts \in Amounts
    PROVE  /\ Running(amounts)[FirstYear] = amounts[FirstYear]
           /\ \A y \in Years : y + 1 \in Years =>
                  Running(amounts)[y + 1] = amounts[y + 1] + Running(amounts)[y]
<1>1. Running(amounts) \in Amounts
    BY RunningIs
<1>2. Running(amounts)[FirstYear] = amounts[FirstYear]
    BY RunningIs, YearsFacts DEF Before, Amounts
<1>3. ASSUME NEW y \in Years, y + 1 \in Years
      PROVE  Running(amounts)[y + 1] = amounts[y + 1] + Running(amounts)[y]
    <2>1. y + 1 # FirstYear /\ (y + 1) - 1 = y
        BY <1>3, YearsFacts
    <2> QED
        BY <1>3, <2>1, RunningIs DEF Before
<1> QED
    BY <1>2, <1>3

LEMMA TotalType ==
    ASSUME NEW amounts \in Amounts PROVE Total(amounts) \in Int
BY RunningIs, YearsFacts DEF Total, Amounts

\* A total is linear.
LEMMA TotalPlus ==
    ASSUME NEW a \in Amounts, NEW b \in Amounts, NEW c \in Amounts,
           \A y \in Years : c[y] = a[y] + b[y]
    PROVE  Total(c) = Total(a) + Total(b)
<1> DEFINE S == {y \in Years : Running(c)[y] = Running(a)[y] + Running(b)[y]}
<1>1. FirstYear \in S
    BY RunningSteps, YearsFacts
<1>2. ASSUME NEW y \in Years, y \in S, y + 1 \in Years PROVE y + 1 \in S
    <2>1. /\ Running(a)[y] \in Int /\ Running(b)[y] \in Int
          /\ a[y + 1] \in Int /\ b[y + 1] \in Int
        BY <1>2, RunningIs DEF Amounts
    <2>2. /\ Running(a)[y + 1] = a[y + 1] + Running(a)[y]
          /\ Running(b)[y + 1] = b[y + 1] + Running(b)[y]
          /\ Running(c)[y + 1] = c[y + 1] + Running(c)[y]
        BY <1>2, RunningSteps
    <2> QED
        BY <1>2, <2>1, <2>2
<1>3. Years \subseteq S
    <2> HIDE DEF S
    <2> QED
        BY <1>1, <1>2, YearInduction
<1> QED
    BY <1>3, YearsFacts DEF Total

LEMMA TotalZero ==
    ASSUME NEW a \in Amounts, \A y \in Years : a[y] = 0
    PROVE  Total(a) = 0
<1>1. Total(a) = Total(a) + Total(a)
    BY TotalPlus
<1> QED
    BY <1>1, TotalType

\* A year alone is the sum of all.
LEMMA TotalOne ==
    ASSUME NEW a \in Amounts, NEW k \in Years, \A y \in Years : y # k => a[y] = 0
    PROVE  Total(a) = a[k]
<1> DEFINE S == {y \in Years : Running(a)[y] = IF y < k THEN 0 ELSE a[k]}
<1>1. \A y \in Years : y \in Int /\ a[y] \in Int /\ FirstYear <= y /\ y <= LastYear
    BY YearsFacts DEF Amounts
<1>2. FirstYear \in S
    BY <1>1, RunningSteps, YearsFacts
<1>3. ASSUME NEW y \in Years, y \in S, y + 1 \in Years PROVE y + 1 \in S
    <2>1. Running(a)[y + 1] = a[y + 1] + Running(a)[y]
        BY <1>3, RunningSteps
    <2>2. CASE y + 1 < k
        BY <1>1, <1>3, <2>1, <2>2
    <2>3. CASE y + 1 = k
        BY <1>1, <1>3, <2>1, <2>3
    <2>4. CASE y + 1 > k
        BY <1>1, <1>3, <2>1, <2>4
    <2> QED
        BY <1>1, <2>2, <2>3, <2>4
<1>4. Years \subseteq S
    <2> HIDE DEF S
    <2> QED
        BY <1>2, <1>3, YearInduction
<1>5. LastYear \in S
    BY <1>4, YearsFacts
<1> QED
    BY <1>1, <1>5, YearsFacts DEF Total

\* Sums of amounts that are not negative only grow.
LEMMA RunningGrows ==
    ASSUME NEW a \in Amounts, \A y \in Years : a[y] >= 0
    PROVE  \A y, z \in Years : y <= z => 0 <= Running(a)[y] /\ a[y] <= Running(a)[y]
                                          /\ Running(a)[y] <= Running(a)[z]
<1>0. \A y \in Years : Running(a)[y] \in Int /\ a[y] \in Int
    BY RunningIs DEF Amounts
<1> DEFINE S == {z \in Years : \A y \in Years : y <= z =>
                    0 <= Running(a)[y] /\ a[y] <= Running(a)[y] /\ Running(a)[y] <= Running(a)[z]}
<1>1. FirstYear \in S
    <2>1. \A y \in Years : y <= FirstYear => y = FirstYear
        BY YearsFacts
    <2> QED
        BY <1>0, <2>1, RunningSteps, YearsFacts
<1>2. ASSUME NEW z \in Years, z \in S, z + 1 \in Years PROVE z + 1 \in S
    <2>1. Running(a)[z + 1] = a[z + 1] + Running(a)[z]
        BY <1>2, RunningSteps
    <2>2. 0 <= Running(a)[z]
        BY <1>2, YearsFacts
    <2>3. \A y \in Years : y <= z + 1 => y <= z \/ y = z + 1
        BY <1>2, YearsFacts
    <2> QED
        BY <1>0, <1>2, <2>1, <2>2, <2>3
<1>3. Years \subseteq S
    <2> HIDE DEF S
    <2> QED
        BY <1>1, <1>2, YearInduction
<1> QED
    BY <1>3

LEMMA TotalBounds ==
    ASSUME NEW a \in Amounts, \A y \in Years : a[y] >= 0
    PROVE  0 <= Total(a) /\ \A y \in Years : a[y] <= Total(a)
<1>1. \A y \in Years : Running(a)[y] \in Int /\ a[y] \in Int
    BY RunningIs DEF Amounts
<1> QED
    BY <1>1, RunningGrows, YearsFacts DEF Total

LEMMA PositiveType ==
    ASSUME NEW a \in Amounts
    PROVE  Positive(a) \in Amounts /\ \A y \in Years : Positive(a)[y] >= 0 /\ Positive(a)[y] >= a[y]
BY DEF Positive, Amounts

-----------------------------------------------------------------------------
\* Using up credits, and offsetting deficits with them

\* n of the amounts that are positive are used, and what is left of each is
\* between zero and what there was; when all are used none is left.
LEMMA ConsumeIs ==
    ASSUME NEW a \in Amounts, NEW n \in Nat, n <= Total(Positive(a))
    PROVE  LET left == Consume(a, n)
           IN  /\ left \in Amounts
               /\ Total(left) = Total(a) - n
               /\ \A y \in Years : IF a[y] <= 0 THEN left[y] = a[y]
                                   ELSE 0 <= left[y] /\ left[y] <= a[y]
               /\ n = Total(Positive(a)) => \A y \in Years : left[y] <= 0
<1> DEFINE p == Positive(a)
           run == Running(p)
           left == Consume(a, n)
           used == Running(left)
           was == Running(a)
<1>1. p \in Amounts /\ \A y \in Years : p[y] = IF a[y] > 0 THEN a[y] ELSE 0
    BY DEF Positive, Amounts
<1>2. /\ run \in Amounts /\ \A y \in Years : run[y] \in Int /\ a[y] \in Int
      /\ run[FirstYear] = p[FirstYear]
      /\ \A y \in Years : y + 1 \in Years => run[y + 1] = p[y + 1] + run[y]
    BY <1>1, RunningIs, RunningSteps DEF Amounts
<1>3. \A y, z \in Years : y <= z => 0 <= run[y] /\ p[y] <= run[y] /\ run[y] <= run[z]
    BY <1>1, RunningGrows DEF Amounts
<1>4. \A y \in Years : left[y] = IF a[y] <= 0 THEN a[y]
                                 ELSE IF run[y] < n THEN 0
                                 ELSE IF y = FirstYear \/ run[y] - a[y] < n THEN run[y] - n
                                 ELSE a[y]
    BY DEF Consume
<1>5. left \in Amounts
    <2>1. \A y \in Years : left[y] \in Int
        BY <1>2, <1>4
    <2> QED
        BY <2>1 DEF Consume, Amounts
<1> HIDE DEF left, p, run
<1>6. /\ was \in Amounts /\ used \in Amounts
      /\ was[FirstYear] = a[FirstYear] /\ used[FirstYear] = left[FirstYear]
      /\ \A y \in Years : y + 1 \in Years =>
            was[y + 1] = a[y + 1] + was[y] /\ used[y + 1] = left[y + 1] + used[y]
    BY <1>5, RunningIs, RunningSteps
<1>7. \A y \in Years : was[y] \in Int /\ used[y] \in Int /\ left[y] \in Int
    BY <1>5, <1>6 DEF Amounts
<1> HIDE DEF was, used
<1> DEFINE S == {y \in Years : used[y] = was[y] - Lesser(run[y], n)}
<1>8. FirstYear \in S
    <2>1. FirstYear \in Years /\ 0 <= run[FirstYear]
        BY <1>3, YearsFacts
    <2> QED
        BY <1>1, <1>2, <1>4, <1>6, <2>1 DEF Lesser
<1>9. ASSUME NEW y \in Years, y \in S, y + 1 \in Years PROVE y + 1 \in S
    <2>1. y + 1 # FirstYear /\ 0 <= run[y] /\ run[y + 1] = p[y + 1] + run[y]
        BY <1>2, <1>3, <1>9, YearsFacts
    <2>2. used[y] = was[y] - Lesser(run[y], n)
        BY <1>9
    <2>3. CASE a[y + 1] <= 0
        <3>1. p[y + 1] = 0 /\ left[y + 1] = a[y + 1]
            BY <1>1, <1>2, <1>4, <1>9, <2>3
        <3>2. run[y + 1] = run[y]
            BY <1>2, <1>9, <2>1, <3>1
        <3>3. /\ used[y + 1] = left[y + 1] + used[y] /\ was[y + 1] = a[y + 1] + was[y]
              /\ used[y] \in Int /\ was[y] \in Int /\ a[y + 1] \in Int /\ run[y] \in Int
            BY <1>2, <1>6, <1>7, <1>9
        <3> QED
            BY <1>9, <2>2, <3>1, <3>2, <3>3 DEF Lesser
    <2>4. CASE a[y + 1] > 0
        <3>1. p[y + 1] = a[y + 1]
            BY <1>1, <1>9, <2>4
        <3>2. left[y + 1] = IF run[y + 1] < n THEN 0
                            ELSE IF run[y + 1] - a[y + 1] < n THEN run[y + 1] - n ELSE a[y + 1]
            BY <1>2, <1>4, <1>9, <2>1, <2>4
        <3>3. /\ used[y + 1] = left[y + 1] + used[y] /\ was[y + 1] = a[y + 1] + was[y]
              /\ used[y] \in Int /\ was[y] \in Int /\ a[y + 1] \in Int /\ run[y] \in Int
            BY <1>2, <1>6, <1>7, <1>9
        <3> QED
            BY <1>9, <2>1, <2>2, <2>4, <3>1, <3>2, <3>3 DEF Lesser
    <2> QED
        BY <1>2, <1>9, <2>3, <2>4
<1>10. Years \subseteq S
    <2> HIDE DEF S
    <2> QED
        BY <1>8, <1>9, YearInduction
<1>11. Total(p) = run[LastYear] /\ Total(a) = was[LastYear] /\ Total(left) = used[LastYear]
    BY DEF Total, run, was, used
<1>12. Total(left) = Total(a) - n
    <2>1. n <= run[LastYear]
        BY <1>11 DEF p
    <2>2. used[LastYear] = was[LastYear] - Lesser(run[LastYear], n)
        BY <1>10, YearsFacts
    <2>3. Lesser(run[LastYear], n) = n
        BY <1>2, <2>1, YearsFacts DEF Lesser
    <2> QED
        BY <1>11, <2>2, <2>3
<1>13. ASSUME NEW y \in Years
       PROVE  IF a[y] <= 0 THEN left[y] = a[y] ELSE 0 <= left[y] /\ left[y] <= a[y]
    <2>1. a[y] > 0 => y # FirstYear \/ run[y] = a[y]
        BY <1>1, <1>2, <1>13
    <2> QED
        BY <1>2, <1>4, <1>13, <2>1
<1>14. ASSUME n = Total(p), NEW y \in Years PROVE left[y] <= 0
    <2>1. run[y] <= n
        BY <1>3, <1>11, <1>14, YearsFacts
    <2>2. a[y] > 0 => y # FirstYear \/ run[y] = a[y]
        BY <1>1, <1>2, <1>14
    <2> QED
        BY <1>2, <1>4, <1>14, <2>1, <2>2
<1> QED
    BY <1>5, <1>12, <1>13, <1>14 DEF left, p

\* No deficit is negative.
Debts == {owed \in Balances : \A y \in Years, c \in Classes : owed[y][c] >= 0}

LEMMA ColumnType ==
    ASSUME NEW b \in Balances, NEW c \in Classes
    PROVE  Column(b, c) \in Amounts /\ \A y \in Years : Column(b, c)[y] = b[y][c]
BY DEF Column, Amounts, Balances

LEMMA WithColumnIs ==
    ASSUME NEW b \in Balances, NEW c \in Classes, NEW a \in Amounts
    PROVE  /\ WithColumn(b, c, a) \in Balances
           /\ \A y \in Years, k \in Classes : WithColumn(b, c, a)[y][k] = IF k = c THEN a[y] ELSE b[y][k]
           /\ \A k \in Classes : Column(WithColumn(b, c, a), k) = IF k = c THEN a ELSE Column(b, k)
<1>1. /\ WithColumn(b, c, a) \in Balances
      /\ \A y \in Years, k \in Classes : WithColumn(b, c, a)[y][k] = IF k = c THEN a[y] ELSE b[y][k]
    BY DEF WithColumn, Balances, Amounts
<1>2. ASSUME NEW k \in Classes PROVE Column(WithColumn(b, c, a), k) = IF k = c THEN a ELSE Column(b, k)
    BY <1>1, <1>2 DEF Column, Amounts
<1> QED
    BY <1>1, <1>2

\* What offsetting the deficits of kind d with the credits of class c does.
Offsets(s, c, d, r) ==
    /\ r = [balance |-> r.balance, owed |-> r.owed]
    /\ r.balance \in Balances /\ r.owed \in Debts
    /\ \A y \in Years : r.owed[y][d] <= s.owed[y][d]
    /\ \A k \in Classes \ {c} : Column(r.balance, k) = Column(s.balance, k)
    /\ \A k \in Classes \ {d} : Column(r.owed, k) = Column(s.owed, k)
    /\ \A y \in Years : IF s.balance[y][c] <= 0 THEN r.balance[y][c] = s.balance[y][c]
                        ELSE 0 <= r.balance[y][c] /\ r.balance[y][c] <= s.balance[y][c]
    /\ Total(Column(s.balance, c)) - Total(Column(r.balance, c))
         = Total(Column(s.owed, d)) - Total(Column(r.owed, d))
    /\ \/ \A y \in Years : r.owed[y][d] = 0
       \/ \A y \in Years : r.balance[y][c] <= 0

LEMMA OffsetIs ==
    ASSUME NEW balance \in Balances, NEW owed \in Debts, NEW c \in Classes, NEW d \in Classes
    PROVE  LET s == [balance |-> balance, owed |-> owed] IN Offsets(s, c, d, Offset(s, c, d))
<1> DEFINE s == [balance |-> balance, owed |-> owed]
           r == Offset(s, c, d)
           held == Column(balance, c)
           debts == Column(owed, d)
           all == Total(Positive(held))
           due == Total(debts)
           used == Lesser(all, due)
           left == Consume(held, used)
           still == Consume(debts, used)
<1>1. held \in Amounts /\ \A y \in Years : held[y] = balance[y][c]
    BY ColumnType
<1>2. debts \in Amounts /\ \A y \in Years : debts[y] = owed[y][d] /\ debts[y] >= 0
    BY ColumnType DEF Debts
<1>3. Positive(debts) = debts
    BY <1>2 DEF Positive, Amounts
<1>4. all \in Nat /\ due \in Nat
    BY <1>1, <1>2, PositiveType, TotalType, TotalBounds
<1>5. used \in Nat /\ used <= all /\ used <= due /\ (used = all \/ used = due)
    BY <1>4 DEF Lesser
<1>6. owed \in Balances /\ \A y \in Years, k \in Classes : balance[y][k] \in Int /\ owed[y][k] \in Int
    BY DEF Debts, Balances
<1>7. CASE balance = NoBalance \/ owed = NoBalance
    <2>1. r = s
        BY <1>7 DEF Offset
    <2>2. (\A y \in Years : owed[y][d] = 0) \/ (\A y \in Years : balance[y][c] <= 0)
        BY <1>7 DEF NoBalance
    <2>3. Total(held) - Total(held) = due - due
        BY <1>1, <1>4, TotalType
    <2> QED
        BY <1>6, <2>1, <2>2, <2>3 DEF Offsets
<1>8. CASE ~(balance = NoBalance \/ owed = NoBalance)
    <2>1. /\ r.balance = WithColumn(balance, c, left)
          /\ r.owed = WithColumn(owed, d, still)
          /\ r = [balance |-> r.balance, owed |-> r.owed]
        BY <1>8 DEF Offset
    <2> HIDE DEF r
    <2>2. /\ left \in Amounts /\ Total(left) = Total(held) - used
          /\ \A y \in Years : IF held[y] <= 0 THEN left[y] = held[y]
                              ELSE 0 <= left[y] /\ left[y] <= held[y]
          /\ used = all => \A y \in Years : left[y] <= 0
        <3> HIDE DEF held, used, left
        <3>1. used <= Total(Positive(held)) /\ all = Total(Positive(held))
            BY <1>5 DEF held
        <3> QED
            BY <1>1, <1>5, <3>1, ConsumeIs DEF left
    <2>3. /\ still \in Amounts /\ Total(still) = due - used
          /\ \A y \in Years : IF debts[y] <= 0 THEN still[y] = debts[y]
                              ELSE 0 <= still[y] /\ still[y] <= debts[y]
          /\ used = due => \A y \in Years : still[y] <= 0
        <3> HIDE DEF debts, used, still, due
        <3>1. used <= Total(Positive(debts)) /\ due = Total(Positive(debts)) /\ due = Total(debts)
            BY <1>3, <1>5 DEF due
        <3>2. debts \in Amounts /\ used \in Nat
            BY <1>2, <1>5
        <3>3. /\ still \in Amounts /\ Total(still) = Total(debts) - used
              /\ \A y \in Years : IF debts[y] <= 0 THEN still[y] = debts[y]
                                  ELSE 0 <= still[y] /\ still[y] <= debts[y]
              /\ used = Total(Positive(debts)) => \A y \in Years : still[y] <= 0
            BY <3>1, <3>2, ConsumeIs DEF still
        <3> QED
            BY <3>1, <3>3
    <2> HIDE DEF left, still, used, all, due
    <2>4. \A y \in Years : still[y] \in Int /\ still[y] >= 0 /\ left[y] \in Int
        BY <1>2, <2>2, <2>3 DEF Amounts
    <2>5. /\ r.balance \in Balances
          /\ \A y \in Years : r.balance[y][c] = left[y]
          /\ Column(r.balance, c) = left
          /\ \A k \in Classes \ {c} : Column(r.balance, k) = Column(balance, k)
        BY <2>1, <2>2, WithColumnIs
    <2>6. /\ r.owed \in Balances
          /\ \A y \in Years, k \in Classes : r.owed[y][k] = IF k = d THEN still[y] ELSE owed[y][k]
          /\ Column(r.owed, d) = still
          /\ \A k \in Classes \ {d} : Column(r.owed, k) = Column(owed, k)
        BY <1>6, <2>1, <2>3, WithColumnIs
    <2>7. r.owed \in Debts
        BY <2>4, <2>6 DEF Debts
    <2>8. \A y \in Years : IF balance[y][c] <= 0 THEN r.balance[y][c] = balance[y][c]
                           ELSE 0 <= r.balance[y][c] /\ r.balance[y][c] <= balance[y][c]
        BY <1>1, <2>2, <2>5
    <2>9. Total(held) - Total(Column(r.balance, c)) = Total(debts) - Total(Column(r.owed, d))
        <3>1. Total(held) \in Int /\ Total(debts) = due
            BY <1>1, TotalType DEF due
        <3> QED
            BY <1>4, <1>5, <2>2, <2>3, <2>5, <2>6, <3>1
    <2>10. (\A y \in Years : r.owed[y][d] = 0) \/ (\A y \in Years : r.balance[y][c] <= 0)
        BY <1>5, <2>2, <2>3, <2>4, <2>5, <2>6
    <2>11. \A y \in Years : r.owed[y][d] <= owed[y][d]
        BY <1>2, <1>6, <2>3, <2>4, <2>6
    <2>12. Offsets(s, c, d, r)
        BY <2>1, <2>11, <2>5, <2>6, <2>7, <2>8, <2>9, <2>10 DEF Offsets
    <2> QED
        BY <2>12 DEF r
<1> QED
    BY <1>7, <1>8

\* The columns that an offset leaves, value by value.
LEMMA OffsetsLeaves ==
    ASSUME NEW s, NEW c, NEW d, NEW r, Offsets(s, c, d, r)
    PROVE  /\ \A y \in Years, k \in Classes \ {c} : r.balance[y][k] = s.balance[y][k]
           /\ \A y \in Years, k \in Classes \ {d} : r.owed[y][k] = s.owed[y][k]
<1>1. ASSUME NEW y \in Years, NEW k \in Classes \ {c} PROVE r.balance[y][k] = s.balance[y][k]
    <2>1. Column(r.balance, k)[y] = r.balance[y][k] /\ Column(s.balance, k)[y] = s.balance[y][k]
        BY DEF Column
    <2>2. Column(r.balance, k) = Column(s.balance, k)
        BY <1>1 DEF Offsets
    <2> QED
        BY <2>1, <2>2
<1>2. ASSUME NEW y \in Years, NEW k \in Classes \ {d} PROVE r.owed[y][k] = s.owed[y][k]
    <2>1. Column(r.owed, k)[y] = r.owed[y][k] /\ Column(s.owed, k)[y] = s.owed[y][k]
        BY DEF Column
    <2>2. Column(r.owed, k) = Column(s.owed, k)
        BY <1>2 DEF Offsets
    <2> QED
        BY <2>1, <2>2
<1> QED
    BY <1>1, <1>2

\* What is left of each amount of balance is between zero and what there was.
UsedFrom(balance, left) ==
    \A y \in Years, c \in Classes :
        IF balance[y][c] <= 0 THEN left[y][c] = balance[y][c]
        ELSE 0 <= left[y][c] /\ left[y][c] <= balance[y][c]

\* The deficits are settled as far as there are credits, and the credits go down
\* by as much as the deficits; the reductions shown are what is missing.
LEMMA NewProvisionalBalanceIs ==
    ASSUME NEW balance \in Balances, NEW owed \in Debts, NEW selection \in Selections
    PROVE  LET p == NewProvisionalBalance(balance, owed, selection)
           IN  /\ p.balance \in Balances /\ p.carried \in Debts /\ p.offset \in Balances
               /\ UsedFrom(balance, p.balance)
               /\ \A y \in Years, c \in Classes : p.offset[y][c] = balance[y][c] - p.balance[y][c]
               /\ Worth(balance) - Worth(p.balance) = Worth(owed) - Worth(p.carried)
               /\ \A y \in Years, c \in Classes : p.carried[y][c] <= owed[y][c]
               /\ (\E y \in Years : p.carried[y]["A"] > 0) => \A y \in Years : p.balance[y]["A"] <= 0
               /\ (\E y \in Years : p.carried[y]["B"] > 0) =>
                      \A y \in Years, c \in Classes : p.balance[y][c] <= 0
<1> DEFINE first == IF selection = "A" THEN "A" ELSE "B"
           second == IF first = "A" THEN "B" ELSE "A"
           s0 == [balance |-> balance, owed |-> owed]
           s1 == Offset(s0, "A", "A")
           s2 == Offset(s1, first, "B")
           s3 == Offset(s2, second, "B")
           p == NewProvisionalBalance(balance, owed, selection)
<1>1. /\ Classes = {first, second} /\ Classes = {"A", "B"}
      /\ (first = "A" /\ second = "B") \/ (first = "B" /\ second = "A")
    BY DEF Classes
<1>2. p = [balance |-> s3.balance, offset |-> OffsetReductions(balance, s3.balance), carried |-> s3.owed]
    BY DEF NewProvisionalBalance
<1> HIDE DEF p, first, second
<1>3. Offsets(s0, "A", "A", s1)
    BY <1>1, OffsetIs
<1>4. Offsets(s1, first, "B", s2)
    <2>1. /\ s1 = [balance |-> s1.balance, owed |-> s1.owed]
          /\ s1.balance \in Balances /\ s1.owed \in Debts
        BY <1>3 DEF Offsets
    <2> HIDE DEF s1
    <2>2. LET s == [balance |-> s1.balance, owed |-> s1.owed]
          IN  Offsets(s, first, "B", Offset(s, first, "B"))
        BY <1>1, <2>1, OffsetIs
    <2> QED
        BY <2>1, <2>2
<1>5. Offsets(s2, second, "B", s3)
    <2>1. /\ s2 = [balance |-> s2.balance, owed |-> s2.owed]
          /\ s2.balance \in Balances /\ s2.owed \in Debts
        BY <1>4 DEF Offsets
    <2> HIDE DEF s2
    <2>2. LET s == [balance |-> s2.balance, owed |-> s2.owed]
          IN  Offsets(s, second, "B", Offset(s, second, "B"))
        BY <1>1, <2>1, OffsetIs
    <2> QED
        BY <2>1, <2>2
<1>6. s0.balance = balance /\ s0.owed = owed
    OBVIOUS
<1> HIDE DEF s0, s1, s2, s3
<1>7. /\ s1.balance \in Balances /\ s2.balance \in Balances /\ s3.balance \in Balances
      /\ s1.owed \in Debts /\ s2.owed \in Debts /\ s3.owed \in Debts
    BY <1>3, <1>4, <1>5 DEF Offsets
<1>8. \A y \in Years, c \in Classes :
          /\ balance[y][c] \in Int /\ owed[y][c] \in Int
          /\ s1.balance[y][c] \in Int /\ s2.balance[y][c] \in Int /\ s3.balance[y][c] \in Int
          /\ s1.owed[y][c] \in Nat /\ s2.owed[y][c] \in Nat /\ s3.owed[y][c] \in Nat
    BY <1>7 DEF Balances, Debts
\* Columns that an offset leaves, value by value.
<1>9. /\ \A y \in Years : s1.balance[y]["B"] = balance[y]["B"] /\ s1.owed[y]["B"] = owed[y]["B"]
      /\ \A y \in Years : s2.balance[y][second] = s1.balance[y][second] /\ s2.owed[y]["A"] = s1.owed[y]["A"]
      /\ \A y \in Years : s3.balance[y][first] = s2.balance[y][first] /\ s3.owed[y]["A"] = s2.owed[y]["A"]
    <2>1. \A y \in Years : s1.balance[y]["B"] = s0.balance[y]["B"] /\ s1.owed[y]["B"] = s0.owed[y]["B"]
        BY <1>1, <1>3, OffsetsLeaves
    <2>2. \A y \in Years : s2.balance[y][second] = s1.balance[y][second] /\ s2.owed[y]["A"] = s1.owed[y]["A"]
        BY <1>1, <1>4, OffsetsLeaves
    <2>3. \A y \in Years : s3.balance[y][first] = s2.balance[y][first] /\ s3.owed[y]["A"] = s2.owed[y]["A"]
        BY <1>1, <1>5, OffsetsLeaves
    <2> QED
        BY <1>6, <2>1, <2>2, <2>3
<1>10. UsedFrom(balance, s3.balance)
    <2> SUFFICES ASSUME NEW y \in Years, NEW c \in Classes
                 PROVE  IF balance[y][c] <= 0 THEN s3.balance[y][c] = balance[y][c]
                        ELSE 0 <= s3.balance[y][c] /\ s3.balance[y][c] <= balance[y][c]
        BY DEF UsedFrom
    <2>1. IF balance[y][c] <= 0 THEN s1.balance[y][c] = balance[y][c]
          ELSE 0 <= s1.balance[y][c] /\ s1.balance[y][c] <= balance[y][c]
        BY <1>1, <1>3, <1>6, <1>8, <1>9 DEF Offsets
    <2>2. IF s1.balance[y][c] <= 0 THEN s2.balance[y][c] = s1.balance[y][c]
          ELSE 0 <= s2.balance[y][c] /\ s2.balance[y][c] <= s1.balance[y][c]
        BY <1>1, <1>4, <1>8, <1>9 DEF Offsets
    <2>3. IF s2.balance[y][c] <= 0 THEN s3.balance[y][c] = s2.balance[y][c]
          ELSE 0 <= s3.balance[y][c] /\ s3.balance[y][c] <= s2.balance[y][c]
        BY <1>1, <1>5, <1>8, <1>9 DEF Offsets
    <2> QED
        BY <1>8, <2>1, <2>2, <2>3
<1>11. /\ OffsetReductions(balance, s3.balance) \in Balances
       /\ \A y \in Years, c \in Classes :
              OffsetReductions(balance, s3.balance)[y][c] = balance[y][c] - s3.balance[y][c]
    <2>1. \A y \in Years, c \in Classes :
              OffsetReductions(balance, s3.balance)[y][c] = balance[y][c] - s3.balance[y][c]
        BY <1>8, <1>10 DEF OffsetReductions, UsedFrom
    <2>2. \A y \in Years, c \in Classes : OffsetReductions(balance, s3.balance)[y][c] \in Int
        BY <1>8, <2>1
    <2> QED
        BY <2>1, <2>2 DEF OffsetReductions, Balances
<1>12. Worth(balance) - Worth(s3.balance) = Worth(owed) - Worth(s3.owed)
    <2> DEFINE T(b, k) == Total(Column(b, k))
    <2>1. \A b \in Balances, k \in Classes : T(b, k) \in Int
        BY ColumnType, TotalType
    <2>2. owed \in Balances /\ s1.owed \in Balances /\ s2.owed \in Balances /\ s3.owed \in Balances
        BY <1>7 DEF Debts
    <2>3. /\ T(balance, "A") - T(s1.balance, "A") = T(owed, "A") - T(s1.owed, "A")
          /\ T(s1.balance, "B") = T(balance, "B") /\ T(s1.owed, "B") = T(owed, "B")
        BY <1>1, <1>3, <1>6 DEF Offsets
    <2>4. /\ T(s1.balance, first) - T(s2.balance, first) = T(s1.owed, "B") - T(s2.owed, "B")
          /\ T(s2.balance, second) = T(s1.balance, second) /\ T(s2.owed, "A") = T(s1.owed, "A")
        BY <1>1, <1>4 DEF Offsets
    <2>5. /\ T(s2.balance, second) - T(s3.balance, second) = T(s2.owed, "B") - T(s3.owed, "B")
          /\ T(s3.balance, first) = T(s2.balance, first) /\ T(s3.owed, "A") = T(s2.owed, "A")
        BY <1>1, <1>5 DEF Offsets
    <2>6. \A b : Worth(b) = T(b, "A") + T(b, "B")
        BY DEF Worth
    <2> HIDE DEF T
    <2>7. /\ T(balance, "A") \in Int /\ T(balance, "B") \in Int /\ T(owed, "A") \in Int /\ T(owed, "B") \in Int
          /\ T(s1.balance, "A") \in Int /\ T(s1.balance, "B") \in Int
          /\ T(s1.owed, "A") \in Int /\ T(s1.owed, "B") \in Int
          /\ T(s2.balance, "A") \in Int /\ T(s2.balance, "B") \in Int
          /\ T(s2.owed, "A") \in Int /\ T(s2.owed, "B") \in Int
          /\ T(s3.balance, "A") \in Int /\ T(s3.balance, "B") \in Int
          /\ T(s3.owed, "A") \in Int /\ T(s3.owed, "B") \in Int
        BY <1>1, <1>7, <2>1, <2>2
    <2> QED
        BY <1>1, <2>3, <2>4, <2>5, <2>6, <2>7
<1>13. ASSUME NEW z \in Years, s3.owed[z]["A"] > 0 PROVE \A y \in Years : s3.balance[y]["A"] <= 0
    <2>1. s1.owed[z]["A"] # 0
        BY <1>1, <1>8, <1>9, <1>13
    <2>2. \A y \in Years : s1.balance[y]["A"] <= 0
        BY <1>3, <2>1 DEF Offsets
    <2>3. \A y \in Years : s2.balance[y]["A"] = s1.balance[y]["A"]
        <3>1. CASE first = "A"
            BY <1>4, <2>2, <3>1 DEF Offsets
        <3>2. CASE second = "A"
            BY <1>9, <3>2
        <3> QED
            BY <1>1, <3>1, <3>2
    <2>4. \A y \in Years : s3.balance[y]["A"] = s2.balance[y]["A"]
        <3>1. CASE second = "A"
            <4>1. \A y \in Years : s2.balance[y][second] <= 0
                BY <2>2, <2>3, <3>1
            <4> QED
                BY <1>5, <3>1, <4>1 DEF Offsets
        <3>2. CASE first = "A"
            BY <1>9, <3>2
        <3> QED
            BY <1>1, <3>1, <3>2
    <2> QED
        BY <2>2, <2>3, <2>4
<1>14. ASSUME NEW z \in Years, s3.owed[z]["B"] > 0
       PROVE  \A y \in Years, c \in Classes : s3.balance[y][c] <= 0
    <2>1. s3.owed[z]["B"] # 0 /\ s2.owed[z]["B"] # 0
        <3>1. s3.owed[z]["B"] <= s2.owed[z]["B"]
            BY <1>5 DEF Offsets
        <3>2. s3.owed[z]["B"] \in Nat /\ s2.owed[z]["B"] \in Nat
            BY <1>1, <1>8
        <3> QED
            BY <1>14, <3>1, <3>2
    <2>2. \A y \in Years : s2.balance[y][first] <= 0
        BY <1>4, <2>1 DEF Offsets
    <2>3. \A y \in Years : s3.balance[y][second] <= 0
        BY <1>5, <2>1 DEF Offsets
    <2> QED
        BY <1>1, <1>9, <2>2, <2>3
<1>15. ASSUME NEW y \in Years, NEW c \in Classes PROVE s3.owed[y][c] <= owed[y][c]
    <2>1. s1.owed[y]["A"] <= owed[y]["A"]
        BY <1>3, <1>6 DEF Offsets
    <2>2. s2.owed[y]["B"] <= s1.owed[y]["B"] /\ s3.owed[y]["B"] <= s2.owed[y]["B"]
        BY <1>4, <1>5 DEF Offsets
    <2>3. /\ owed[y]["B"] \in Int /\ s1.owed[y]["B"] \in Int /\ s2.owed[y]["B"] \in Int
          /\ s3.owed[y]["B"] \in Int
        BY <1>1, <1>8
    <2>4. s3.owed[y]["A"] <= owed[y]["A"] /\ s3.owed[y]["B"] <= owed[y]["B"]
        BY <1>9, <2>1, <2>2, <2>3
    <2> QED
        BY <1>1, <2>4
<1>16. p.balance = s3.balance /\ p.carried = s3.owed /\ p.offset = OffsetReductions(balance, s3.balance)
    BY <1>2
<1> QED
    BY <1>7, <1>10, <1>11, <1>12, <1>13, <1>14, <1>15, <1>16 DEF p

-----------------------------------------------------------------------------
\* Taking credits, oldest first

\* What is still to be given after each year, and what the year gives.
TakeSteps(a, need, left, taken) ==
    /\ left \in [Years -> Nat] /\ taken \in Amounts
    /\ \A y \in Years : Before(left, need, y) \in Nat
    /\ \A y \in Years : left[y] = IF a[y] >= Before(left, need, y) THEN 0
                                  ELSE Before(left, need, y) - a[y]
    /\ \A y \in Years : taken[y] = Lesser(a[y], Before(left, need, y))

LEMMA TakeRecursion ==
    ASSUME NEW a \in Amounts, NEW need \in Nat
    PROVE  \E left : /\ TakeSteps(a, need, left, Take(a, need).taken)
                     /\ Take(a, need).left = left[LastYear]
<1> DEFINE F == [p \in Years \X Int |-> IF a[p[1]] >= p[2] THEN 0 ELSE p[2] - a[p[1]]]
           L == CHOOSE left : left = [y \in Years |->
                    LET before == IF y = FirstYear THEN need ELSE left[y - 1]
                    IN  IF a[y] >= before THEN 0 ELSE before - a[y]]
<1>1. F \in [Years \X Int -> Int]
    BY DEF Amounts
<1>2. PICK g \in [Years -> Int] : \A y \in Years : g[y] = F[<<y, Before(g, need, y)>>]
    <2> HIDE DEF F
    <2>1. need \in Int
        OBVIOUS
    <2> QED
        BY <1>1, <2>1, RecursionExists, Zenon
<1>3. \A y \in Years : Before(g, need, y) \in Int
    BY <1>2, YearsFacts DEF Before
<1>4. g = [y \in Years |-> LET before == IF y = FirstYear THEN need ELSE g[y - 1]
                           IN  IF a[y] >= before THEN 0 ELSE before - a[y]]
    <2>1. ASSUME NEW y \in Years
          PROVE  g[y] = IF a[y] >= Before(g, need, y) THEN 0 ELSE Before(g, need, y) - a[y]
        BY <1>2, <1>3
    <2> HIDE DEF F
    <2>2. g = [y \in Years |-> IF a[y] >= Before(g, need, y) THEN 0 ELSE Before(g, need, y) - a[y]]
        BY <1>2, <2>1
    <2> QED
        BY <2>2 DEF Before
<1>5. L = [y \in Years |-> LET before == IF y = FirstYear THEN need ELSE L[y - 1]
                           IN  IF a[y] >= before THEN 0 ELSE before - a[y]]
    <2>1. \E f : f = [y \in Years |-> LET before == IF y = FirstYear THEN need ELSE f[y - 1]
                                      IN  IF a[y] >= before THEN 0 ELSE before - a[y]]
        BY <1>4
    <2> QED
        BY <2>1, Zenon
<1>6. Take(a, need) =
          [taken |-> [y \in Years |->
                         LET before == IF y = FirstYear THEN need ELSE L[y - 1]
                         IN  Lesser(a[y], before)],
           left |-> L[LastYear]]
    BY Zenon DEF Take
<1> HIDE DEF L
<1>7. \A y \in Years : L[y] = IF a[y] >= Before(L, need, y) THEN 0 ELSE Before(L, need, y) - a[y]
    BY <1>5 DEF Before
<1>8. \A y \in Years : a[y] \in Int
    BY DEF Amounts
<1>9. \A y \in Years : L[y] \in Nat
    <2> DEFINE S == {y \in Years : L[y] \in Nat}
    <2>1. FirstYear \in S
        BY <1>7, <1>8, YearsFacts DEF Before
    <2>2. ASSUME NEW y \in Years, y \in S, y + 1 \in Years PROVE y + 1 \in S
        <3>1. y + 1 # FirstYear /\ (y + 1) - 1 = y
            BY <2>2, YearsFacts
        <3>2. Before(L, need, y + 1) = L[y]
            BY <3>1 DEF Before
        <3> QED
            BY <1>7, <1>8, <2>2, <3>2
    <2>3. Years \subseteq S
        <3> HIDE DEF S
        <3> QED
            BY <2>1, <2>2, YearInduction
    <2> QED
        BY <2>3
<1>10. \A y \in Years : Before(L, need, y) \in Nat
    BY <1>9, YearsFacts DEF Before
<1>11. \A y \in Years : Take(a, need).taken[y] = Lesser(a[y], Before(L, need, y))
    BY <1>6 DEF Before
<1>12. Take(a, need).taken \in Amounts
    <2>1. \A y \in Years : Lesser(a[y], Before(L, need, y)) \in Int
        BY <1>8, <1>10 DEF Lesser
    <2>2. Take(a, need).taken = [y \in Years |-> Lesser(a[y], Before(L, need, y))]
        BY <1>6 DEF Before
    <2> QED
        BY <2>1, <2>2 DEF Amounts
<1>13. L \in [Years -> Nat]
    BY <1>5, <1>9
<1>14. TakeSteps(a, need, L, Take(a, need).taken)
    BY <1>7, <1>10, <1>11, <1>12, <1>13 DEF TakeSteps
<1>15. Take(a, need).left = L[LastYear]
    BY <1>6
<1> QED
    BY <1>14, <1>15

\* What is needed is taken or left over.  A year gives what it has when that is
\* negative and never more than it has.  When no amount is negative, years give
\* all they have before a later one gives anything, and before anything is left.
LEMMA TakeIs ==
    ASSUME NEW a \in Amounts, NEW need \in Nat
    PROVE  LET t == Take(a, need)
           IN  /\ t.taken \in Amounts /\ t.left \in Nat
               /\ Total(t.taken) + t.left = need
               /\ \A y \in Years : IF a[y] <= 0 THEN t.taken[y] = a[y]
                                   ELSE 0 <= t.taken[y] /\ t.taken[y] <= a[y]
               /\ (\A y \in Years : a[y] >= 0) =>
                      /\ t.left <= need
                      /\ t.left > 0 => \A y \in Years : t.taken[y] = a[y]
                      /\ \A y, z \in Years : y < z /\ t.taken[z] > 0 => t.taken[y] = a[y]
<1> DEFINE t == Take(a, need)
           taken == t.taken
<1>1. PICK left : TakeSteps(a, need, left, taken) /\ t.left = left[LastYear]
    BY TakeRecursion
<1> HIDE DEF t, taken
<1>2. \A y \in Years : /\ a[y] \in Int /\ left[y] \in Nat /\ taken[y] \in Int
                       /\ Before(left, need, y) \in Nat
    BY <1>1 DEF TakeSteps, Amounts
<1>3. \A y \in Years : /\ left[y] = Before(left, need, y) - taken[y]
                       /\ left[y] > 0 => taken[y] = a[y]
                       /\ taken[y] > 0 => Before(left, need, y) > 0
                       /\ IF a[y] <= 0 THEN taken[y] = a[y]
                          ELSE 0 <= taken[y] /\ taken[y] <= a[y]
    BY <1>1, <1>2 DEF TakeSteps, Lesser
<1>4. \A y \in Years : y + 1 \in Years => Before(left, need, y + 1) = left[y]
    BY YearsFacts DEF Before
<1>5. Before(left, need, FirstYear) = need
    BY DEF Before
<1>6. taken \in Amounts
    BY <1>1 DEF TakeSteps
<1>7. Total(taken) + t.left = need
    <2> DEFINE given == Running(taken)
               S == {y \in Years : given[y] + left[y] = need}
    <2>1. /\ given[FirstYear] = taken[FirstYear]
          /\ \A y \in Years : given[y] \in Int
          /\ \A y \in Years : y + 1 \in Years => given[y + 1] = taken[y + 1] + given[y]
        BY <1>6, RunningIs, RunningSteps DEF Amounts
    <2> HIDE DEF given
    <2>2. FirstYear \in S
        BY <1>2, <1>3, <1>5, <2>1, YearsFacts
    <2>3. ASSUME NEW y \in Years, y \in S, y + 1 \in Years PROVE y + 1 \in S
        BY <1>2, <1>3, <1>4, <2>1, <2>3
    <2>4. Years \subseteq S
        <3> HIDE DEF S
        <3> QED
            BY <2>2, <2>3, YearInduction
    <2>5. given[LastYear] + left[LastYear] = need
        BY <2>4, YearsFacts
    <2> QED
        BY <1>1, <2>5 DEF Total, given
<1>8. ASSUME \A y \in Years : a[y] >= 0, NEW y \in Years, NEW z \in Years, y <= z
      PROVE  left[z] <= left[y]
    <2> DEFINE S == {n \in Years : y <= n => left[n] <= left[y]}
    <2>1. FirstYear \in S
        BY <1>2, <1>8, YearsFacts
    <2>2. ASSUME NEW n \in Years, n \in S, n + 1 \in Years PROVE n + 1 \in S
        <3>1. left[n + 1] = left[n] - taken[n + 1] /\ taken[n + 1] >= 0
            BY <1>2, <1>3, <1>4, <1>8, <2>2
        <3>2. left[n + 1] <= left[n]
            BY <1>2, <2>2, <3>1
        <3> QED
            BY <1>2, <1>8, <2>2, <3>2, YearsFacts
    <2>3. Years \subseteq S
        <3> HIDE DEF S
        <3> QED
            BY <2>1, <2>2, YearInduction
    <2> QED
        BY <1>8, <2>3
<1>9. ASSUME \A y \in Years : a[y] >= 0
      PROVE  /\ t.left <= need
             /\ t.left > 0 => \A y \in Years : taken[y] = a[y]
             /\ \A y, z \in Years : y < z /\ taken[z] > 0 => taken[y] = a[y]
    <2>1. ASSUME NEW y \in Years, t.left > 0 PROVE taken[y] = a[y]
        <3>1. left[LastYear] <= left[y] /\ LastYear \in Years
            BY <1>8, <1>9, YearsFacts
        <3> QED
            BY <1>1, <1>2, <1>3, <2>1, <3>1
    <2>2. ASSUME NEW y \in Years, NEW z \in Years, y < z, taken[z] > 0 PROVE taken[y] = a[y]
        <3>1. z # FirstYear /\ z - 1 \in Years /\ y <= z - 1
            BY <2>2, YearsFacts
        <3>2. Before(left, need, z) = left[z - 1]
            BY <3>1 DEF Before
        <3>3. left[z - 1] > 0 /\ left[z - 1] <= left[y]
            BY <1>3, <1>8, <1>9, <2>2, <3>1, <3>2
        <3> QED
            BY <1>2, <1>3, <2>2, <3>1, <3>3
    <2>3. t.left <= need
        <3>1. \A y \in Years : taken[y] >= 0
            BY <1>2, <1>3, <1>9
        <3>2. Total(taken) >= 0 /\ Total(taken) \in Int
            BY <1>6, <3>1, TotalBounds, TotalType
        <3>3. t.left \in Int
            BY <1>1, <1>2, YearsFacts
        <3> QED
            BY <1>7, <3>2, <3>3
    <2> QED
        BY <2>1, <2>2, <2>3
<1>10. t.left \in Nat
    BY <1>1, <1>2, YearsFacts
<1> QED
    BY <1>3, <1>6, <1>7, <1>9, <1>10 DEF t, taken

\* What a reduction r of a balance without negative amounts looks like.
CleanReduction(balance, classA, unspecified, r) ==
    /\ \A y \in Years, c \in Classes :
          /\ 0 <= r.ending[y][c] /\ 0 <= r.unspecified[y][c]
          /\ r.ending[y][c] = balance[y][c] - (IF c = "A" THEN r.classA[y] ELSE 0) - r.unspecified[y][c]
    /\ r.deficit["A"] <= classA /\ r.deficit["B"] <= unspecified
    /\ r.deficit["A"] > 0 => \A y \in Years : r.ending[y]["A"] = 0
    /\ r.deficit["B"] > 0 => \A y \in Years, c \in Classes : r.ending[y][c] = 0
    /\ \A y, z \in Years : y < z =>
          /\ r.classA[z] > 0 => r.ending[y]["A"] = 0
          /\ \A c \in Classes : r.unspecified[z][c] > 0 => r.ending[y][c] = 0

ReductionTypes(r) ==
    /\ r.classA \in [Years -> Nat] /\ r.unspecified \in Balances /\ r.ending \in Balances
    /\ r.deficit \in [Classes -> Nat]

\* What was needed is taken or is a deficit; without negative amounts the oldest
\* credits go first, and there is no deficit beside credits it could be taken from.
LEMMA CalculateCreditReductionIs ==
    ASSUME NEW balance \in Balances, NEW classA \in Nat, NEW unspecified \in Nat,
           NEW selection \in Selections
    PROVE  LET r == CalculateCreditReduction(balance, classA, unspecified, selection)
           IN  /\ ReductionTypes(r)
               /\ selection # "none" =>
                      Worth(balance) - classA - unspecified
                      = Worth(r.ending) - r.deficit["A"] - r.deficit["B"]
               /\ (\A y \in Years, c \in Classes : balance[y][c] >= 0) =>
                      CleanReduction(balance, classA, unspecified, r)
<1> DEFINE r == CalculateCreditReduction(balance, classA, unspecified, selection)
           colA == Column(balance, "A")
           a == Take(colA, classA)
           afterA == WithColumn(balance, "A", [y \in Years |-> balance[y]["A"] - a.taken[y]])
           clean == \A y \in Years, c \in Classes : balance[y][c] >= 0
<1>1. Classes = {"A", "B"} /\ selection \in {"A", "B", "none"}
    BY DEF Classes, Selections
<1>2. colA \in Amounts /\ \A y \in Years : colA[y] = balance[y]["A"]
    BY <1>1, ColumnType
<1>3. /\ a.taken \in Amounts /\ a.left \in Nat /\ Total(a.taken) + a.left = classA
      /\ \A y \in Years : IF colA[y] <= 0 THEN a.taken[y] = colA[y]
                          ELSE 0 <= a.taken[y] /\ a.taken[y] <= colA[y]
      /\ (\A y \in Years : colA[y] >= 0) =>
             /\ a.left <= classA
             /\ a.left > 0 => \A y \in Years : a.taken[y] = colA[y]
             /\ \A y, z \in Years : y < z /\ a.taken[z] > 0 => a.taken[y] = colA[y]
    <2> HIDE DEF colA
    <2> QED
        BY <1>2, TakeIs
<1> HIDE DEF a, colA
<1>4. \A y \in Years : a.taken[y] \in Int /\ balance[y]["A"] \in Int /\ balance[y]["B"] \in Int
    BY <1>1, <1>3 DEF Amounts, Balances
<1>5. /\ afterA \in Balances
      /\ \A y \in Years : afterA[y]["A"] = balance[y]["A"] - a.taken[y] /\ afterA[y]["B"] = balance[y]["B"]
      /\ \A y \in Years : afterA[y]["A"] >= 0
      /\ Column(afterA, "B") = Column(balance, "B")
    <2> DEFINE left == [y \in Years |-> balance[y]["A"] - a.taken[y]]
    <2>1. left \in Amounts
        BY <1>4 DEF Amounts
    <2>2. /\ WithColumn(balance, "A", left) \in Balances
          /\ \A y \in Years, k \in Classes :
                 WithColumn(balance, "A", left)[y][k] = IF k = "A" THEN left[y] ELSE balance[y][k]
          /\ Column(WithColumn(balance, "A", left), "B") = Column(balance, "B")
        <3> HIDE DEF left
        <3> QED
            BY <1>1, <2>1, WithColumnIs
    <2> QED
        BY <1>1, <1>2, <1>3, <1>4, <2>2
<1>6. Positive(a.taken) \in [Years -> Nat] /\ (clean => Positive(a.taken) = a.taken)
    <2>1. ASSUME clean PROVE \A y \in Years : a.taken[y] >= 0
        BY <1>1, <1>2, <1>3, <1>4, <2>1
    <2> QED
        BY <1>3, <1>4, <2>1 DEF Positive, Amounts
<1>7. Worth(balance) - classA = Worth(afterA) - a.left
    <2>1. colA \in Amounts /\ Column(afterA, "A") \in Amounts /\ Column(balance, "B") \in Amounts
        BY <1>1, <1>2, <1>5, ColumnType
    <2>2. \A y \in Years : colA[y] = Column(afterA, "A")[y] + a.taken[y]
        BY <1>1, <1>2, <1>4, <1>5, ColumnType
    <2>3. Total(colA) = Total(Column(afterA, "A")) + Total(a.taken)
        BY <1>3, <2>1, <2>2, TotalPlus
    <2>4. /\ Total(Column(afterA, "A")) \in Int /\ Total(Column(balance, "B")) \in Int
          /\ Total(a.taken) \in Int
        BY <1>3, <2>1, TotalType
    <2> QED
        BY <1>3, <1>5, <2>3, <2>4 DEF Worth, colA
<1> HIDE DEF afterA
<1>8. ASSUME clean
      PROVE  /\ \A y \in Years, c \in Classes : afterA[y][c] >= 0 /\ afterA[y][c] <= balance[y][c]
             /\ a.left <= classA
             /\ a.left > 0 => \A y \in Years : afterA[y]["A"] = 0
             /\ \A y, z \in Years : y < z /\ a.taken[z] > 0 => afterA[y]["A"] = 0
    <2>1. \A y \in Years : colA[y] >= 0
        BY <1>1, <1>2, <1>8
    <2> QED
        BY <1>1, <1>2, <1>3, <1>4, <1>5, <1>8, <2>1
<1>9. CASE selection = "none"
    <2>1. r = [classA |-> Positive(a.taken), unspecified |-> NoBalance, ending |-> afterA,
               deficit |-> [c \in Classes |-> IF c = "A" THEN a.left ELSE 0]]
        BY <1>9 DEF CalculateCreditReduction, a, afterA, colA
    <2> HIDE DEF r
    <2>2. ReductionTypes(r)
        BY <1>3, <1>5, <1>6, <2>1 DEF ReductionTypes, NoBalance, Balances
    <2>3. ASSUME clean PROVE CleanReduction(balance, classA, unspecified, r)
        <3>1. /\ r.ending = afterA /\ r.deficit["A"] = a.left /\ r.deficit["B"] = 0
              /\ r.classA = a.taken
              /\ \A y \in Years, c \in Classes : r.unspecified[y][c] = 0
            BY <1>1, <1>6, <2>1, <2>3 DEF NoBalance
        <3>2. \A y \in Years, c \in Classes : afterA[y][c] = balance[y][c] - IF c = "A" THEN a.taken[y] ELSE 0
            BY <1>1, <1>4, <1>5
        <3>3. \A y \in Years, c \in Classes : balance[y][c] - (IF c = "A" THEN a.taken[y] ELSE 0) \in Int
            BY <1>1, <1>4
        <3> HIDE DEF clean
        <3> QED
            BY <1>8, <2>3, <3>1, <3>2, <3>3 DEF CleanReduction
    <2> QED
        BY <1>9, <2>2, <2>3 DEF r
<1>10. CASE selection # "none"
    <2> DEFINE other == IF selection = "A" THEN "B" ELSE "A"
               first == Take(Column(afterA, selection), unspecified)
               second == Take(Column(afterA, other), first.left)
               next == [y \in Years |-> [c \in Classes |->
                            IF c = selection THEN first.taken[y] ELSE second.taken[y]]]
    <2>1. r = [classA |-> Positive(a.taken), unspecified |-> next, ending |-> Minus(afterA, next),
               deficit |-> [c \in Classes |-> IF c = "A" THEN a.left ELSE second.left]]
        BY <1>10 DEF CalculateCreditReduction, a, afterA, colA
    <2> HIDE DEF r
    <2>2. /\ Classes = {selection, other}
          /\ (selection = "A" /\ other = "B") \/ (selection = "B" /\ other = "A")
        BY <1>1, <1>10
    <2>3. /\ Column(afterA, selection) \in Amounts /\ Column(afterA, other) \in Amounts
          /\ \A y \in Years : /\ Column(afterA, selection)[y] = afterA[y][selection]
                              /\ Column(afterA, other)[y] = afterA[y][other]
        BY <1>5, <2>2, ColumnType
    <2> HIDE DEF other
    <2>4. /\ first.taken \in Amounts /\ first.left \in Nat
          /\ Total(first.taken) + first.left = unspecified
          /\ (\A y \in Years : Column(afterA, selection)[y] >= 0) =>
                 /\ \A y \in Years : 0 <= first.taken[y] /\ first.taken[y] <= afterA[y][selection]
                 /\ first.left <= unspecified
                 /\ first.left > 0 => \A y \in Years : first.taken[y] = afterA[y][selection]
                 /\ \A y, z \in Years : y < z /\ first.taken[z] > 0 => first.taken[y] = afterA[y][selection]
        <3> DEFINE col == Column(afterA, selection)
        <3>1. col \in Amounts /\ \A y \in Years : col[y] = afterA[y][selection] /\ col[y] \in Int
            BY <2>3 DEF Amounts
        <3> HIDE DEF col
        <3>2. first = Take(col, unspecified)
            BY DEF col
        <3> HIDE DEF first
        <3> QED
            BY <3>1, <3>2, TakeIs DEF col
    <2> HIDE DEF first
    <2>5. /\ second.taken \in Amounts /\ second.left \in Nat
          /\ Total(second.taken) + second.left = first.left
          /\ (\A y \in Years : Column(afterA, other)[y] >= 0) =>
                 /\ \A y \in Years : 0 <= second.taken[y] /\ second.taken[y] <= afterA[y][other]
                 /\ second.left <= first.left
                 /\ second.left > 0 => \A y \in Years : second.taken[y] = afterA[y][other]
                 /\ \A y, z \in Years : y < z /\ second.taken[z] > 0 => second.taken[y] = afterA[y][other]
        <3> DEFINE col == Column(afterA, other)
                   need == first.left
        <3>1. /\ col \in Amounts /\ need \in Nat
              /\ \A y \in Years : col[y] = afterA[y][other] /\ col[y] \in Int
            BY <2>3, <2>4 DEF Amounts
        <3> HIDE DEF col, need
        <3>2. second = Take(col, need)
            BY DEF col, need
        <3> HIDE DEF second
        <3> QED
            BY <3>1, <3>2, TakeIs DEF col, need
    <2> HIDE DEF second
    <2>6. /\ next \in Balances
          /\ \A y \in Years : next[y][selection] = first.taken[y] /\ next[y][other] = second.taken[y]
          /\ \A y \in Years : first.taken[y] \in Int /\ second.taken[y] \in Int
        BY <2>2, <2>4, <2>5 DEF Amounts, Balances
    <2> HIDE DEF next
    <2>7. /\ Minus(afterA, next) \in Balances
          /\ \A y \in Years, c \in Classes : Minus(afterA, next)[y][c] = afterA[y][c] - next[y][c]
          /\ \A y \in Years, c \in Classes : afterA[y][c] \in Int /\ next[y][c] \in Int
        BY <1>5, <2>6 DEF Minus, Balances
    <2>8. /\ r.ending = Minus(afterA, next) /\ r.unspecified = next /\ r.classA = Positive(a.taken)
          /\ r.deficit["A"] = a.left /\ r.deficit["B"] = second.left
          /\ r.deficit \in [Classes -> Nat]
        BY <1>1, <1>3, <2>1, <2>5
    <2>9. ReductionTypes(r)
        BY <1>6, <2>6, <2>7, <2>8 DEF ReductionTypes
    <2>10. Worth(afterA) - unspecified = Worth(r.ending) - second.left
        <3> DEFINE E(c) == Column(Minus(afterA, next), c)
        <3>1. \A c \in Classes : E(c) \in Amounts /\ \A y \in Years : E(c)[y] = afterA[y][c] - next[y][c]
            BY <2>7, ColumnType
        <3> HIDE DEF E
        <3>2. \A y \in Years : /\ afterA[y][selection] \in Int /\ afterA[y][other] \in Int
                               /\ next[y][selection] \in Int /\ next[y][other] \in Int
            BY <2>2, <2>7
        <3>3. \A y \in Years : Column(afterA, selection)[y] = E(selection)[y] + first.taken[y]
            BY <2>2, <2>3, <2>6, <3>1, <3>2
        <3>4. \A y \in Years : Column(afterA, other)[y] = E(other)[y] + second.taken[y]
            BY <2>2, <2>3, <2>6, <3>1, <3>2
        <3>5. E(selection) \in Amounts /\ E(other) \in Amounts
            BY <2>2, <3>1
        <3>6. Total(Column(afterA, selection)) = Total(E(selection)) + Total(first.taken)
            BY <2>3, <2>4, <3>3, <3>5, TotalPlus
        <3>7. Total(Column(afterA, other)) = Total(E(other)) + Total(second.taken)
            BY <2>3, <2>5, <3>4, <3>5, TotalPlus
        <3>8. /\ Total(E(selection)) \in Int /\ Total(E(other)) \in Int
              /\ Total(first.taken) \in Int /\ Total(second.taken) \in Int
            BY <2>4, <2>5, <3>5, TotalType
        <3>9. /\ Worth(afterA) = Total(Column(afterA, selection)) + Total(Column(afterA, other))
              /\ Worth(r.ending) = Total(E(selection)) + Total(E(other))
            <4>1. /\ Total(Column(afterA, selection)) \in Int /\ Total(Column(afterA, other)) \in Int
                BY <2>3, TotalType
            <4>2. Worth(r.ending) = Total(E("A")) + Total(E("B"))
                BY <2>8 DEF Worth, E
            <4> QED
                BY <2>2, <3>8, <4>1, <4>2 DEF Worth
        <3> QED
            BY <2>4, <2>5, <3>6, <3>7, <3>8, <3>9
    <2>11. Worth(balance) - classA - unspecified = Worth(r.ending) - a.left - second.left
        <3>1. Worth(balance) \in Int /\ Worth(afterA) \in Int /\ Worth(r.ending) \in Int
            <4>1. \A b \in Balances : Worth(b) \in Int
                BY <1>1, ColumnType, TotalType DEF Worth
            <4> QED
                BY <1>5, <2>7, <2>8, <4>1
        <3> QED
            BY <1>3, <1>7, <2>5, <2>10, <3>1
    <2>12. ASSUME clean PROVE CleanReduction(balance, classA, unspecified, r)
        <3>1. /\ \A y \in Years : Column(afterA, selection)[y] >= 0 /\ Column(afterA, other)[y] >= 0
              /\ Positive(a.taken) = a.taken
            BY <1>6, <1>8, <2>2, <2>3, <2>12
        <3>2. \A y \in Years, c \in Classes : 0 <= next[y][c] /\ next[y][c] <= afterA[y][c]
            BY <2>2, <2>4, <2>5, <2>6, <3>1
        <3>3. \A y, z \in Years, c \in Classes : y < z /\ next[z][c] > 0 => next[y][c] = afterA[y][c]
            BY <2>2, <2>4, <2>5, <2>6, <3>1
        <3>4. second.left > 0 => \A y \in Years, c \in Classes : next[y][c] = afterA[y][c]
            <4>1. second.left > 0 => first.left > 0
                BY <2>4, <2>5, <3>1
            <4> QED
                BY <2>2, <2>4, <2>5, <2>6, <3>1, <4>1
        <3>5. \A y \in Years, c \in Classes :
                  /\ r.ending[y][c] = afterA[y][c] - next[y][c]
                  /\ afterA[y][c] = balance[y][c] - IF c = "A" THEN a.taken[y] ELSE 0
                  /\ balance[y][c] \in Int
            BY <1>1, <1>4, <1>5, <2>7, <2>8
        <3>6. \A y \in Years, c \in Classes :
                  /\ 0 <= r.ending[y][c]
                  /\ r.ending[y][c] = balance[y][c] - (IF c = "A" THEN a.taken[y] ELSE 0) - next[y][c]
                  /\ afterA[y][c] = 0 => r.ending[y][c] = 0
                  /\ next[y][c] = afterA[y][c] => r.ending[y][c] = 0
            <4> SUFFICES ASSUME NEW y \in Years, NEW c \in Classes
                         PROVE  /\ 0 <= r.ending[y][c]
                                /\ r.ending[y][c] = balance[y][c] - (IF c = "A" THEN a.taken[y] ELSE 0) - next[y][c]
                                /\ afterA[y][c] = 0 => r.ending[y][c] = 0
                                /\ next[y][c] = afterA[y][c] => r.ending[y][c] = 0
                OBVIOUS
            <4>1. a.taken[y] \in Int /\ next[y][c] \in Int /\ afterA[y][c] \in Int
                BY <1>4, <2>7
            <4> QED
                BY <3>2, <3>5, <4>1
        <3>7. r.deficit["A"] <= classA /\ r.deficit["B"] <= unspecified
            BY <1>8, <2>4, <2>5, <2>8, <2>12, <3>1
        <3>8. r.deficit["A"] > 0 => \A y \in Years : r.ending[y]["A"] = 0
            BY <1>1, <1>8, <2>8, <2>12, <3>6
        <3>9. r.deficit["B"] > 0 => \A y \in Years, c \in Classes : r.ending[y][c] = 0
            BY <2>8, <3>4, <3>6
        <3>10. \A y, z \in Years : y < z =>
                   /\ r.classA[z] > 0 => r.ending[y]["A"] = 0
                   /\ \A c \in Classes : r.unspecified[z][c] > 0 => r.ending[y][c] = 0
            BY <1>1, <1>8, <2>8, <2>12, <3>1, <3>3, <3>6
        <3>11. \A y \in Years, c \in Classes :
                  /\ 0 <= r.ending[y][c] /\ 0 <= r.unspecified[y][c]
                  /\ r.ending[y][c] = balance[y][c] - (IF c = "A" THEN r.classA[y] ELSE 0) - r.unspecified[y][c]
            BY <2>8, <3>1, <3>2, <3>6
        <3> QED
            BY <3>7, <3>8, <3>9, <3>10, <3>11 DEF CleanReduction
    <2> QED
        BY <2>8, <2>9, <2>11, <2>12 DEF r
<1> QED
    BY <1>9, <1>10

-----------------------------------------------------------------------------
\* The whole calculation of a page

LEMMA BalanceSums ==
    ASSUME NEW b1 \in Balances, NEW b2 \in Balances
    PROVE  /\ Plus(b1, b2) \in Balances /\ Minus(b1, b2) \in Balances
           /\ PositivePart(b1) \in Debts /\ PositivePart(b1) \in Balances
           /\ \A y \in Years, c \in Classes :
                 /\ b1[y][c] \in Int /\ b2[y][c] \in Int
                 /\ Plus(b1, b2)[y][c] = b1[y][c] + b2[y][c]
                 /\ Minus(b1, b2)[y][c] = b1[y][c] - b2[y][c]
                 /\ PositivePart(b1)[y][c] = IF b1[y][c] > 0 THEN b1[y][c] ELSE 0
BY DEF Plus, Minus, PositivePart, Balances, Debts

LEMMA WorthIs ==
    ASSUME NEW b1 \in Balances, NEW b2 \in Balances
    PROVE  /\ Worth(b1) \in Int
           /\ Worth(Plus(b1, b2)) = Worth(b1) + Worth(b2)
<1>1. \A b \in Balances, c \in Classes : Column(b, c) \in Amounts /\ Total(Column(b, c)) \in Int
    BY ColumnType, TotalType
<1>2. ASSUME NEW c \in Classes
      PROVE  Total(Column(Plus(b1, b2), c)) = Total(Column(b1, c)) + Total(Column(b2, c))
    <2> DEFINE sum == Plus(b1, b2)
    <2>1. sum \in Balances /\ \A y \in Years : sum[y][c] = b1[y][c] + b2[y][c]
        BY BalanceSums
    <2> HIDE DEF sum
    <2>2. /\ Column(sum, c) \in Amounts /\ \A y \in Years : Column(sum, c)[y] = sum[y][c]
          /\ Column(b1, c) \in Amounts /\ \A y \in Years : Column(b1, c)[y] = b1[y][c]
          /\ Column(b2, c) \in Amounts /\ \A y \in Years : Column(b2, c)[y] = b2[y][c]
        BY <2>1, ColumnType
    <2>3. \A y \in Years : Column(sum, c)[y] = Column(b1, c)[y] + Column(b2, c)[y]
        BY <2>1, <2>2
    <2>4. Total(Column(sum, c)) = Total(Column(b1, c)) + Total(Column(b2, c))
        BY <2>2, <2>3, TotalPlus
    <2> QED
        BY <2>4 DEF sum
<1>3. "A" \in Classes /\ "B" \in Classes
    BY DEF Classes
<1>4. /\ Total(Column(b1, "A")) \in Int /\ Total(Column(b1, "B")) \in Int
      /\ Total(Column(b2, "A")) \in Int /\ Total(Column(b2, "B")) \in Int
    BY <1>1, <1>3
<1>5. /\ Total(Column(Plus(b1, b2), "A")) = Total(Column(b1, "A")) + Total(Column(b2, "A"))
      /\ Total(Column(Plus(b1, b2), "B")) = Total(Column(b1, "B")) + Total(Column(b2, "B"))
    BY <1>2, <1>3
<1> QED
    BY <1>4, <1>5 DEF Worth

\* What the page has to reduce from.
AvailableFor(start, activity, waiting) == Plus(Plus(PositivePart(start), activity), waiting)

\* The result r of a page that starts with what is available and the deficits owed.
Reduced(available, owed, classA, unspecified, selection, r) ==
    /\ ReductionTypes(r) /\ r.offset \in Balances /\ r.carried \in Debts
    /\ \A y \in Years, c \in Classes : r.carried[y][c] <= owed[y][c]
    /\ selection # "none" =>
           Worth(available) - Worth(owed) - classA - unspecified
           = Worth(r.ending) - Worth(r.carried) - r.deficit["A"] - r.deficit["B"]
    /\ NotNegative(available) =>
           /\ \A y \in Years, c \in Classes :
                 /\ 0 <= r.ending[y][c] /\ 0 <= r.unspecified[y][c] /\ 0 <= r.offset[y][c]
                 /\ r.ending[y][c] = available[y][c] - r.offset[y][c]
                                     - (IF c = "A" THEN r.classA[y] ELSE 0) - r.unspecified[y][c]
           /\ r.deficit["A"] <= classA /\ r.deficit["B"] <= unspecified
           /\ \A y \in Years : r.carried[y]["A"] > 0 \/ r.deficit["A"] > 0 =>
                 \A z \in Years : r.ending[z]["A"] = 0
           /\ \A y \in Years : r.carried[y]["B"] > 0 \/ r.deficit["B"] > 0 =>
                 \A z \in Years, c \in Classes : r.ending[z][c] = 0
           /\ \A y, z \in Years : y < z =>
                 /\ r.classA[z] > 0 => r.ending[y]["A"] = 0
                 /\ \A c \in Classes : r.unspecified[z][c] > 0 => r.ending[y][c] = 0

LEMMA ReduceIs ==
    ASSUME NEW start \in Balances, NEW owed \in Debts, NEW activity \in Balances,
           NEW waiting \in Balances, NEW selection \in Selections,
           NEW classA \in Nat, NEW unspecified \in Nat,
           SupplierClass = "S" => classA = 0 /\ unspecified = 0
    PROVE  Reduced(AvailableFor(start, activity, waiting), owed, classA, unspecified, selection,
                   Reduce(start, owed, activity, waiting, selection, classA, unspecified))
<1> DEFINE available == AvailableFor(start, activity, waiting)
           p == NewProvisionalBalance(available, owed, selection)
           q == CalculateCreditReduction(p.balance, classA, unspecified, selection)
           r == Reduce(start, owed, activity, waiting, selection, classA, unspecified)
<1>1. Classes = {"A", "B"}
    BY DEF Classes
<1>2. available \in Balances
    <2>1. PositivePart(start) \in Balances
        BY BalanceSums
    <2>2. Plus(PositivePart(start), activity) \in Balances
        BY <2>1, BalanceSums
    <2> QED
        BY <2>2, BalanceSums DEF AvailableFor
<1>3. r = IF SupplierClass = "S"
          THEN [offset |-> p.offset, carried |-> p.carried, classA |-> [y \in Years |-> 0],
                unspecified |-> NoBalance, ending |-> p.balance, deficit |-> [c \in Classes |-> 0]]
          ELSE [offset |-> p.offset, carried |-> p.carried, classA |-> q.classA,
                unspecified |-> q.unspecified, ending |-> q.ending, deficit |-> q.deficit]
    BY DEF Reduce, ObligationDetails, AvailableFor
<1> HIDE DEF available
<1>4. /\ p.balance \in Balances /\ p.carried \in Debts /\ p.offset \in Balances
      /\ UsedFrom(available, p.balance)
      /\ \A y \in Years, c \in Classes : p.offset[y][c] = available[y][c] - p.balance[y][c]
      /\ Worth(available) - Worth(p.balance) = Worth(owed) - Worth(p.carried)
      /\ \A y \in Years, c \in Classes : p.carried[y][c] <= owed[y][c]
      /\ (\E y \in Years : p.carried[y]["A"] > 0) => \A y \in Years : p.balance[y]["A"] <= 0
      /\ (\E y \in Years : p.carried[y]["B"] > 0) =>
             \A y \in Years, c \in Classes : p.balance[y][c] <= 0
    BY <1>2, NewProvisionalBalanceIs
<1> HIDE DEF p
<1>5. /\ ReductionTypes(q)
      /\ selection # "none" =>
             Worth(p.balance) - classA - unspecified = Worth(q.ending) - q.deficit["A"] - q.deficit["B"]
      /\ NotNegative(p.balance) => CleanReduction(p.balance, classA, unspecified, q)
    <2> DEFINE b == p.balance
    <2>1. b \in Balances
        BY <1>4
    <2> HIDE DEF b
    <2>2. q = CalculateCreditReduction(b, classA, unspecified, selection)
        BY DEF b
    <2> HIDE DEF q
    <2>3. /\ ReductionTypes(q)
          /\ selection # "none" =>
                 Worth(b) - classA - unspecified = Worth(q.ending) - q.deficit["A"] - q.deficit["B"]
          /\ NotNegative(b) => CleanReduction(b, classA, unspecified, q)
        BY <2>1, <2>2, CalculateCreditReductionIs DEF NotNegative
    <2> QED
        BY <2>3 DEF b
<1> HIDE DEF q, r
<1>6. \A y \in Years, c \in Classes :
          available[y][c] \in Int /\ p.balance[y][c] \in Int /\ p.offset[y][c] \in Int
    BY <1>2, <1>4 DEF Balances
<1>7. ASSUME NotNegative(available)
      PROVE  \A y \in Years, c \in Classes : 0 <= p.balance[y][c] /\ p.balance[y][c] <= available[y][c]
    BY <1>4, <1>6, <1>7 DEF NotNegative, UsedFrom
<1>8. /\ Worth(available) \in Int /\ Worth(p.balance) \in Int /\ Worth(owed) \in Int
      /\ Worth(p.carried) \in Int
    BY <1>2, <1>4, WorthIs DEF Debts
<1>9. CASE SupplierClass = "S"
    <2>1. r = [offset |-> p.offset, carried |-> p.carried, classA |-> [y \in Years |-> 0],
               unspecified |-> NoBalance, ending |-> p.balance, deficit |-> [c \in Classes |-> 0]]
        BY <1>3, <1>9
    <2>2. /\ r.offset = p.offset /\ r.carried = p.carried /\ r.ending = p.balance
          /\ r.deficit \in [Classes -> Nat] /\ r.deficit["A"] = 0 /\ r.deficit["B"] = 0
          /\ r.classA \in [Years -> Nat] /\ \A y \in Years : r.classA[y] = 0
          /\ r.unspecified \in Balances /\ \A y \in Years, c \in Classes : r.unspecified[y][c] = 0
        BY <1>1, <2>1 DEF NoBalance, Balances
    <2>3. ReductionTypes(r)
        BY <1>4, <2>2 DEF ReductionTypes
    <2>4. Worth(available) - Worth(owed) - classA - unspecified
          = Worth(r.ending) - Worth(r.carried) - r.deficit["A"] - r.deficit["B"]
        <3>1. /\ Worth(r.ending) = Worth(p.balance) /\ Worth(r.carried) = Worth(p.carried)
              /\ r.deficit["A"] = 0 /\ r.deficit["B"] = 0 /\ classA = 0 /\ unspecified = 0
            BY <1>9, <2>2
        <3>2. Worth(available) - Worth(p.balance) = Worth(owed) - Worth(p.carried)
            BY <1>4
        <3> QED
            BY <1>8, <3>1, <3>2
    <2>5. ASSUME NotNegative(available), NEW y \in Years, NEW c \in Classes
          PROVE  /\ 0 <= r.ending[y][c] /\ 0 <= r.unspecified[y][c] /\ 0 <= r.offset[y][c]
                 /\ r.ending[y][c] = available[y][c] - r.offset[y][c]
                                     - (IF c = "A" THEN r.classA[y] ELSE 0) - r.unspecified[y][c]
        BY <1>4, <1>6, <1>7, <2>2, <2>5
    <2>6. ASSUME NotNegative(available), NEW y \in Years
          PROVE  /\ r.carried[y]["A"] > 0 => \A z \in Years : r.ending[z]["A"] = 0
                 /\ r.carried[y]["B"] > 0 => \A z \in Years, c \in Classes : r.ending[z][c] = 0
        BY <1>1, <1>4, <1>6, <1>7, <2>2, <2>6
    <2> QED
        BY <1>4, <1>9, <2>2, <2>3, <2>4, <2>5, <2>6 DEF Reduced, r, available
<1>10. CASE SupplierClass # "S"
    <2>1. /\ r.offset = p.offset /\ r.carried = p.carried /\ r.classA = q.classA
          /\ r.unspecified = q.unspecified /\ r.ending = q.ending /\ r.deficit = q.deficit
        BY <1>3, <1>10
    <2>2. ReductionTypes(r)
        BY <1>5, <2>1 DEF ReductionTypes
    <2>3. /\ Worth(r.ending) \in Int /\ r.deficit["A"] \in Nat /\ r.deficit["B"] \in Nat
          /\ \A y \in Years, c \in Classes : r.ending[y][c] \in Int /\ r.unspecified[y][c] \in Int
          /\ \A y \in Years : r.classA[y] \in Nat
        BY <1>1, <2>2, WorthIs DEF ReductionTypes, Balances
    <2>4. selection # "none" =>
              Worth(available) - Worth(owed) - classA - unspecified
              = Worth(r.ending) - Worth(r.carried) - r.deficit["A"] - r.deficit["B"]
        BY <1>4, <1>5, <1>8, <2>1, <2>3
    <2>5. ASSUME NotNegative(available)
          PROVE  /\ \A y \in Years, c \in Classes :
                       /\ 0 <= r.ending[y][c] /\ 0 <= r.unspecified[y][c] /\ 0 <= r.offset[y][c]
                       /\ r.ending[y][c] = available[y][c] - r.offset[y][c]
                                           - (IF c = "A" THEN r.classA[y] ELSE 0) - r.unspecified[y][c]
                 /\ r.deficit["A"] <= classA /\ r.deficit["B"] <= unspecified
                 /\ \A y \in Years : r.carried[y]["A"] > 0 \/ r.deficit["A"] > 0 =>
                       \A z \in Years : r.ending[z]["A"] = 0
                 /\ \A y \in Years : r.carried[y]["B"] > 0 \/ r.deficit["B"] > 0 =>
                       \A z \in Years, c \in Classes : r.ending[z][c] = 0
                 /\ \A y, z \in Years : y < z =>
                       /\ r.classA[z] > 0 => r.ending[y]["A"] = 0
                       /\ \A c \in Classes : r.unspecified[z][c] > 0 => r.ending[y][c] = 0
        <3>1. CleanReduction(p.balance, classA, unspecified, r)
            <4>1. CleanReduction(p.balance, classA, unspecified, q)
                BY <1>5, <1>7, <2>5 DEF NotNegative
            <4> QED
                BY <2>1, <4>1 DEF CleanReduction
        <3>2. ASSUME NEW y \in Years, NEW c \in Classes
              PROVE  /\ 0 <= r.ending[y][c] /\ 0 <= r.unspecified[y][c] /\ 0 <= r.offset[y][c]
                     /\ r.ending[y][c] = available[y][c] - r.offset[y][c]
                                         - (IF c = "A" THEN r.classA[y] ELSE 0) - r.unspecified[y][c]
                     /\ r.ending[y][c] <= p.balance[y][c]
            <4>1. /\ 0 <= r.ending[y][c] /\ 0 <= r.unspecified[y][c]
                  /\ r.ending[y][c] = p.balance[y][c] - (IF c = "A" THEN r.classA[y] ELSE 0) - r.unspecified[y][c]
                BY <3>1 DEF CleanReduction
            <4>2. r.offset[y][c] = available[y][c] - p.balance[y][c]
                BY <1>4, <2>1
            <4>3. 0 <= p.balance[y][c] /\ p.balance[y][c] <= available[y][c]
                BY <1>7, <2>5
            <4> QED
                BY <1>6, <2>3, <4>1, <4>2, <4>3
        <3>3. ASSUME NEW y \in Years, r.carried[y]["A"] > 0, NEW z \in Years PROVE r.ending[z]["A"] = 0
            <4>1. p.balance[z]["A"] <= 0 /\ p.balance[z]["A"] \in Int /\ r.ending[z]["A"] \in Int
                BY <1>1, <1>4, <1>6, <2>1, <2>3, <3>3
            <4> QED
                BY <1>1, <3>2, <4>1
        <3>4. ASSUME NEW y \in Years, r.carried[y]["B"] > 0, NEW z \in Years, NEW c \in Classes
              PROVE  r.ending[z][c] = 0
            <4>1. p.balance[z][c] <= 0 /\ p.balance[z][c] \in Int /\ r.ending[z][c] \in Int
                BY <1>4, <1>6, <2>1, <2>3, <3>4
            <4> QED
                BY <3>2, <4>1
        <3> QED
            BY <3>1, <3>2, <3>3, <3>4 DEF CleanReduction
    <2> QED
        BY <1>4, <2>1, <2>2, <2>4, <2>5 DEF Reduced, r, available
<1> QED
    BY <1>9, <1>10

\* The reductions of a page are natural numbers, and a supplier of small volume
\* has none.
LEMMA ReductionsDue ==
    ASSUME NEW sales \in Nat, NEW year \in Years
    PROVE  /\ ClassAReduction(sales, year) \in Nat
           /\ UnspecifiedReduction(sales, year) \in Nat
           /\ UnspecifiedReductionBig(sales, year) \in Nat
           /\ SupplierClass = "S" => /\ ClassAReduction(sales, year) = 0
                                     /\ UnspecifiedReduction(sales, year) = 0
                                     /\ UnspecifiedReductionBig(sales, year) = 0
<1> DEFINE total == ComplianceRatio[year]
           classA == ZevClassA[year]
<1>1. total \in Nat /\ classA \in Nat /\ classA <= total
    BY RatiosAssumption
<1>2. \A m, n \in Nat : m <= n => Rounded(m) \in Nat /\ Rounded(n) \in Nat /\ Rounded(m) <= Rounded(n)
    BY DEF Rounded
<1>3. sales * total \in Nat /\ sales * classA \in Nat /\ sales * classA <= sales * total
      /\ sales * (total - classA) \in Nat
    <2>1. total - classA \in Nat
        BY <1>1
    <2>2. \A m, n \in Nat : m * n \in Nat
        OBVIOUS
    <2>3. sales * (total - classA) = sales * total - sales * classA
        BY <1>1
    <2>4. sales * total \in Nat /\ sales * classA \in Nat /\ sales * (total - classA) \in Nat
        BY <1>1, <2>1, <2>2
    <2> QED
        BY <2>3, <2>4
<1> HIDE DEF total, classA
<1>4. /\ Rounded(sales * total) \in Nat /\ Rounded(sales * classA) \in Nat
      /\ Rounded(sales * classA) <= Rounded(sales * total)
      /\ Rounded(sales * (total - classA)) \in Nat
    BY <1>2, <1>3
<1>5. total - 0 = total
    BY <1>1
<1> QED
    BY <1>4, <1>5, SupplierClassAssumption
       DEF ClassAReduction, UnspecifiedReduction, UnspecifiedReductionBig, TotalReduction, total, classA


LEMMA RoundedGrows ==
    ASSUME NEW m \in Nat, NEW n \in Nat, m <= n
    PROVE  Rounded(m) \in Nat /\ Rounded(n) \in Nat /\ Rounded(m) <= Rounded(n)
BY DEF Rounded

\* More sales never make less of class A due.
LEMMA ClassADueGrows ==
    ASSUME NEW few \in Nat, NEW sales \in Nat, few <= sales, NEW year \in Years
    PROVE  ClassAReduction(few, year) <= ClassAReduction(sales, year)
<1> DEFINE classA == ZevClassA[year]
<1>1. classA \in Nat
    BY RatiosAssumption
<1> HIDE DEF classA
<1>2. few * classA \in Nat /\ sales * classA \in Nat /\ few * classA <= sales * classA
    <2>1. \A m, n \in Nat : m * n \in Nat
        OBVIOUS
    <2>2. sales - few \in Nat /\ sales = few + (sales - few)
        OBVIOUS
    <2>3. (sales - few) * classA \in Nat /\ few * classA \in Nat /\ sales * classA \in Nat
        BY <1>1, <2>1, <2>2
    <2>4. (sales - few) * classA = sales * classA - few * classA
        BY <1>1
    <2> QED
        BY <2>3, <2>4
<1> QED
    BY <1>2, RoundedGrows DEF ClassAReduction, classA

\* When more is needed, no year gives less.
LEMMA TakeGrows ==
    ASSUME NEW a \in Amounts, NEW m \in Nat, NEW n \in Nat, m <= n
    PROVE  \A y \in Years : Take(a, m).taken[y] <= Take(a, n).taken[y]
<1>1. PICK few : TakeSteps(a, m, few, Take(a, m).taken)
    BY TakeRecursion
<1>2. PICK more : TakeSteps(a, n, more, Take(a, n).taken)
    BY TakeRecursion
<1>3. \A y \in Years : a[y] \in Int /\ few[y] \in Nat /\ more[y] \in Nat
    BY <1>1, <1>2 DEF TakeSteps, Amounts
<1> DEFINE S == {y \in Years : few[y] <= more[y]}
<1>4. ASSUME NEW y \in Years, Before(few, m, y) <= Before(more, n, y)
      PROVE  few[y] <= more[y] /\ Take(a, m).taken[y] <= Take(a, n).taken[y]
    <2>1. Before(few, m, y) \in Nat /\ Before(more, n, y) \in Nat
        BY <1>1, <1>2 DEF TakeSteps
    <2>2. /\ few[y] = IF a[y] >= Before(few, m, y) THEN 0 ELSE Before(few, m, y) - a[y]
          /\ more[y] = IF a[y] >= Before(more, n, y) THEN 0 ELSE Before(more, n, y) - a[y]
          /\ Take(a, m).taken[y] = Lesser(a[y], Before(few, m, y))
          /\ Take(a, n).taken[y] = Lesser(a[y], Before(more, n, y))
        BY <1>1, <1>2 DEF TakeSteps
    <2> QED
        BY <1>3, <1>4, <2>1, <2>2 DEF Lesser
<1>5. FirstYear \in S
    <2>1. Before(few, m, FirstYear) = m /\ Before(more, n, FirstYear) = n
        BY DEF Before
    <2> QED
        BY <1>4, <2>1, YearsFacts
<1>6. ASSUME NEW y \in Years, y \in S, y + 1 \in Years PROVE y + 1 \in S
    <2>1. y + 1 # FirstYear /\ (y + 1) - 1 = y
        BY <1>6, YearsFacts
    <2>2. Before(few, m, y + 1) = few[y] /\ Before(more, n, y + 1) = more[y]
        BY <2>1 DEF Before
    <2> QED
        BY <1>4, <1>6, <2>2
<1>7. Years \subseteq S
    <2> HIDE DEF S
    <2> QED
        BY <1>5, <1>6, YearInduction
<1>8. \A y \in Years : Before(few, m, y) <= Before(more, n, y)
    <2> TAKE y \in Years
    <2>1. CASE y = FirstYear
        BY <2>1 DEF Before
    <2>2. CASE y # FirstYear
        <3>1. y - 1 \in Years
            BY <2>2, YearsFacts
        <3> QED
            BY <1>7, <2>2, <3>1 DEF Before
    <2> QED
        BY <2>1, <2>2
<1> QED
    BY <1>4, <1>8

\* When nothing is needed, nothing is taken from credits that are not negative.
LEMMA TakeNothing ==
    ASSUME NEW a \in Amounts, \A y \in Years : a[y] >= 0
    PROVE  Take(a, 0).left = 0 /\ \A y \in Years : Take(a, 0).taken[y] = 0
<1> DEFINE t == Take(a, 0)
<1>1. /\ t.taken \in Amounts /\ t.left \in Nat /\ Total(t.taken) + t.left = 0
      /\ \A y \in Years : IF a[y] <= 0 THEN t.taken[y] = a[y] ELSE 0 <= t.taken[y] /\ t.taken[y] <= a[y]
    BY TakeIs
<1> HIDE DEF t
<1>2. \A y \in Years : t.taken[y] \in Int /\ a[y] \in Int
    BY <1>1 DEF Amounts
<1>3. \A y \in Years : t.taken[y] >= 0
    BY <1>1, <1>2
<1>4. 0 <= Total(t.taken) /\ Total(t.taken) \in Int /\ \A y \in Years : t.taken[y] <= Total(t.taken)
    BY <1>1, <1>3, TotalBounds, TotalType
<1>5. Total(t.taken) = 0 /\ t.left = 0
    BY <1>1, <1>4
<1>6. \A y \in Years : t.taken[y] = 0
    BY <1>2, <1>3, <1>4, <1>5
<1> QED
    BY <1>5, <1>6 DEF t

\* What a reduction takes of class A does not shrink when more of class A is due.
LEMMA ClassATakenGrows ==
    ASSUME NEW balance \in Balances, NEW m \in Nat, NEW n \in Nat, m <= n, NEW u, NEW v, NEW selection
    PROVE  \A y \in Years : CalculateCreditReduction(balance, m, u, selection).classA[y]
                            <= CalculateCreditReduction(balance, n, v, selection).classA[y]
<1> DEFINE a == Column(balance, "A")
<1>1. a \in Amounts
    BY ColumnType DEF Classes
<1>2. /\ CalculateCreditReduction(balance, m, u, selection).classA = Positive(Take(a, m).taken)
      /\ CalculateCreditReduction(balance, n, v, selection).classA = Positive(Take(a, n).taken)
    BY DEF CalculateCreditReduction
<1> HIDE DEF a
<1>3. Take(a, m).taken \in Amounts /\ Take(a, n).taken \in Amounts
    BY <1>1, TakeIs
<1>4. \A y \in Years : /\ Take(a, m).taken[y] <= Take(a, n).taken[y]
                       /\ Take(a, m).taken[y] \in Int /\ Take(a, n).taken[y] \in Int
    BY <1>1, <1>3, TakeGrows DEF Amounts
<1> QED
    BY <1>2, <1>4 DEF Positive

\* Without deficits nothing is offset.
LEMMA NothingOwed ==
    ASSUME NEW balance, NEW selection
    PROVE  /\ NewProvisionalBalance(balance, NoBalance, selection).balance = balance
           /\ NewProvisionalBalance(balance, NoBalance, selection).carried = NoBalance
<1> DEFINE s == [balance |-> balance, owed |-> NoBalance]
<1>1. \A c, d : Offset(s, c, d) = s
    BY DEF Offset
<1> QED
    BY <1>1 DEF NewProvisionalBalance

\* Where nothing is due, nothing is taken and nothing is owed.
LEMMA NothingDue ==
    ASSUME NEW balance \in Balances, NotNegative(balance), NEW selection \in Selections
    PROVE  LET r == CalculateCreditReduction(balance, 0, 0, selection)
           IN  /\ \A y \in Years : r.classA[y] = 0
               /\ \A y \in Years, c \in Classes : r.unspecified[y][c] = 0 /\ r.ending[y][c] = balance[y][c]
               /\ \A c \in Classes : r.deficit[c] = 0
<1> DEFINE colA == Column(balance, "A")
           a == Take(colA, 0)
           afterA == WithColumn(balance, "A", [y \in Years |-> balance[y]["A"] - a.taken[y]])
           other == IF selection = "A" THEN "B" ELSE "A"
           first == Take(Column(afterA, selection), 0)
           second == Take(Column(afterA, other), first.left)
           r == CalculateCreditReduction(balance, 0, 0, selection)
<1>1. colA \in Amounts /\ \A y \in Years : colA[y] >= 0 /\ colA[y] = balance[y]["A"]
    BY ColumnType DEF NotNegative, Classes
<1>2. a.left = 0 /\ \A y \in Years : a.taken[y] = 0
    <2> HIDE DEF colA
    <2> QED
        BY <1>1, TakeNothing
<1>3. \A y \in Years, c \in Classes : balance[y][c] \in Int
    BY DEF Balances
<1> HIDE DEF a
<1>4. afterA = balance
    <2>1. \A y \in Years : balance[y] \in [Classes -> Int]
        BY DEF Balances
    <2>2. \A y \in Years : [balance[y] EXCEPT !["A"] = balance[y]["A"] - a.taken[y]] = balance[y]
        <3> TAKE y \in Years
        <3>1. balance[y]["A"] - a.taken[y] = balance[y]["A"]
            BY <1>2, <1>3 DEF Classes
        <3> QED
            BY <2>1, <3>1
    <2>3. afterA = [y \in Years |-> [balance[y] EXCEPT !["A"] = balance[y]["A"] - a.taken[y]]]
        BY DEF WithColumn
    <2> QED
        BY <2>2, <2>3 DEF Balances
<1>5. r.classA = Positive(a.taken)
    BY DEF CalculateCreditReduction, a
<1>6. CASE selection = "none"
    <2>1. /\ r.unspecified = NoBalance /\ r.ending = afterA
          /\ r.deficit = [c \in Classes |-> IF c = "A" THEN a.left ELSE 0]
        BY <1>6 DEF CalculateCreditReduction, a
    <2> QED
        BY <1>2, <1>4, <1>5, <2>1 DEF Positive, NoBalance
<1>7. CASE selection # "none"
    <2>1. selection \in Classes /\ other \in Classes
        BY <1>7 DEF Selections, Classes
    <2>2. /\ r.unspecified = [y \in Years |-> [c \in Classes |->
                                 IF c = selection THEN first.taken[y] ELSE second.taken[y]]]
          /\ r.ending = Minus(afterA, r.unspecified)
          /\ r.deficit = [c \in Classes |-> IF c = "A" THEN a.left ELSE second.left]
        BY <1>7 DEF CalculateCreditReduction, a
    <2> HIDE DEF afterA, r
    <2>3. \A c \in Classes : Column(balance, c) \in Amounts /\ \A y \in Years : Column(balance, c)[y] >= 0
        BY ColumnType DEF NotNegative
    <2>4. first.left = 0 /\ \A y \in Years : first.taken[y] = 0
        BY <1>4, <2>1, <2>3, TakeNothing
    <2> HIDE DEF first
    <2>5. second.left = 0 /\ \A y \in Years : second.taken[y] = 0
        BY <1>4, <2>1, <2>3, <2>4, TakeNothing
    <2> HIDE DEF second
    <2>6. \A y \in Years, c \in Classes : r.unspecified[y][c] = 0
        BY <2>2, <2>4, <2>5
    <2>7. \A y \in Years, c \in Classes : r.ending[y][c] = balance[y][c]
        BY <1>3, <1>4, <2>2, <2>6 DEF Minus
    <2> QED
        BY <1>2, <1>5, <2>2, <2>5, <2>6, <2>7 DEF Positive, r
<1> QED
    BY <1>6, <1>7

-----------------------------------------------------------------------------
\* What reports and their records are

ReportRecords ==
    [status : Statuses, year : Years, confirmed : SUBSET Modules, selection : Selections,
     supplierSales : Nat, govSales : Nat, display : BOOLEAN, newest : {"supplier", "gov"}]
SuppStatuses == Statuses \union {"REMOVED", "DELETED"}
SentStatuses == (Statuses \ {"NONE"}) \union {"DELETED"}

\* The fields of the rows of a report and of a supplemental report; what the
\* rows hold is left open.
IsRows(x) == x = [supplier |-> x.supplier, gov |-> x.gov]
IsSupp(x) ==
    /\ x = [report |-> x.report, gov |-> x.gov, status |-> x.status, link |-> x.link,
            sales |-> x.sales, rows |-> x.rows]
    /\ x.gov \in BOOLEAN /\ x.status \in SuppStatuses
Entries == [supp : Supps, status : SentStatuses, gov : BOOLEAN]
IsFunctionOn(f, S) == f = [x \in S |-> f[x]]

ReportsShape ==
    /\ report \in [Reports -> ReportRecords]
    /\ IsFunctionOn(rows, Reports) /\ \A r \in Reports : IsRows(rows[r])
    /\ IsFunctionOn(posted, Reports)

SuppsShape ==
    /\ IsFunctionOn(supps, Supps) /\ \A s \in Supps : IsSupp(supps[s])
    /\ log \in Seq(Entries)

\* A supplemental report is of an assessed report, and the history of those that
\* were made.
OfAssessed ==
    /\ \A s \in Supps : supps[s].status # "NONE" =>
          supps[s].report \in Reports /\ Assessed(supps[s].report)
    /\ \A i \in DOMAIN log : supps[log[i].supp].status # "NONE"

Shape == ReportsShape /\ SuppsShape /\ OfAssessed

-----------------------------------------------------------------------------
\* The steps of the reports

LEMMA RecordOf ==
    ASSUME ReportsShape, NEW r \in Reports
    PROVE  report[r] \in ReportRecords
BY DEF ReportsShape

LEMMA NoReportTyped == NoReport \in ReportRecords
BY YearsAssumption DEF NoReport, ReportRecords, Statuses, Selections, Years, Modules

\* What a step of report r does: it is not assessed before, and no other report
\* changes; if it is assessed by it, the reductions and the deficits are those
\* of its rows, and nothing else is adjusted otherwise.
ReportEffect(r) ==
    /\ report[r].status # "ASSESSED"
    /\ \A q \in Reports : q # r => report'[q] = report[q] /\ rows'[q] = rows[q]
    /\ \/ report'[r].status # "ASSESSED" /\ UNCHANGED assessedVars
       \/ /\ report'[r].status = "ASSESSED" /\ rows' = rows
          /\ posted' = [posted EXCEPT ![r] = Taken(RowsOfRecord(r))]
          /\ deficits' = Outstanding(RowsOfRecord(r))

\* What the pages offer a supplier to do is done before the assessment.
LEMMA OfferedBeforeAssessment ==
    ASSUME NEW r, NEW part, NEW command \in {"edit", "save", "submit", "delete"},
           SupplierOffered(r, part, command)
    PROVE  report[r].status # "ASSESSED"
<1> SUFFICES ASSUME report[r].status = "ASSESSED" PROVE FALSE
    OBVIOUS
<1>1. \A p : TabStatus(r, p) = "ASSESSED"
    BY DEF TabStatus
<1> QED
    BY <1>1 DEF SupplierOffered, InformationOffers, SalesOffers, ObligationOffers,
        SummaryOffers, Deletable, Editable

LEMMA ObligationOfferedBeforeAssessment ==
    ASSUME NEW r, NEW command \in {"save", "confirm"}, NEW sales, NEW selection,
           ObligationOffers(r, command, sales, selection)
    PROVE  report[r].status # "ASSESSED"
BY DEF ObligationOffers, TabStatus

LEMMA CreateEffect ==
    ASSUME ReportsShape, NEW r \in Reports, Create(r)
    PROVE  ReportsShape' /\ ReportEffect(r)
<1>1. r \notin Existing /\ r \in Nat
    BY ReportsAssumption DEF Create
<1>2. report[r].status = "NONE"
    BY <1>1 DEF Existing
<1>3. PICK y \in YearOfNewReport :
          report' = [report EXCEPT ![r] = NewDraft(y)]
    BY DEF Create
<1>4. y \in Years
    BY YearsAssumption DEF YearOfNewReport, Years
<1>5. NewDraft(y) \in ReportRecords
    BY <1>4, NoReportTyped DEF ReportRecords, Statuses, NewDraft
<1>6. report' \in [Reports -> ReportRecords]
    BY <1>3, <1>5 DEF ReportsShape
<1>7. report'[r].status = "DRAFT"
    BY <1>3, NoReportTyped DEF ReportsShape, ReportRecords, NewDraft
<1> QED
    BY <1>2, <1>3, <1>6, <1>7 DEF Create, ReportsShape, ReportEffect, assessedVars

\* The steps that change one report that is not assessed, and keep its rows.
LEMMA EntryEffect ==
    ASSUME ReportsShape, NEW r \in Reports, report[r].status # "ASSESSED",
           NEW new \in ReportRecords, new.status # "ASSESSED",
           report' = [report EXCEPT ![r] = new], UNCHANGED <<rows, assessedVars>>
    PROVE  ReportsShape' /\ ReportEffect(r)
BY DEF ReportsShape, ReportEffect, assessedVars

LEMMA ConfirmPartEffect ==
    ASSUME ReportsShape, NEW r \in Reports, NEW part \in OtherParts, ConfirmPart(r, part)
    PROVE  ReportsShape' /\ ReportEffect(r)
<1> DEFINE new == [report[r] EXCEPT !.confirmed = @ \union {part}]
<1>0. report[r].status # "ASSESSED"
    BY OfferedBeforeAssessment DEF ConfirmPart
<1>1. new \in ReportRecords /\ new.status # "ASSESSED"
    BY <1>0, RecordOf DEF ReportRecords, Modules, Parts
<1>2. report' = [report EXCEPT ![r] = new]
    BY DEF ConfirmPart, ReportsShape
<1> HIDE DEF new
<1> QED
    BY <1>0, <1>1, <1>2, EntryEffect DEF ConfirmPart

LEMMA CancelConfirmationEffect ==
    ASSUME ReportsShape, NEW r \in Reports, NEW part \in Parts, CancelConfirmation(r, part)
    PROVE  ReportsShape' /\ ReportEffect(r)
<1> DEFINE new == [report[r] EXCEPT !.confirmed = @ \ {part}]
<1>0. report[r].status # "ASSESSED"
    BY OfferedBeforeAssessment DEF CancelConfirmation
<1>1. new \in ReportRecords /\ new.status # "ASSESSED"
    BY <1>0, RecordOf DEF ReportRecords
<1>2. report' = [report EXCEPT ![r] = new]
    BY DEF CancelConfirmation, ReportsShape
<1> HIDE DEF new
<1> QED
    BY <1>0, <1>1, <1>2, EntryEffect DEF CancelConfirmation

LEMMA SubmitEffect ==
    ASSUME ReportsShape, NEW r \in Reports, Submit(r)
    PROVE  ReportsShape' /\ ReportEffect(r)
<1> DEFINE new == [report[r] EXCEPT !.status = "SUBMITTED", !.confirmed = Modules]
<1>1. new \in ReportRecords /\ new.status # "ASSESSED"
    BY RecordOf DEF ReportRecords, Statuses
<1>2. report' = [report EXCEPT ![r] = new]
    BY DEF Submit, ReportsShape
<1>3. report[r].status # "ASSESSED"
    BY OfferedBeforeAssessment DEF Submit
<1> HIDE DEF new
<1> QED
    BY <1>1, <1>2, <1>3, EntryEffect DEF Submit

LEMMA EditAssessmentEffect ==
    ASSUME ReportsShape, NEW r \in Reports, NEW sales \in LdvSales, EditAssessment(r, sales)
    PROVE  ReportsShape' /\ ReportEffect(r)
<1>1. report[r] \in ReportRecords /\ report[r].status \in {"SUBMITTED", "RETURNED"} /\ sales \in Nat
    BY RecordOf, LdvSalesAssumption DEF EditAssessment, SalesToCorrect, AnalystMay
<1>2. PICK new \in ReportRecords :
          new.status = report[r].status /\ report' = [report EXCEPT ![r] = new]
    <2>1. CASE report' = [report EXCEPT ![r].govSales = sales, ![r].newest = "gov",
                                        ![r].display = @ \/ report[r].govSales = 0]
        <3>1. (report[r].display \/ report[r].govSales = 0) \in BOOLEAN
            OBVIOUS
        <3> DEFINE shown == report[r].display \/ report[r].govSales = 0
        <3> HIDE DEF shown
        <3>2. [report[r] EXCEPT !.govSales = sales, !.newest = "gov", !.display = shown] \in ReportRecords
            BY <1>1, <3>1 DEF ReportRecords, shown
        <3>3. report' = [report EXCEPT ![r] =
                  [report[r] EXCEPT !.govSales = sales, !.newest = "gov", !.display = shown]]
            BY <2>1 DEF ReportsShape, shown
        <3> QED
            BY <1>1, <3>2, <3>3 DEF ReportRecords
    <2>2. CASE report' = [report EXCEPT ![r].govSales = 0, ![r].newest = "supplier", ![r].display = TRUE]
        <3>1. [report[r] EXCEPT !.govSales = 0, !.newest = "supplier", !.display = TRUE] \in ReportRecords
            BY <1>1 DEF ReportRecords
        <3>2. report' = [report EXCEPT ![r] =
                  [report[r] EXCEPT !.govSales = 0, !.newest = "supplier", !.display = TRUE]]
            BY <2>2 DEF ReportsShape
        <3> QED
            BY <1>1, <3>1, <3>2 DEF ReportRecords
    <2>3. CASE report' = [report EXCEPT ![r].supplierSales = 0, ![r].newest = "gov"]
        <3>1. [report[r] EXCEPT !.supplierSales = 0, !.newest = "gov"] \in ReportRecords
            BY <1>1 DEF ReportRecords
        <3>2. report' = [report EXCEPT ![r] = [report[r] EXCEPT !.supplierSales = 0, !.newest = "gov"]]
            BY <2>3 DEF ReportsShape
        <3> QED
            BY <1>1, <3>1, <3>2 DEF ReportRecords
    <2> QED
        BY <2>1, <2>2, <2>3 DEF EditAssessment
<1> QED
    BY <1>1, <1>2, EntryEffect DEF EditAssessment

LEMMA ReturnToSupplierEffect ==
    ASSUME ReportsShape, NEW r \in Reports, NEW draftFirst \in BOOLEAN, ReturnToSupplier(r, draftFirst)
    PROVE  ReportsShape' /\ ReportEffect(r)
<1> DEFINE shown == report[r].govSales = 0
           kept == IF draftFirst THEN report[r].confirmed \ {"compliance_summary"} ELSE {}
           new == [report[r] EXCEPT !.status = "DRAFT", !.display = shown, !.confirmed = kept]
<1>1. shown \in BOOLEAN /\ kept \in SUBSET Modules
    BY RecordOf DEF ReportRecords
<1>2. report' = [report EXCEPT ![r] = new]
    BY DEF ReturnToSupplier, ReportsShape
<1> HIDE DEF shown, kept
<1>3. new \in ReportRecords /\ new.status # "ASSESSED"
    BY <1>1, RecordOf DEF ReportRecords, Statuses
<1>4. report[r].status # "ASSESSED"
    BY DEF ReturnToSupplier, AnalystMay
<1> QED
    BY <1>2, <1>3, <1>4, EntryEffect DEF ReturnToSupplier

LEMMA ReturnToAnalystEffect ==
    ASSUME ReportsShape, NEW r \in Reports, ReturnToAnalyst(r)
    PROVE  ReportsShape' /\ ReportEffect(r)
<1> DEFINE new == [report[r] EXCEPT !.status = "RETURNED"]
<1>1. new \in ReportRecords /\ new.status # "ASSESSED"
    BY RecordOf DEF ReportRecords, Statuses
<1>2. report' = [report EXCEPT ![r] = new]
    BY DEF ReturnToAnalyst, ReportsShape
<1> QED
    BY <1>1, <1>2, EntryEffect DEF ReturnToAnalyst, DirectorMay

LEMMA SaveObligationEffect ==
    ASSUME ReportsShape, NEW r \in Reports, NEW sales \in SalesToEnter(r),
           NEW selection \in SelectionsToMake(r), NEW confirm \in BOOLEAN, NEW opening,
           SaveObligation(r, sales, selection, confirm, opening)
    PROVE  ReportsShape' /\ ReportEffect(r)
<1> DEFINE newest == IF sales # 0 THEN "supplier" ELSE report[r].newest
           confirmed == IF confirm THEN report[r].confirmed \union {"compliance_obligation"}
                        ELSE report[r].confirmed
           new == [report[r] EXCEPT !.supplierSales = sales, !.newest = newest,
                                    !.selection = selection, !.confirmed = confirmed]
           saved == [supplier |-> SupplierRows(report[r].year, Basis(r, opening), selection, sales),
                     gov |-> NoRows]
<1>1. sales \in Nat /\ selection \in Selections
    BY RecordOf, LdvSalesAssumption
       DEF ReportRecords, Selections, Classes, SalesToEnter, SelectionsToMake
<1>2. newest \in {"supplier", "gov"} /\ confirmed \in SUBSET Modules
    BY RecordOf DEF ReportRecords, Modules, Parts
<1>3. report' = [report EXCEPT ![r] = new]
    BY DEF SaveObligation, ReportsShape
<1>4. rows' = [rows EXCEPT ![r] = saved]
    BY DEF SaveObligation
<1> HIDE DEF newest, confirmed
<1>5. new \in ReportRecords
    BY <1>1, <1>2, RecordOf DEF ReportRecords
<1>6. new.status = report[r].status /\ report[r].status # "ASSESSED"
    <2>1. report[r].status # "ASSESSED"
        BY ObligationOfferedBeforeAssessment DEF SaveObligation
    <2> QED
        BY <2>1, RecordOf DEF ReportRecords
<1>7. IsRows(saved)
    BY DEF IsRows
<1> HIDE DEF new, saved
<1>8. report' \in [Reports -> ReportRecords]
    BY <1>3, <1>5 DEF ReportsShape
<1>9. IsFunctionOn(rows, Reports)' /\ \A q \in Reports : IsRows(rows'[q])
    BY <1>4, <1>7 DEF ReportsShape, IsFunctionOn
<1>10. UNCHANGED assessedVars
    BY DEF SaveObligation
<1> QED
    BY <1>3, <1>4, <1>6, <1>8, <1>9, <1>10 DEF ReportsShape, ReportEffect, assessedVars, IsFunctionOn

LEMMA DeleteEffect ==
    ASSUME ReportsShape, NEW r \in Reports, Delete(r)
    PROVE  ReportsShape' /\ ReportEffect(r)
<1> DEFINE saved == [supplier |-> NoRows, gov |-> NoRows]
<1>1. report' = [report EXCEPT ![r] = NoReport] /\ rows' = [rows EXCEPT ![r] = saved]
    BY DEF Delete
<1>2. NoReport.status = "NONE" /\ report[r].status # "ASSESSED"
    BY OfferedBeforeAssessment DEF Delete, NoReport
<1>3. IsRows(saved)
    BY DEF IsRows
<1> HIDE DEF saved
<1>4. report' \in [Reports -> ReportRecords]
    BY <1>1, NoReportTyped DEF ReportsShape
<1>5. IsFunctionOn(rows, Reports)' /\ \A q \in Reports : IsRows(rows'[q])
    BY <1>1, <1>3 DEF ReportsShape, IsFunctionOn
<1> QED
    BY <1>1, <1>2, <1>4, <1>5 DEF Delete, ReportsShape, ReportEffect, assessedVars, IsFunctionOn

\* The steps that change the rows of the government of a report that is not
\* assessed by it.
LEMMA GovRowsEffect ==
    ASSUME ReportsShape, NEW r \in Reports, report[r].status # "ASSESSED",
           NEW new \in ReportRecords, new.status # "ASSESSED",
           report' = [report EXCEPT ![r] = new],
           NEW saved, rows' = rows \/ rows' = [rows EXCEPT ![r].gov = saved],
           UNCHANGED assessedVars
    PROVE  ReportsShape' /\ ReportEffect(r)
<1>1. report' \in [Reports -> ReportRecords]
    BY DEF ReportsShape
<1>2. IsFunctionOn(rows, Reports)' /\ \A q \in Reports : IsRows(rows'[q])
    <2>1. CASE rows' = rows
        BY <2>1 DEF ReportsShape, IsFunctionOn
    <2>2. CASE rows' = [rows EXCEPT ![r].gov = saved]
        <3>1. rows' = [rows EXCEPT ![r] = [supplier |-> rows[r].supplier, gov |-> saved]]
            BY <2>2 DEF ReportsShape, IsRows, IsFunctionOn
        <3> QED
            BY <3>1 DEF ReportsShape, IsRows, IsFunctionOn
    <2> QED
        BY <2>1, <2>2
<1>3. \A q \in Reports : q # r => report'[q] = report[q] /\ rows'[q] = rows[q]
    BY DEF ReportsShape, IsFunctionOn
<1> QED
    BY <1>1, <1>2, <1>3 DEF ReportsShape, ReportEffect, assessedVars, IsFunctionOn

LEMMA RecommendEffect ==
    ASSUME ReportsShape, NEW r \in Reports, NEW saved \in BOOLEAN, NEW opening,
           Recommend(r, saved, opening)
    PROVE  ReportsShape' /\ ReportEffect(r)
<1> DEFINE new == [report[r] EXCEPT !.status = "RECOMMENDED"]
           given == GovRows(report[r].year, Basis(r, opening), report[r].selection, GovSales(report[r]))
<1>1. new \in ReportRecords /\ new.status # "ASSESSED"
    BY RecordOf DEF ReportRecords, Statuses
<1>2. report' = [report EXCEPT ![r] = new] /\ UNCHANGED assessedVars /\ report[r].status # "ASSESSED"
    BY DEF Recommend, ReportsShape, AnalystMay
<1>3. rows' = rows \/ rows' = [rows EXCEPT ![r].gov = given]
    BY DEF Recommend, AssessmentPage
<1> HIDE DEF new, given
<1> QED
    BY <1>1, <1>2, <1>3, GovRowsEffect

LEMMA DirectorSaveEffect ==
    ASSUME ReportsShape, NEW r \in Reports, DirectorSave(r)
    PROVE  ReportsShape' /\ ReportEffect(r)
<1> DEFINE given == GovRows(report[r].year, rows[r].supplier.basis, report[r].selection,
                            GovSales(report[r]))
<1>1. report[r] \in ReportRecords /\ report[r].status # "ASSESSED"
    BY RecordOf DEF DirectorSave, DirectorMay
<1>2. report' = [report EXCEPT ![r] = report[r]] /\ UNCHANGED assessedVars
    BY DEF DirectorSave, ReportsShape
<1>3. rows' = [rows EXCEPT ![r].gov = given]
    BY DEF DirectorSave
<1> HIDE DEF given
<1> QED
    BY <1>1, <1>2, <1>3, GovRowsEffect

LEMMA AssessEffect ==
    ASSUME ReportsShape, NEW r \in Reports, Assess(r)
    PROVE  ReportsShape' /\ ReportEffect(r)
<1>1. report[r].status = "RECOMMENDED" /\ rows' = rows
    BY DEF Assess, DirectorMay
<1>2. /\ posted' = [posted EXCEPT ![r] = Taken(RowsOfRecord(r))]
      /\ deficits' = Outstanding(RowsOfRecord(r))
    BY DEF Assess
<1>3. report' = [report EXCEPT ![r] = [report[r] EXCEPT !.status = "ASSESSED"]]
    BY DEF Assess, ReportsShape
<1>4. [report[r] EXCEPT !.status = "ASSESSED"] \in ReportRecords
    BY RecordOf DEF ReportRecords, Statuses
<1>5. report' \in [Reports -> ReportRecords]
    BY <1>3, <1>4 DEF ReportsShape
<1>6. report'[r].status = "ASSESSED"
    BY <1>3, RecordOf DEF ReportsShape, ReportRecords
<1>7. IsFunctionOn(posted, Reports)'
    BY <1>2 DEF ReportsShape, IsFunctionOn
<1>8. \A q \in Reports : q # r => report'[q] = report[q]
    BY <1>3 DEF ReportsShape
<1> QED
    BY <1>1, <1>2, <1>5, <1>6, <1>7, <1>8 DEF ReportsShape, ReportEffect, IsFunctionOn

LEMMA ReportStepEffect ==
    ASSUME ReportsShape, NEW r \in Reports, NEW mine, NEW theirs, ReportStep(r, mine, theirs)
    PROVE  ReportsShape' /\ ReportEffect(r)
BY CreateEffect, ConfirmPartEffect, SaveObligationEffect, CancelConfirmationEffect, SubmitEffect,
   DeleteEffect, EditAssessmentEffect, RecommendEffect, ReturnToSupplierEffect, DirectorSaveEffect,
   ReturnToAnalystEffect, AssessEffect
   DEF ReportStep

-----------------------------------------------------------------------------
\* The steps of the supplemental reports

Made(s) == supps[s].status # "NONE"

\* What a request for a supplemental report adjusts, it adjusts for s.
AdjustsFor(s) ==
    /\ Made(s) /\ supps[s].gov /\ supps'[s].status = "ASSESSED"
    /\ log' = Append(log, Entry(s, "ASSESSED", TRUE))
    /\ IsFunctionOn(posted, Reports)'
    /\ \A q \in Reports : q # supps[s].report => posted'[q] = posted[q]

SuppEffect ==
    /\ SuppsShape'
    /\ \A s \in Supps : Made(s) =>
          supps'[s].status # "NONE" /\ supps'[s].report = supps[s].report /\ supps'[s].gov = supps[s].gov
    /\ \A s \in Supps : ~Made(s) /\ supps'[s].status # "NONE" =>
          supps'[s].report \in Reports /\ Assessed(supps'[s].report)
    /\ log' = log \/ \E e \in Entries : log' = Append(log, e) /\ supps'[e.supp].status # "NONE"
    /\ UNCHANGED assessedVars \/ \E s \in Supps : AdjustsFor(s)

\* A set of places of the history has a last one.
LEMMA NewestIn ==
    ASSUME NEW n \in Nat, NEW S \in SUBSET (1 .. n), S # {}
    PROVE  Newest(S) \in S /\ \A m \in S : m <= Newest(S)
<1> DEFINE T == {n - i : i \in S}
<1>1. \A i \in S : i \in 1 .. n /\ n - i \in Nat
    OBVIOUS
<1>2. PICK m \in T : \A k \in T : m <= k
    <2>1. T \in SUBSET Nat
        BY <1>1
    <2>2. T # {}
        BY <1>1
    <2> QED
        BY <2>1, <2>2, LeastNumber
<1>3. PICK i \in S : m = n - i
    BY <1>2
<1>4. \A j \in S : j <= i
    <2> SUFFICES ASSUME NEW j \in S PROVE j <= i
        OBVIOUS
    <2>1. n - i <= n - j
        BY <1>2, <1>3
    <2> QED
        BY <2>1, <1>1
<1> QED
    BY <1>4 DEF Newest

\* The latest supplemental report is one of the report.
LEMMA LatestIsOf ==
    ASSUME SuppsShape, NEW r, NEW gov, LatestFor(r, gov) # 0
    PROVE  LatestFor(r, gov) \in Of(r)
<1> DEFINE seen == Seen(r, gov)
           left == IF gov THEN seen \ PassedOver(seen) ELSE seen
<1>1. LatestFor(r, gov) = IF left = {} THEN 0 ELSE log[Newest(left)].supp
    BY DEF LatestFor
<1>2. left # {} /\ LatestFor(r, gov) = log[Newest(left)].supp
    BY <1>1
<1>3. left \in SUBSET DOMAIN log /\ DOMAIN log = 1 .. Len(log) /\ Len(log) \in Nat
    BY DEF Seen, SuppsShape
<1> HIDE DEF left
<1>4. Newest(left) \in left
    BY <1>2, <1>3, NewestIn
<1>5. left \in SUBSET seen
    BY DEF left
<1> QED
    BY <1>2, <1>4, <1>5 DEF Seen

LEMMA OfIsMade ==
    ASSUME NEW r, NEW s \in Of(r)
    PROVE  s \in Supps /\ Made(s) /\ supps[s].report = r
BY DEF Of, Made

LEMMA Sent == SentStatuses \subseteq SuppStatuses /\ "NONE" \notin SentStatuses
BY DEF SentStatuses, SuppStatuses, Statuses

\* A step that writes one supplemental report that was made, and an entry for it.
LEMMA WriteOne ==
    ASSUME SuppsShape, NEW s \in Supps, Made(s), NEW new, IsSupp(new),
           new.status # "NONE", new.report = supps[s].report, new.gov = supps[s].gov,
           new.status # "SUBMITTED", supps' = [supps EXCEPT ![s] = new],
           NEW e \in Entries, e.supp = s, log' = log \/ log' = Append(log, e),
           UNCHANGED assessedVars
    PROVE  SuppEffect
<1>1. \A t \in Supps : supps'[t] = IF t = s THEN new ELSE supps[t]
    BY DEF SuppsShape, IsFunctionOn
<1>2. IsFunctionOn(supps, Supps)' /\ \A t \in Supps : IsSupp(supps'[t])
    BY <1>1 DEF SuppsShape, IsFunctionOn
<1>3. log' \in Seq(Entries)
    BY DEF SuppsShape
<1>4. SuppsShape'
    BY <1>2, <1>3 DEF SuppsShape
<1> QED
    BY <1>1, <1>4 DEF SuppEffect, Made

LEMMA MakeNewEffect ==
    ASSUME SuppsShape, NEW r \in Reports, Assessed(r), NEW gov \in BOOLEAN,
           NEW status \in SentStatuses, NEW sales, NEW given,
           MakeNew(r, gov, status, sales, given), UNCHANGED assessedVars
    PROVE  SuppEffect
<1>1. PICK s \in Supps :
          /\ ~Made(s)
          /\ supps' = [supps EXCEPT ![s] =
                [report |-> r, gov |-> gov, status |-> status, link |-> LatestFor(r, gov),
                 sales |-> sales, rows |-> given]]
          /\ log' = Append(log, Entry(s, status, gov))
    BY DEF MakeNew, Made
<1> DEFINE new == [report |-> r, gov |-> gov, status |-> status, link |-> LatestFor(r, gov),
                   sales |-> sales, rows |-> given]
<1>2. IsSupp(new) /\ new.status = status /\ new.report = r
    BY Sent DEF IsSupp
<1>3. supps' = [supps EXCEPT ![s] = new]
    BY <1>1
<1> HIDE DEF new
<1>4. \A t \in Supps : supps'[t] = IF t = s THEN new ELSE supps[t]
    BY <1>3 DEF SuppsShape, IsFunctionOn
<1>5. IsFunctionOn(supps, Supps)' /\ \A t \in Supps : IsSupp(supps'[t])
    BY <1>2, <1>3, <1>4 DEF SuppsShape, IsFunctionOn
<1>6. Entry(s, status, gov) \in Entries /\ Entry(s, status, gov).supp = s
    BY DEF Entry, Entries
<1>7. log' \in Seq(Entries)
    BY <1>1, <1>6 DEF SuppsShape
<1>8. SuppsShape'
    BY <1>5, <1>7 DEF SuppsShape
<1> QED
    BY <1>1, <1>2, <1>4, <1>6, <1>8, Sent DEF SuppEffect, Made, Assessed

LEMMA RemoveLatestEffect ==
    ASSUME SuppsShape, NEW s \in Supps, Made(s), RemoveLatest(s), UNCHANGED assessedVars
    PROVE  SuppEffect
<1> DEFINE new == [supps[s] EXCEPT !.status = "REMOVED"]
<1>1. IsSupp(supps[s])
    BY DEF SuppsShape
<1>2. /\ IsSupp(new) /\ new.status = "REMOVED"
      /\ new.report = supps[s].report /\ new.gov = supps[s].gov
    BY <1>1 DEF IsSupp, SuppStatuses
<1>3. supps' = [supps EXCEPT ![s] = new] /\ log' = log
    BY DEF RemoveLatest, SuppsShape, IsFunctionOn
<1>4. Entry(s, "DRAFT", TRUE) \in Entries /\ Entry(s, "DRAFT", TRUE).supp = s
    BY DEF Entry, Entries, SentStatuses, Statuses
<1> HIDE DEF new
<1> QED
    BY <1>2, <1>3, <1>4, WriteOne

LEMMA SetStatusEffect ==
    ASSUME SuppsShape, NEW s \in Supps, Made(s), NEW status \in {"RETURNED", "DRAFT"},
           supps' = [supps EXCEPT ![s].status = status], NEW gov \in BOOLEAN,
           log' = Append(log, Entry(s, status, gov)), UNCHANGED assessedVars
    PROVE  SuppEffect
<1> DEFINE new == [supps[s] EXCEPT !.status = status]
<1>1. IsSupp(supps[s])
    BY DEF SuppsShape
<1>2. /\ IsSupp(new) /\ new.status = status
      /\ new.report = supps[s].report /\ new.gov = supps[s].gov
    BY <1>1 DEF IsSupp, SuppStatuses, Statuses
<1>3. supps' = [supps EXCEPT ![s] = new]
    BY DEF SuppsShape, IsFunctionOn
<1>4. Entry(s, status, gov) \in Entries /\ Entry(s, status, gov).supp = s
    BY DEF Entry, Entries, SentStatuses, Statuses
<1> HIDE DEF new
<1> QED
    BY <1>2, <1>3, <1>4, WriteOne

\* What saving a supplemental report writes into it.
LEMMA Rewritten ==
    ASSUME NEW x, IsSupp(x), NEW status \in SuppStatuses, NEW sales, NEW given
    PROVE  [x EXCEPT !.status = status, !.sales = sales, !.rows = given]
           = [report |-> x.report, gov |-> x.gov, status |-> status, link |-> x.link,
              sales |-> sales, rows |-> given]
<1>1. PICK a, b, c, d, e, f :
          x = [report |-> a, gov |-> b, status |-> c, link |-> d, sales |-> e, rows |-> f]
    BY DEF IsSupp
<1>2. x.report = a /\ x.gov = b /\ x.link = d
    BY <1>1
<1> DEFINE x1 == [x EXCEPT !.status = status]
           x2 == [x1 EXCEPT !.sales = sales]
           x3 == [x2 EXCEPT !.rows = given]
<1>3. x1 = [report |-> a, gov |-> b, status |-> status, link |-> d, sales |-> e, rows |-> f]
    BY <1>1
<1> HIDE DEF x1
<1>4. x2 = [report |-> a, gov |-> b, status |-> status, link |-> d, sales |-> sales, rows |-> f]
    BY <1>3
<1> HIDE DEF x2
<1>5. x3 = [report |-> a, gov |-> b, status |-> status, link |-> d, sales |-> sales, rows |-> given]
    BY <1>4
<1>6. [x EXCEPT !.status = status, !.sales = sales, !.rows = given] = x3
    BY Zenon DEF x1, x2
<1> QED
    BY <1>2, <1>5, <1>6

LEMMA Ended ==
    ASSUME NEW x, IsSupp(x), NEW status \in SuppStatuses
    PROVE  [x EXCEPT !.status = status]
           = [report |-> x.report, gov |-> x.gov, status |-> status, link |-> x.link,
              sales |-> x.sales, rows |-> x.rows]
<1>1. x = [report |-> x.report, gov |-> x.gov, status |-> x.status, link |-> x.link,
           sales |-> x.sales, rows |-> x.rows]
    BY DEF IsSupp
<1> QED
    BY <1>1

LEMMA SaveLatestEffect ==
    ASSUME SuppsShape, NEW r, NEW s \in Of(r), NEW gov \in BOOLEAN, supps[s].gov = gov,
           NEW status \in SentStatuses, NEW sales, NEW given,
           SaveLatest(s, r, gov, status, sales, given),
           UNCHANGED assessedVars \/ AdjustsFor(s)
    PROVE  SuppEffect
<1> DEFINE new == [supps[s] EXCEPT !.status = status, !.sales = sales, !.rows = given]
           ends(t) == t # s /\ status = "SUBMITTED" /\ t \in Of(r) /\ supps[t].gov /\ supps[t].status = "DRAFT"
           ended(t) == [supps[t] EXCEPT !.status = "DELETED"]
<1>1. s \in Supps /\ Made(s) /\ supps[s].report = r
    BY OfIsMade
<1>2. \A t \in Supps : IsSupp(supps[t])
    BY DEF SuppsShape
<1>3. /\ IsSupp(new) /\ new.status = status
      /\ new.report = supps[s].report /\ new.gov = supps[s].gov
    <2>1. new = [report |-> supps[s].report, gov |-> supps[s].gov, status |-> status,
                 link |-> supps[s].link, sales |-> sales, rows |-> given]
        BY <1>1, <1>2, Rewritten, Sent
    <2>2. supps[s].gov \in BOOLEAN
        BY <1>1, <1>2 DEF IsSupp
    <2> QED
        BY <2>1, <2>2, Sent DEF IsSupp
<1>4. \A t \in Supps : /\ IsSupp(ended(t)) /\ ended(t).status = "DELETED"
                       /\ ended(t).report = supps[t].report /\ ended(t).gov = supps[t].gov
    <2> TAKE t \in Supps
    <2>1. ended(t) = [report |-> supps[t].report, gov |-> supps[t].gov, status |-> "DELETED",
                      link |-> supps[t].link, sales |-> supps[t].sales, rows |-> supps[t].rows]
        BY <1>2, Ended DEF SuppStatuses
    <2>2. supps[t].gov \in BOOLEAN
        BY <1>2 DEF IsSupp
    <2> QED
        BY <2>1, <2>2 DEF IsSupp, SuppStatuses
<1>5. supps' = [t \in Supps |-> IF t = s THEN new ELSE IF ends(t) THEN ended(t) ELSE supps[t]]
    BY DEF SaveLatest
<1>6. Entry(s, status, gov) \in Entries /\ Entry(s, status, gov).supp = s
    BY <1>1 DEF Entry, Entries
<1>7. log' = Append(log, Entry(s, status, gov))
    BY DEF SaveLatest
<1> HIDE DEF new, ended
<1>8. \A t \in Supps : supps'[t] = IF t = s THEN new ELSE IF ends(t) THEN ended(t) ELSE supps[t]
    BY <1>5
<1>9. SuppsShape'
    <2>1. IsFunctionOn(supps, Supps)' /\ \A t \in Supps : IsSupp(supps'[t])
        BY <1>2, <1>3, <1>4, <1>5, <1>8 DEF IsFunctionOn
    <2>2. log' \in Seq(Entries)
        BY <1>6, <1>7 DEF SuppsShape
    <2> QED
        BY <2>1, <2>2 DEF SuppsShape
<1>10. \A t \in Supps : Made(t) => /\ supps'[t].status # "NONE"
                                   /\ supps'[t].report = supps[t].report /\ supps'[t].gov = supps[t].gov
    BY <1>3, <1>4, <1>8, Sent DEF Made
<1>11. \A t \in Supps : ~Made(t) => supps'[t].status = "NONE"
    BY <1>1, <1>8, OfIsMade DEF Made
<1> QED
    BY <1>1, <1>6, <1>7, <1>9, <1>10, <1>11 DEF SuppEffect

\* Only a request that issues a reassessment of the government adjusts anything.
LEMMA SupplementalSaveEffect ==
    ASSUME SuppsShape, NEW r \in Reports, Assessed(r), IsFunctionOn(posted, Reports), 
           NEW gov \in BOOLEAN, NEW status \in SentStatuses,
           gov \/ status # "ASSESSED", NEW sales, NEW given, NEW changes,
           SupplementalSave(r, gov, status, sales, given, changes)
    PROVE  SuppEffect
<1> DEFINE latest == LatestFor(r, gov)
           again == latest # 0 /\ status = "RETURNED" /\ NewestStatus(latest) = "RETURNED"
           own == latest # 0 /\ supps[latest].gov = gov
<1>1. latest # 0 => latest \in Of(r) /\ latest \in Supps /\ Made(latest) /\ supps[latest].report = r
    BY LatestIsOf, OfIsMade
<1> HIDE DEF latest
<1>2. CASE again
    <2>1. /\ supps' = [supps EXCEPT ![latest].status = "RETURNED"]
          /\ log' = Append(log, Entry(latest, "RETURNED", gov)) /\ UNCHANGED assessedVars
        BY <1>2 DEF SupplementalSave, latest
    <2> QED
        BY <1>1, <1>2, <2>1, SetStatusEffect
<1>3. CASE ~again /\ own /\ status = "DELETED"
    <2>1. RemoveLatest(latest) /\ UNCHANGED assessedVars
        BY <1>3 DEF SupplementalSave, latest
    <2> QED
        BY <1>1, <1>3, <2>1, RemoveLatestEffect
<1>4. CASE ~again /\ own /\ status # "DELETED"
    <2>1. /\ SaveLatest(latest, r, gov, status, sales, given)
          /\ IF Adjusts(status) THEN AdjustCreditsReassessment(latest, changes)
             ELSE UNCHANGED assessedVars
        BY <1>4 DEF SupplementalSave, latest
    <2>2. CASE status = "ASSESSED"
        <3>1. gov /\ AdjustCreditsReassessment(latest, changes)
            BY <2>1, <2>2 DEF Adjusts
        <3>2. /\ IsFunctionOn(posted, Reports)'
              /\ \A q \in Reports : q # r => posted'[q] = posted[q]
            BY <1>1, <1>4, <3>1 DEF AdjustCreditsReassessment, IsFunctionOn
        <3>3. supps'[latest].status = "ASSESSED" /\ log' = Append(log, Entry(latest, "ASSESSED", TRUE))
            <4>1. supps'[latest] = [supps[latest] EXCEPT !.status = status, !.sales = sales, !.rows = given]
                BY <1>1, <1>4, <2>1 DEF SaveLatest
            <4>2. IsSupp(supps[latest])
                BY <1>1, <1>4 DEF SuppsShape
            <4>3. supps'[latest].status = status
                BY <4>1, <4>2 DEF IsSupp
            <4> QED
                BY <2>1, <2>2, <3>1, <4>3 DEF SaveLatest
        <3>4. AdjustsFor(latest)
            BY <1>1, <1>4, <3>1, <3>2, <3>3 DEF AdjustsFor
        <3> QED
            BY <1>1, <1>4, <2>1, <3>4, SaveLatestEffect
    <2>3. CASE status # "ASSESSED"
        BY <1>1, <1>4, <2>1, <2>3, SaveLatestEffect DEF Adjusts
    <2> QED
        BY <2>2, <2>3
<1>5. CASE ~again /\ ~own
    <2>1. MakeNew(r, gov, status, sales, given) /\ UNCHANGED assessedVars
        BY <1>5 DEF SupplementalSave, latest
    <2> QED
        BY <2>1, MakeNewEffect
<1> QED
    BY <1>2, <1>3, <1>4, <1>5

\* The status that a page shows of a supplemental report is one that can be sent.
LEMMA ActualStatusMade ==
    ASSUME Shape, NEW s \in Supps, Listed(s, TRUE), NEW shown \in ActualStatus(s, TRUE)
    PROVE  shown \in SentStatuses
<1>0. s \in Of(supps[s].report)
    BY DEF Listed
<1> DEFINE r == supps[s].report
           latest == LatestFor(r, TRUE)
<1>1. \A t \in Of(r) : supps[t].status \in SentStatuses
    BY DEF Shape, SuppsShape, IsSupp, Of, SuppStatuses, SentStatuses
<1>2. \A t \in Linked(r, s) : t \in Of(r)
    BY DEF Linked
<1>3. latest # 0 => latest \in Of(r)
    BY LatestIsOf DEF Shape
<1>4. report[r].status = "ASSESSED" /\ "ASSESSED" \in SentStatuses
    BY <1>0, OfIsMade DEF Shape, OfAssessed, Assessed, Made, SentStatuses, Statuses
<1>5. CASE shown = supps[s].status
    BY <1>0, <1>1, <1>5
<1>6. CASE shown # supps[s].status
    <2>1. PICK t \in Linked(r, s) :
              \/ shown = supps[t].status
              \/ latest # 0 /\ shown = supps[latest].status
              \/ shown = report[r].status
        BY <1>6 DEF ActualStatus
    <2> QED
        BY <1>1, <1>2, <1>3, <1>4, <2>1
<1> QED
    BY <1>5, <1>6

LEMMA SupplementalStepEffect ==
    ASSUME Shape, SupplementalStep
    PROVE  SuppEffect /\ UNCHANGED <<report, rows>>
<1>1. SuppsShape /\ IsFunctionOn(posted, Reports)
    BY DEF Shape, ReportsShape
<1>2. \A s \in Supps : Made(s) => supps[s].report \in Reports /\ Assessed(supps[s].report)
    BY DEF Shape, OfAssessed, Made
<1>3. {"DRAFT", "SUBMITTED", "RETURNED", "RECOMMENDED", "ASSESSED", "DELETED"} \subseteq SentStatuses
    BY DEF SentStatuses, Statuses
<1>4. ASSUME NEW r \in Existing, NEW gov \in BOOLEAN, NEW sales \in LdvSales,
             CreateSupplemental(r, gov, sales)
      PROVE  SuppEffect /\ UNCHANGED <<report, rows>>
    <2>1. r \in Reports /\ Assessed(r)
        BY <1>4 DEF Existing, CreateSupplemental, Assessed
    <2>2. PICK given : MakeNew(r, gov, "DRAFT", sales, given)
        BY <1>4 DEF CreateSupplemental
    <2>3. UNCHANGED assessedVars /\ UNCHANGED <<report, rows>>
        BY <1>4 DEF CreateSupplemental, Unchanged
    <2> QED
        BY <1>1, <1>3, <2>1, <2>2, <2>3, MakeNewEffect
<1>5. ASSUME NEW s \in Supps, Made(s), NEW status \in {"DRAFT", "SUBMITTED", "DELETED"}, NEW sales,
             SupplierEdits(s, status, sales)
      PROVE  SuppEffect /\ UNCHANGED <<report, rows>>
    <2>1. PICK given, changes :
              SupplementalSave(supps[s].report, FALSE, status, sales, given, changes)
        BY <1>5 DEF SupplierEdits
    <2>2. UNCHANGED <<report, rows>>
        BY <1>5 DEF SupplierEdits, Unchanged
    <2> QED
        BY <1>1, <1>2, <1>3, <1>5, <2>1, <2>2, SupplementalSaveEffect
<1>6. ASSUME NEW s \in Supps, Made(s), Listed(s, TRUE), NEW shown \in ActualStatus(s, TRUE),
             NEW status \in {shown, "RECOMMENDED", "DELETED"}, NEW sales,
             AnalystEdits(s, shown, status, sales)
      PROVE  SuppEffect /\ UNCHANGED <<report, rows>>
    <2>1. PICK given, changes :
              SupplementalSave(supps[s].report, TRUE, Requested(status, TRUE), sales, given, changes)
        BY <1>6 DEF AnalystEdits
    <2>2. UNCHANGED <<report, rows>>
        BY <1>6 DEF AnalystEdits, Unchanged
    <2>3. shown \in SentStatuses
        BY <1>6, ActualStatusMade
    <2>4. Requested(status, TRUE) \in SentStatuses
        BY <1>3, <2>3 DEF Requested
    <2> QED
        BY <1>1, <1>2, <1>6, <2>1, <2>2, <2>4, SupplementalSaveEffect
<1>7. ASSUME NEW s \in Supps, Made(s), NEW shown, ReturnSupplemental(s, shown)
      PROVE  SuppEffect /\ UNCHANGED <<report, rows>>
    <2> DEFINE latest == LatestFor(supps[s].report, TRUE)
    <2>1. UNCHANGED <<report, rows>>
        BY <1>7 DEF ReturnSupplemental, Unchanged
    <2>2. CASE latest # 0 /\ supps[latest].status = "SUBMITTED"
        <3>1. latest \in Supps /\ Made(latest)
            BY <1>1, <2>2, LatestIsOf, OfIsMade
        <3>2. /\ supps' = [supps EXCEPT ![latest].status = "DRAFT"]
              /\ log' = Append(log, Entry(latest, "DRAFT", TRUE))
              /\ UNCHANGED assessedVars
            BY <1>7, <2>2 DEF ReturnSupplemental
        <3> QED
            BY <1>1, <2>1, <3>1, <3>2, SetStatusEffect
    <2>3. CASE ~(latest # 0 /\ supps[latest].status = "SUBMITTED")
        <3>1. SupplementalSave(supps[s].report, TRUE, "DRAFT", supps[s].sales, supps[s].rows, {})
            BY <1>7, <2>3 DEF ReturnSupplemental
        <3> QED
            BY <1>1, <1>2, <1>3, <1>7, <2>1, <3>1, SupplementalSaveEffect
    <2> QED
        BY <2>2, <2>3
<1>8. ASSUME NEW s \in Supps, Made(s), NEW status \in {"RETURNED", "RECOMMENDED", "ASSESSED"},
             DirectorDecides(s, status)
      PROVE  SuppEffect /\ UNCHANGED <<report, rows>>
    <2>1. PICK sales, given, changes :
              SupplementalSave(supps[s].report, TRUE, status, sales, given, changes)
        BY <1>8 DEF DirectorDecides
    <2>2. UNCHANGED <<report, rows>>
        BY <1>8 DEF DirectorDecides, Unchanged
    <2> QED
        BY <1>1, <1>2, <1>3, <1>8, <2>1, <2>2, SupplementalSaveEffect
<1> QED
    BY <1>4, <1>5, <1>6, <1>7, <1>8 DEF SupplementalStep, Made

-----------------------------------------------------------------------------
\* The invariants

LEMMA ShapeInitially ==
    ASSUME Init
    PROVE  Shape
<1>1. ReportsShape
    <2>1. report \in [Reports -> ReportRecords]
        BY NoReportTyped DEF Init, ReportsInit
    <2>2. IsFunctionOn(rows, Reports) /\ \A r \in Reports : IsRows(rows[r])
        BY DEF Init, ReportsInit, IsFunctionOn, IsRows
    <2>3. IsFunctionOn(posted, Reports)
        BY DEF Init, ReportsInit, IsFunctionOn
    <2> QED
        BY <2>1, <2>2, <2>3 DEF ReportsShape
<1>2. IsSupp(NoSupp)
    BY DEF IsSupp, NoSupp, SuppStatuses, Statuses
<1>3. SuppsShape
    BY <1>2 DEF Init, SuppsShape, IsFunctionOn
<1>4. OfAssessed
    BY DEF Init, OfAssessed, NoSupp
<1> QED
    BY <1>1, <1>3, <1>4 DEF Shape

LEMMA LoggedAreMade ==
    ASSUME Shape
    PROVE  log \in Seq(Entries) /\ \A j \in DOMAIN log : log[j].supp \in Supps /\ Made(log[j].supp)
<1>1. log \in Seq(Entries)
    BY DEF Shape, SuppsShape
<1>2. \A j \in DOMAIN log : log[j] \in Entries
    BY <1>1
<1>3. \A j \in DOMAIN log : log[j].supp \in Supps
    BY <1>2 DEF Entries
<1> QED
    BY <1>1, <1>3 DEF Shape, OfAssessed, Made

\* The three kinds of steps, and what each leaves alone.
Stays == UNCHANGED <<report, rows, assessedVars, suppVars>>
OfReport == \E r \in Reports : ReportEffect(r) /\ ReportsShape' /\ UNCHANGED suppVars
OfSupplemental == SuppEffect /\ UNCHANGED <<report, rows>>

LEMMA StepKinds ==
    ASSUME Shape, [Next]_vars
    PROVE  Stays \/ OfReport \/ OfSupplemental
<1>1. ASSUME NEW r \in Reports, ReportStep(r, SupplierOpening(r), GovOpening(r)), UNCHANGED suppVars
      PROVE  OfReport
    BY <1>1, ReportStepEffect DEF OfReport, Shape
<1>2. ASSUME Environment, UNCHANGED suppVars
      PROVE  Stays
    BY <1>2 DEF Environment, Post, SubmitApplication, DecideApplication, Stays
<1>3. ASSUME SupplementalStep
      PROVE  OfSupplemental
    BY <1>3, SupplementalStepEffect DEF OfSupplemental
<1>4. CASE UNCHANGED vars
    BY <1>4 DEF vars, reportVars, Stays
<1> QED
    BY <1>1, <1>2, <1>3, <1>4 DEF Next

LEMMA ShapeKept ==
    ASSUME Shape, [Next]_vars
    PROVE  Shape'
<1>1. CASE Stays
    BY <1>1 DEF Stays, suppVars, assessedVars, Shape, ReportsShape, SuppsShape, OfAssessed, Assessed,
                IsFunctionOn, IsRows, IsSupp
<1>2. CASE OfReport
    <2>1. PICK r \in Reports : ReportEffect(r) /\ ReportsShape' /\ UNCHANGED suppVars
        BY <1>2 DEF OfReport
    <2>2. \A q \in Reports : Assessed(q) => Assessed(q)'
        BY <2>1 DEF ReportEffect, Assessed
    <2>3. OfAssessed'
        BY <2>1, <2>2 DEF Shape, OfAssessed, suppVars
    <2>4. SuppsShape'
        BY <2>1 DEF Shape, SuppsShape, suppVars, IsFunctionOn, IsSupp
    <2> QED
        BY <2>1, <2>3, <2>4 DEF Shape
<1>3. CASE OfSupplemental
    <2>1. SuppsShape' /\ UNCHANGED <<report, rows>>
        BY <1>3 DEF OfSupplemental, SuppEffect
    <2>2. IsFunctionOn(posted, Reports)'
        BY <1>3 DEF OfSupplemental, SuppEffect, AdjustsFor, assessedVars, Shape, ReportsShape, IsFunctionOn
    <2>3. ReportsShape'
        BY <2>1, <2>2 DEF Shape, ReportsShape, IsFunctionOn, IsRows
    <2>4. \A s \in Supps : supps'[s].status # "NONE" =>
             supps'[s].report \in Reports /\ Assessed(supps'[s].report)
        BY <1>3 DEF OfSupplemental, SuppEffect, Shape, OfAssessed, Made
    <2>5. \A i \in DOMAIN log' : supps'[log'[i].supp].status # "NONE"
        <3> SUFFICES ASSUME NEW i \in DOMAIN log' PROVE supps'[log'[i].supp].status # "NONE"
            OBVIOUS
        <3>1. log \in Seq(Entries) /\ \A j \in DOMAIN log : log[j].supp \in Supps /\ Made(log[j].supp)
            BY LoggedAreMade
        <3>2. \A s \in Supps : Made(s) => supps'[s].status # "NONE"
            BY <1>3 DEF OfSupplemental, SuppEffect
        <3>3. CASE log' = log
            BY <3>1, <3>2, <3>3
        <3>4. CASE \E e \in Entries : log' = Append(log, e) /\ supps'[e.supp].status # "NONE"
            <4>1. PICK e \in Entries : log' = Append(log, e) /\ supps'[e.supp].status # "NONE"
                BY <3>4
            <4>2. (i \in DOMAIN log /\ log'[i] = log[i]) \/ log'[i] = e
                BY <3>1, <4>1
            <4> QED
                BY <3>1, <3>2, <4>1, <4>2
        <3> QED
            BY <1>3, <3>3, <3>4 DEF OfSupplemental, SuppEffect
    <2>6. OfAssessed'
        BY <2>1, <2>4, <2>5 DEF OfAssessed, Assessed
    <2> QED
        BY <2>1, <2>3, <2>6 DEF Shape
<1> QED
    BY <1>1, <1>2, <1>3, StepKinds

\* Every supplemental report is of an assessed report, and every entry of the
\* history is of a supplemental report that was made.
THEOREM SupplementalsOfAssessed == Spec => []Shape
BY ShapeInitially, ShapeKept, PTL DEF Spec

\* Neither the status nor the rows of an assessed report change again, whatever
\* is corrected later.
THEOREM AssessedReportsFinal == Spec => AssessedIsFinal
<1>1. ASSUME Shape, [Next]_vars
      PROVE  [\A r \in Reports : Assessed(r) => report'[r] = report[r] /\ rows'[r] = rows[r]]_vars
    <2>1. CASE Stays
        BY <2>1 DEF Stays
    <2>2. CASE OfReport
        BY <2>2 DEF OfReport, ReportEffect, Assessed
    <2>3. CASE OfSupplemental
        BY <2>3 DEF OfSupplemental
    <2> QED
        BY <1>1, <2>1, <2>2, <2>3, StepKinds
<1> QED
    BY <1>1, SupplementalsOfAssessed, PTL DEF Spec, AssessedIsFinal

\* The credits, deficits and sales of record change only by issuing a report or a
\* reassessment of the government, whose history says so.
THEOREM OnlyAssessmentsAdjust == Spec => AdjustedOnlyByAssessment
<1> DEFINE Issued == \/ \E r \in Reports : ~Assessed(r) /\ Assessed(r)'
                     \/ \E s \in Supps : supps[s].gov /\ supps'[s].status = "ASSESSED"
                                            /\ log' = Append(log, Entry(s, "ASSESSED", TRUE))
<1>1. ASSUME Shape, [Next]_vars
      PROVE  [assessedVars' # assessedVars => Issued]_vars
    <2>1. CASE Stays
        BY <2>1 DEF Stays
    <2>2. CASE OfReport
        BY <2>2 DEF OfReport, ReportEffect, Assessed
    <2>3. CASE OfSupplemental
        BY <2>3 DEF OfSupplemental, SuppEffect, AdjustsFor
    <2> QED
        BY <1>1, <2>1, <2>2, <2>3, StepKinds
<1> QED
    BY <1>1, SupplementalsOfAssessed, PTL DEF Spec, AdjustedOnlyByAssessment

\* An entry stays in the history, of the same report.
LEMMA EntriesKept ==
    ASSUME Shape, SuppEffect, NEW i \in DOMAIN log
    PROVE  /\ i \in DOMAIN log' /\ log'[i] = log[i]
           /\ supps'[log[i].supp].report = supps[log[i].supp].report
<1>1. log \in Seq(Entries) /\ log[i].supp \in Supps /\ Made(log[i].supp)
    BY LoggedAreMade
<1>2. i \in DOMAIN log' /\ log'[i] = log[i]
    BY <1>1 DEF SuppEffect
<1> QED
    BY <1>1, <1>2 DEF SuppEffect

LEMMA ReassessedKept ==
    ASSUME Shape, SuppEffect, NEW r, Reassessed(r)
    PROVE  Reassessed(r)'
<1>1. PICK i \in DOMAIN log : Issues(log[i], r)
    BY DEF Reassessed
<1>2. i \in DOMAIN log' /\ log'[i] = log[i] /\ supps'[log[i].supp].report = supps[log[i].supp].report
    BY EntriesKept
<1>3. log'[i].gov /\ log'[i].status = "ASSESSED" /\ supps'[log'[i].supp].report = r
    BY <1>1, <1>2 DEF Issues
<1> QED
    BY <1>2, <1>3 DEF Reassessed, Issues

\* A report whose credits are adjusted is reassessed.
LEMMA AdjustedIsReassessed ==
    ASSUME Shape, SuppEffect, NEW s \in Supps, AdjustsFor(s),
           NEW q, q = supps[s].report
    PROVE  Reassessed(q)'
<1> DEFINE e == Entry(s, "ASSESSED", TRUE)
           n == Len(log) + 1
<1>1. log \in Seq(Entries) /\ log' = Append(log, e)
    BY LoggedAreMade DEF AdjustsFor
<1>2. e \in Entries
    <2>1. "ASSESSED" \in SentStatuses
        BY DEF SentStatuses, Statuses
    <2> QED
        BY <2>1 DEF Entry, Entries
<1> HIDE DEF e
<1>3. n \in DOMAIN log' /\ log'[n] = e
    BY <1>1, <1>2
<1>4. e.gov = TRUE /\ e.status = "ASSESSED" /\ e.supp = s
    BY DEF Entry, e
<1>5. supps'[s].report = q
    BY DEF SuppEffect, AdjustsFor
<1>6. log'[n].gov /\ log'[n].status = "ASSESSED" /\ supps'[log'[n].supp].report = q
    BY <1>3, <1>4, <1>5
<1> HIDE DEF n
<1> QED
    BY <1>3, <1>6 DEF Reassessed, Issues

LEMMA PostedKept ==
    ASSUME Shape, PostedIsAssessed, [Next]_vars
    PROVE  PostedIsAssessed'
<1> DEFINE Due(r) == IF Assessed(r) THEN Taken(RowsOfRecord(r)) ELSE [k \in Kinds |-> NoBalance]
<1>1. \A r \in Reports : ~Reassessed(r) => posted[r] = Due(r)
    BY DEF PostedIsAssessed
<1> SUFFICES ASSUME NEW q \in Reports, ~Reassessed(q)' PROVE posted'[q] = Due(q)'
    BY DEF PostedIsAssessed
<1>2. CASE Stays
    <2>1. ~Reassessed(q) /\ posted' = posted
        BY <1>2 DEF Stays, suppVars, assessedVars, Reassessed, Issues
    <2>2. Due(q)' = Due(q)
        BY <1>2 DEF Stays, Assessed, RowsOfRecord
    <2> QED
        BY <1>1, <2>1, <2>2
<1>3. CASE OfReport
    <2>1. PICK r \in Reports : ReportEffect(r) /\ UNCHANGED suppVars
        BY <1>3 DEF OfReport
    <2>2. ~Reassessed(q)
        BY <2>1 DEF suppVars, Reassessed, Issues
    <2>3. CASE q # r
        <3>1. Due(q)' = Due(q)
            BY <2>1, <2>3 DEF ReportEffect, Assessed, RowsOfRecord
        <3>2. posted'[q] = posted[q]
            BY <2>1, <2>3 DEF ReportEffect, assessedVars, Shape, ReportsShape, IsFunctionOn
        <3> QED
            BY <1>1, <2>2, <3>1, <3>2
    <2>4. CASE q = r /\ report'[r].status # "ASSESSED"
        <3>1. ~Assessed(q) /\ ~Assessed(q)' /\ posted' = posted
            BY <2>1, <2>4 DEF ReportEffect, Assessed, assessedVars
        <3> QED
            BY <1>1, <2>2, <3>1
    <2>5. CASE q = r /\ report'[r].status = "ASSESSED"
        <3>1. rows' = rows /\ posted' = [posted EXCEPT ![r] = Taken(RowsOfRecord(r))]
            BY <2>1, <2>5 DEF ReportEffect
        <3>2. posted'[q] = Taken(RowsOfRecord(q))
            BY <2>5, <3>1 DEF Shape, ReportsShape, IsFunctionOn
        <3>3. Due(q)' = Taken(RowsOfRecord(q))
            BY <2>5, <3>1 DEF Assessed, RowsOfRecord
        <3> QED
            BY <3>2, <3>3
    <2> QED
        BY <2>3, <2>4, <2>5
<1>4. CASE OfSupplemental
    <2>1. SuppEffect /\ UNCHANGED <<report, rows>>
        BY <1>4 DEF OfSupplemental
    <2>2. ~Reassessed(q)
        BY <2>1, ReassessedKept
    <2>3. Due(q)' = Due(q)
        BY <2>1 DEF Assessed, RowsOfRecord
    <2>4. posted'[q] = posted[q]
        <3>1. CASE UNCHANGED assessedVars
            BY <3>1 DEF assessedVars
        <3>2. CASE \E s \in Supps : AdjustsFor(s)
            <4>1. PICK s \in Supps : AdjustsFor(s)
                BY <3>2
            <4>2. q # supps[s].report
                BY <2>1, <4>1, AdjustedIsReassessed
            <4> QED
                BY <4>1, <4>2 DEF AdjustsFor
        <3> QED
            BY <2>1, <3>1, <3>2 DEF SuppEffect
    <2> QED
        BY <1>1, <2>2, <2>3, <2>4
<1> QED
    BY <1>2, <1>3, <1>4, StepKinds

\* Until it is reassessed, an assessed report has posted exactly the reductions
\* of its rows of record, and any other report none.
THEOREM ReductionsPosted == Spec => []PostedIsAssessed
<1>1. ASSUME Init PROVE PostedIsAssessed
    BY <1>1 DEF Init, ReportsInit, PostedIsAssessed, Assessed, NoReport
<1> QED
    BY <1>1, PostedKept, SupplementalsOfAssessed, PTL DEF Spec

LEMMA DeficitsKept ==
    ASSUME Shape, DeficitsOfOneAssessment, [Next]_vars
    PROVE  DeficitsOfOneAssessment'
<1> DEFINE Owed(r) == Outstanding(RowsOfRecord(r))
<1> SUFFICES ASSUME \A r \in Reports : ~Reassessed(r)'
             PROVE  \/ deficits' = NoBalance /\ \A r \in Reports : ~Assessed(r)'
                    \/ \E r \in Reports : Assessed(r)' /\ deficits' = Owed(r)'
    BY DEF DeficitsOfOneAssessment
<1>1. (\A r \in Reports : ~Reassessed(r)) =>
          \/ deficits = NoBalance /\ \A r \in Reports : ~Assessed(r)
          \/ \E r \in Reports : Assessed(r) /\ deficits = Owed(r)
    BY DEF DeficitsOfOneAssessment
<1>2. CASE Stays
    <2>1. \A r \in Reports : ~Reassessed(r)
        BY <1>2 DEF Stays, suppVars, Reassessed, Issues
    <2>2. \A r \in Reports : (Assessed(r)' <=> Assessed(r)) /\ Owed(r)' = Owed(r)
        BY <1>2 DEF Stays, Assessed, RowsOfRecord
    <2> QED
        BY <1>1, <1>2, <2>1, <2>2 DEF Stays, assessedVars
<1>3. CASE OfReport
    <2>1. PICK r \in Reports : ReportEffect(r) /\ UNCHANGED suppVars
        BY <1>3 DEF OfReport
    <2>2. \A q \in Reports : ~Reassessed(q)
        BY <2>1 DEF suppVars, Reassessed, Issues
    <2>3. \A q \in Reports : q # r => (Assessed(q)' <=> Assessed(q)) /\ Owed(q)' = Owed(q)
        BY <2>1 DEF ReportEffect, Assessed, RowsOfRecord
    <2>4. ~Assessed(r)
        BY <2>1 DEF ReportEffect, Assessed
    <2>5. CASE report'[r].status # "ASSESSED"
        <3>1. deficits' = deficits /\ ~Assessed(r)'
            BY <2>1, <2>5 DEF ReportEffect, Assessed, assessedVars
        <3> QED
            BY <1>1, <2>2, <2>3, <2>4, <3>1
    <2>6. CASE report'[r].status = "ASSESSED"
        <3>1. rows' = rows /\ deficits' = Owed(r)
            BY <2>1, <2>6 DEF ReportEffect
        <3>2. Owed(r)' = Owed(r)
            BY <3>1 DEF RowsOfRecord
        <3> QED
            BY <2>6, <3>1, <3>2 DEF Assessed
    <2> QED
        BY <2>5, <2>6
<1>4. CASE OfSupplemental
    <2>1. SuppEffect /\ UNCHANGED <<report, rows>>
        BY <1>4 DEF OfSupplemental
    <2>2. \A q \in Reports : ~Reassessed(q)
        BY <2>1, ReassessedKept
    <2>3. \A q \in Reports : (Assessed(q)' <=> Assessed(q)) /\ Owed(q)' = Owed(q)
        BY <2>1 DEF Assessed, RowsOfRecord
    <2>4. ~ \E s \in Supps : AdjustsFor(s)
        <3> SUFFICES ASSUME NEW s \in Supps, AdjustsFor(s) PROVE FALSE
            OBVIOUS
        <3>1. PICK q \in Reports : q = supps[s].report
            BY DEF AdjustsFor, Made, Shape, OfAssessed
        <3>2. Reassessed(q)'
            BY <2>1, <3>1, AdjustedIsReassessed
        <3> QED
            BY <3>1, <3>2
    <2>5. deficits' = deficits
        BY <2>1, <2>4 DEF SuppEffect, assessedVars
    <2> QED
        BY <1>1, <2>2, <2>3, <2>5
<1> QED
    BY <1>2, <1>3, <1>4, StepKinds

\* Until a report is reassessed, the deficits of the supplier are all of one
\* assessment, the last one that was issued: never rows of two.
THEOREM DeficitsOfLastAssessment == Spec => []DeficitsOfOneAssessment
<1>1. ASSUME Init PROVE DeficitsOfOneAssessment
    BY <1>1 DEF Init, ReportsInit, DeficitsOfOneAssessment, Assessed, NoReport
<1> QED
    BY <1>1, DeficitsKept, SupplementalsOfAssessed, PTL DEF Spec


-----------------------------------------------------------------------------
\* The numbers

Bases == [start : Debts, owed : Debts, activity : Balances, pending : Debts]

\* What a page saved for a report of a year: computed from balances without negative
\* starting credits or debts, and nothing is started with in the first year.
IsSaved(saved, year) ==
    \E basis \in Bases, selection \in Selections, classA \in Nat, unspecified \in Nat :
        /\ saved = Saved(year, basis, selection, classA, unspecified)
        /\ SupplierClass = "S" => classA = 0 /\ unspecified = 0
        /\ year = FirstYear => basis.start = NoBalance

\* A report that is not a draft has the rows of the supplier.
RowsOk(rep, given) ==
    /\ given.supplier = NoRows \/ IsSaved(given.supplier, rep.year)
    /\ given.gov = NoRows \/ IsSaved(given.gov, rep.year)
    /\ rep.status = "NONE" => given.supplier = NoRows /\ given.gov = NoRows
    /\ \/ given.supplier # NoRows
       \/ rep.status \in {"NONE", "DRAFT"} /\ "compliance_obligation" \notin rep.confirmed

IsPart(f) == f \in [DOMAIN f -> [Classes -> Int]] /\ DOMAIN f \subseteq Years
IsActivity(a) ==
    /\ a = [ending |-> a.ending, deficit |-> a.deficit, before |-> a.before]
    /\ a.ending \in Balances /\ IsPart(a.deficit) /\ IsPart(a.before)

RowsComputed == \A r \in Reports : RowsOk(report[r], rows[r])
Adjustable ==
    /\ posted \in [Reports -> [Kinds -> Balances]] /\ deficits \in Debts /\ orgSales \in [Years -> Nat]
Movable == credits \in [Years -> Balances] /\ pending \in Debts
SuppOk(x) ==
    /\ x.report \in Reports \union {0} /\ x.link \in 0 .. MaxSupplementals
    /\ x.sales \in Nat /\ IsActivity(x.rows)
SuppsComputed == \A s \in Supps : SuppOk(supps[s])

Computed == RowsComputed /\ Adjustable /\ Movable /\ SuppsComputed

LEMMA NoBalanceTyped ==
    /\ NoBalance \in Debts /\ NoBalance \in Balances /\ Debts \subseteq Balances
    /\ \A y \in Years, c \in Classes : NoBalance[y][c] = 0
BY DEF NoBalance, Debts, Balances

\* What saved rows are, for whatever is proved of them.
LEMMA SavedIs ==
    ASSUME NEW year \in Years, NEW saved, IsSaved(saved, year)
    PROVE  /\ saved # NoRows /\ saved.saved = TRUE /\ saved.year = year
           /\ saved.basis \in Bases /\ saved.selection \in Selections
           /\ saved.due["A"] \in Nat /\ saved.due["B"] \in Nat
           /\ Available(saved.basis) \in Balances
           /\ Reduced(Available(saved.basis), saved.basis.owed, saved.due["A"], saved.due["B"],
                      saved.selection, saved.result)
           /\ year = FirstYear => saved.basis.start = NoBalance
<1>1. PICK basis \in Bases, selection \in Selections, classA \in Nat, unspecified \in Nat :
          /\ saved = Saved(year, basis, selection, classA, unspecified)
          /\ SupplierClass = "S" => classA = 0 /\ unspecified = 0
          /\ year = FirstYear => basis.start = NoBalance
    BY DEF IsSaved
<1> DEFINE result == Reduce(basis.start, basis.owed, basis.activity, basis.pending, selection,
                            classA, unspecified)
           due == [c \in Classes |-> IF c = "A" THEN classA ELSE unspecified]
<1>2. saved = [saved |-> TRUE, year |-> year, basis |-> basis, selection |-> selection,
               due |-> due, result |-> result]
    BY <1>1 DEF Saved
<1>3. due["A"] = classA /\ due["B"] = unspecified
    BY DEF Classes
<1>4. /\ basis.start \in Debts /\ basis.start \in Balances /\ basis.owed \in Debts
      /\ basis.activity \in Balances /\ basis.pending \in Balances
    BY NoBalanceTyped DEF Bases
<1>5. PositivePart(basis.start) = basis.start
    BY <1>4 DEF PositivePart, Debts, Balances
<1>6. AvailableFor(basis.start, basis.activity, basis.pending) = Available(basis)
    BY <1>5 DEF AvailableFor, Available
<1>7. Available(basis) \in Balances
    <2>1. Plus(basis.start, basis.activity) \in Balances
        BY <1>4, BalanceSums
    <2> QED
        BY <1>4, <2>1, BalanceSums DEF Available
<1>8. Reduced(Available(basis), basis.owed, classA, unspecified, selection, result)
    BY <1>1, <1>4, <1>6, ReduceIs
<1> HIDE DEF result, due
<1>9. /\ saved.saved = TRUE /\ saved.year = year /\ saved.basis = basis
      /\ saved.selection = selection /\ saved.due = due /\ saved.result = result
    BY <1>2
<1>10. saved # NoRows
    BY <1>9 DEF NoRows
<1> QED
    BY <1>1, <1>3, <1>7, <1>8, <1>9, <1>10

LEMMA OutstandingTyped ==
    ASSUME NEW year \in Years, NEW saved, IsSaved(saved, year)
    PROVE  /\ Outstanding(saved) \in Debts /\ Outstanding(saved) \in Balances
           /\ \A y \in Years, c \in Classes :
                 /\ saved.result.carried[y][c] \in Nat /\ saved.result.deficit[c] \in Nat
                 /\ Outstanding(saved)[y][c]
                    = saved.result.carried[y][c] + IF y = year THEN saved.result.deficit[c] ELSE 0
<1>1. saved.year = year /\ saved.result.carried \in Debts /\ saved.result.deficit \in [Classes -> Nat]
    BY SavedIs DEF Reduced, ReductionTypes
<1>2. \A y \in Years, c \in Classes :
          /\ saved.result.carried[y][c] \in Nat /\ saved.result.deficit[c] \in Nat
          /\ Outstanding(saved)[y][c]
             = saved.result.carried[y][c] + IF y = year THEN saved.result.deficit[c] ELSE 0
    BY <1>1 DEF Outstanding, Debts, Balances
<1>3. Outstanding(saved) \in Balances
    BY <1>1, <1>2 DEF Outstanding, Balances
<1> QED
    BY <1>2, <1>3 DEF Debts

LEMMA TakenTyped ==
    ASSUME NEW year \in Years, NEW saved, IsSaved(saved, year)
    PROVE  /\ Taken(saved) \in [Kinds -> Balances]
           /\ Taken(saved)["offset"] = saved.result.offset
           /\ Taken(saved)["unspecified"] = PositivePart(saved.result.unspecified)
           /\ Taken(saved)["added"] = NoBalance
           /\ \A y \in Years, c \in Classes :
                 Taken(saved)["classA"][y][c] = IF c = "A" THEN saved.result.classA[y] ELSE 0
<1>1. /\ saved.result.offset \in Balances /\ saved.result.unspecified \in Balances
      /\ saved.result.classA \in Amounts
    <2>1. Reduced(Available(saved.basis), saved.basis.owed, saved.due["A"], saved.due["B"],
                  saved.selection, saved.result)
        BY SavedIs
    <2>2. saved.result.classA \in [Years -> Nat]
        BY <2>1 DEF Reduced, ReductionTypes
    <2> QED
        BY <2>1, <2>2 DEF Reduced, ReductionTypes, Amounts
<1>2. PositivePart(saved.result.unspecified) \in Balances
    BY <1>1, BalanceSums
<1> DEFINE classA == WithColumn(NoBalance, "A", saved.result.classA)
<1>3. /\ classA \in Balances
      /\ \A y \in Years, c \in Classes : classA[y][c] = IF c = "A" THEN saved.result.classA[y] ELSE 0
    <2>1. "A" \in Classes
        BY DEF Classes
    <2> QED
        BY <1>1, <2>1, WithColumnIs, NoBalanceTyped
<1>4. /\ Taken(saved)["offset"] = saved.result.offset /\ Taken(saved)["classA"] = classA
      /\ Taken(saved)["unspecified"] = PositivePart(saved.result.unspecified)
      /\ Taken(saved)["added"] = NoBalance /\ Taken(saved) = [k \in Kinds |-> Taken(saved)[k]]
    BY DEF Taken, Kinds
<1> HIDE DEF classA
<1>5. \A k \in Kinds : Taken(saved)[k] \in Balances
    BY <1>1, <1>2, <1>3, <1>4, NoBalanceTyped DEF Kinds
<1>6. Taken(saved) \in [Kinds -> Balances]
    BY <1>4, <1>5
<1> QED
    BY <1>3, <1>4, <1>6


-----------------------------------------------------------------------------
\* What reports start with, and what the steps of reports save

ReportsTyped == ReportsShape /\ SuppsShape /\ Computed

IsOpening(opening, year) ==
    opening.start \in Debts /\ opening.owed \in Debts /\ (year = FirstYear => opening.start = NoBalance)

LEMMA NoneBeforeFirst ==
    ASSUME ReportsShape, NEW r \in Reports
    PROVE  /\ report[r].year \in Years
           /\ \A p \in Previous(r) : p \in Reports /\ report[p].year = report[r].year - 1
           /\ report[r].year = FirstYear => Previous(r) = {}
<1>1. \A p \in Reports : report[p].year \in Years
    BY DEF ReportsShape, ReportRecords
<1>2. \A p \in Previous(r) : p \in Reports /\ report[p].year = report[r].year - 1
    BY DEF Previous, Existing
<1>3. FirstYear - 1 \notin Years
    BY YearsAssumption DEF Years
<1> QED
    BY <1>1, <1>2, <1>3

LEMMA OpeningIs ==
    ASSUME ReportsTyped, NEW r \in Reports
    PROVE  IsOpening(Opening(r), report[r].year)
<1>1. CASE \E p \in Previous(r) : rows[p].gov # NoRows
    <2> DEFINE first == CHOOSE p \in Previous(r) : TRUE
               saved == rows[first].gov
    <2>1. PICK p \in Previous(r) : rows[p].gov # NoRows
        BY <1>1
    <2>2. \A q \in Previous(r) : q = p
        <3> SUFFICES ASSUME NEW q \in Previous(r) PROVE q = p
            OBVIOUS
        <3>1. p \in Nat /\ q \in Nat /\ p <= q /\ q <= p
            BY ReportsAssumption DEF Previous, Existing
        <3> QED
            BY <3>1
    <2>3. first = p
        BY <2>2
    <2>4. p \in Reports /\ report[p].year \in Years /\ Previous(r) # {}
        BY <2>1, NoneBeforeFirst DEF ReportsTyped
    <2>5. IsSaved(saved, report[p].year)
        BY <2>1, <2>3, <2>4 DEF ReportsTyped, Computed, RowsComputed, RowsOk
    <2>6. Opening(r) = [start |-> PositivePart(saved.result.ending), owed |-> Outstanding(saved)]
        BY <1>1 DEF Opening
    <2> HIDE DEF saved, first
    <2>7. saved.result.ending \in Balances
        BY <2>4, <2>5, SavedIs DEF Reduced, ReductionTypes
    <2>8. PositivePart(saved.result.ending) \in Debts
        BY <2>7, BalanceSums
    <2>9. report[r].year # FirstYear
        BY <2>4, NoneBeforeFirst DEF ReportsTyped
    <2> QED
        BY <2>4, <2>5, <2>6, <2>8, <2>9, OutstandingTyped DEF IsOpening
<1>2. CASE ~ \E p \in Previous(r) : rows[p].gov # NoRows
    <2>1. Opening(r) = [start |-> NoBalance, owed |-> deficits]
        BY <1>2 DEF Opening
    <2>2. deficits \in Debts
        BY DEF ReportsTyped, Computed, Adjustable
    <2> QED
        BY <2>1, <2>2, NoBalanceTyped DEF IsOpening
<1> QED
    BY <1>1, <1>2

LEMMA StartsWithIs ==
    ASSUME ReportsTyped, NEW S \in SUBSET Supps, S # {}, NEW year, year # FirstYear
    PROVE  IsOpening(StartsWith(Newest(S)), year)
<1>1. Newest(S) \in Supps
    BY NewestIn, SupplementalsAssumption DEF Supps
<1> DEFINE s == Newest(S)
<1> HIDE DEF s
<1>2. s \in Supps => supps[s].rows.ending \in Balances
    BY DEF ReportsTyped, Computed, SuppsComputed, SuppOk, IsActivity
<1>3. s \in Supps => PositivePart(supps[s].rows.ending) \in Debts
    BY <1>2, BalanceSums
<1>4. s \in Supps => StartsWith(s).start \in Debts /\ StartsWith(s).owed \in Debts
    BY <1>3, NoBalanceTyped DEF StartsWith
<1> QED
    BY <1>1, <1>4 DEF IsOpening, s

LEMMA SupplierOpeningIs ==
    ASSUME ReportsTyped, NEW r \in Reports
    PROVE  IsOpening(SupplierOpening(r), report[r].year)
<1> DEFINE latest == {LatestFor(p, FALSE) : p \in Previous(r)} \ {0}
<1>1. CASE latest = {}
    BY <1>1, OpeningIs DEF SupplierOpening
<1>2. CASE latest # {}
    <2>1. \A p \in Previous(r) : LatestFor(p, FALSE) # 0 => LatestFor(p, FALSE) \in Supps
        BY LatestIsOf, OfIsMade DEF ReportsTyped
    <2>2. latest \in SUBSET Supps /\ Previous(r) # {}
        BY <1>2, <2>1
    <2>3. report[r].year # FirstYear
        BY <2>2, NoneBeforeFirst DEF ReportsTyped
    <2>4. SupplierOpening(r) = StartsWith(Newest(latest))
        BY <1>2 DEF SupplierOpening
    <2> HIDE DEF latest
    <2> QED
        BY <1>2, <2>2, <2>3, <2>4, StartsWithIs
<1> QED
    BY <1>1, <1>2

LEMMA LatestAssessedIsOf ==
    ASSUME NEW r, LatestAssessed(r) # 0
    PROVE  LatestAssessed(r) \in Of(r) /\ supps[LatestAssessed(r)].status = "ASSESSED"
<1> DEFINE list == Ordered(r)
           assessed == {n \in Supps : list[n] \in Of(r) /\ supps[list[n]].status = "ASSESSED"}
<1>1. assessed # {} /\ LatestAssessed(r) = list[Newest(assessed)]
    BY DEF LatestAssessed
<1>2. \A n \in assessed : list[n] \in Of(r) /\ supps[list[n]].status = "ASSESSED"
    OBVIOUS
<1>3. assessed \in SUBSET (1 .. MaxSupplementals)
    BY DEF Supps
<1> HIDE DEF assessed
<1>4. Newest(assessed) \in assessed
    BY <1>1, <1>3, NewestIn, SupplementalsAssumption
<1> QED
    BY <1>1, <1>2, <1>4

LEMMA GovOpeningIs ==
    ASSUME ReportsTyped, NEW r \in Reports
    PROVE  IsOpening(GovOpening(r), report[r].year)
<1> DEFINE assessed == {LatestAssessed(p) : p \in Previous(r)} \ {0}
<1>1. CASE assessed = {}
    BY <1>1, OpeningIs DEF GovOpening
<1>2. CASE assessed # {}
    <2>1. \A p \in Previous(r) : LatestAssessed(p) # 0 => LatestAssessed(p) \in Supps
        BY LatestAssessedIsOf, OfIsMade
    <2>2. assessed \in SUBSET Supps /\ Previous(r) # {}
        BY <1>2, <2>1
    <2>3. report[r].year # FirstYear
        BY <2>2, NoneBeforeFirst DEF ReportsTyped
    <2>4. GovOpening(r) = StartsWith(Newest(assessed))
        BY <1>2 DEF GovOpening
    <2> HIDE DEF assessed
    <2> QED
        BY <1>2, <2>2, <2>3, <2>4, StartsWithIs
<1> QED
    BY <1>1, <1>2

LEMMA BasisIs ==
    ASSUME ReportsTyped, NEW r \in Reports, NEW opening, IsOpening(opening, report[r].year)
    PROVE  /\ Basis(r, opening) \in Bases
           /\ report[r].year = FirstYear => Basis(r, opening).start = NoBalance
<1> DEFINE shown == [y \in Years |-> IF y = report[r].year THEN pending[y] ELSE [c \in Classes |-> 0]]
<1>1. report[r].year \in Years /\ credits \in [Years -> Balances] /\ pending \in Debts
    BY RecordOf DEF ReportsTyped, ReportRecords, Computed, Movable
<1>2. shown \in Debts
    BY <1>1 DEF Debts, Balances
<1>3. credits[report[r].year] \in Balances
    BY <1>1
<1>4. Basis(r, opening) = [start |-> opening.start, owed |-> opening.owed,
                           activity |-> credits[report[r].year], pending |-> shown]
    BY DEF Basis
<1> HIDE DEF shown
<1> QED
    BY <1>2, <1>3, <1>4 DEF IsOpening, Bases

\* The rows of either page are saved rows.
LEMMA RowsAreSaved ==
    ASSUME NEW year \in Years, NEW basis \in Bases, year = FirstYear => basis.start = NoBalance,
           NEW selection \in Selections, NEW sales \in Nat
    PROVE  /\ IsSaved(SupplierRows(year, basis, selection, sales), year)
           /\ IsSaved(GovRows(year, basis, selection, sales), year)
BY ReductionsDue DEF IsSaved, SupplierRows, GovRows

LEMMA GovSalesTyped ==
    ASSUME ReportsShape, NEW r \in Reports
    PROVE  GovSales(report[r]) \in Nat /\ NewestSales(report[r]) \in Nat
BY RecordOf DEF ReportRecords, GovSales, NewestSales


\* What a step of report r leaves of the rows.
RowsStep(r) == RowsOk(report'[r], rows'[r])

LEMMA RowsOf ==
    ASSUME ReportsTyped, NEW r \in Reports
    PROVE  /\ report[r] \in ReportRecords /\ RowsOk(report[r], rows[r])
           /\ report[r].year \in Years /\ report[r].selection \in Selections
           /\ IsFunctionOn(rows, Reports) /\ IsRows(rows[r])
BY RecordOf DEF ReportsTyped, ReportsShape, ReportRecords, Computed, RowsComputed

LEMMA CreateRows ==
    ASSUME ReportsTyped, NEW r \in Reports, Create(r)
    PROVE  RowsStep(r)
<1>1. r \notin Existing
    BY ReportsAssumption DEF Create
<1>2. report[r].status = "NONE"
    BY <1>1 DEF Existing
<1>3. rows'[r].supplier = NoRows /\ rows'[r].gov = NoRows
    BY <1>2, RowsOf DEF Create, RowsOk
<1>4. PICK y : report'[r] = NewDraft(y)
    BY DEF Create, ReportsTyped, ReportsShape
<1>5. report'[r].status = "DRAFT" /\ report'[r].confirmed = {}
    BY <1>4 DEF NewDraft, NoReport
<1> QED
    BY <1>3, <1>5 DEF RowsStep, RowsOk

LEMMA ConfirmPartRows ==
    ASSUME ReportsTyped, NEW r \in Reports, NEW part \in OtherParts, ConfirmPart(r, part)
    PROVE  RowsStep(r)
<1>1. report'[r] = [report[r] EXCEPT !.confirmed = @ \union {part}] /\ rows' = rows
    BY DEF ConfirmPart, ReportsTyped, ReportsShape
<1>2. /\ report'[r].year = report[r].year /\ report'[r].status = report[r].status
      /\ report'[r].confirmed = report[r].confirmed \union {part}
    BY <1>1, RowsOf DEF ReportRecords
<1>3. part # "compliance_obligation" /\ report[r].status # "NONE"
    BY PartsAssumption DEF ConfirmPart, Existing
<1> QED
    BY <1>1, <1>2, <1>3, RowsOf DEF RowsStep, RowsOk

LEMMA CancelConfirmationRows ==
    ASSUME ReportsTyped, NEW r \in Reports, NEW part \in Parts, CancelConfirmation(r, part)
    PROVE  RowsStep(r)
<1>1. report'[r] = [report[r] EXCEPT !.confirmed = @ \ {part}] /\ rows' = rows
    BY DEF CancelConfirmation, ReportsTyped, ReportsShape
<1>2. /\ report'[r].year = report[r].year /\ report'[r].status = report[r].status
      /\ report'[r].confirmed = report[r].confirmed \ {part}
    BY <1>1, RowsOf DEF ReportRecords
<1> QED
    BY <1>1, <1>2, RowsOf DEF RowsStep, RowsOk

\* Submit is offered when all pages are confirmed, that of the obligation too.
LEMMA SubmitRows ==
    ASSUME ReportsTyped, NEW r \in Reports, Submit(r)
    PROVE  RowsStep(r)
<1>1. report'[r] = [report[r] EXCEPT !.status = "SUBMITTED", !.confirmed = Modules] /\ rows' = rows
    BY DEF Submit, ReportsTyped, ReportsShape
<1>2. report'[r].year = report[r].year /\ report'[r].status = "SUBMITTED"
    BY <1>1, RowsOf DEF ReportRecords
<1>3. "compliance_obligation" \in report[r].confirmed
    BY DEF Submit, SupplierOffered, SummaryOffers, Parts, InformationOffers, SalesOffers,
        ObligationOffers
<1> QED
    BY <1>1, <1>2, <1>3, RowsOf DEF RowsStep, RowsOk

LEMMA EditAssessmentRows ==
    ASSUME ReportsTyped, NEW r \in Reports, NEW sales \in LdvSales, EditAssessment(r, sales)
    PROVE  RowsStep(r)
<1>1. report[r].status \in {"SUBMITTED", "RETURNED"} /\ rows' = rows
    BY DEF EditAssessment, SalesToCorrect, AnalystMay
<1>2. \/ report'[r] = [report[r] EXCEPT !.govSales = sales, !.newest = "gov",
                                        !.display = @ \/ report[r].govSales = 0]
      \/ report'[r] = [report[r] EXCEPT !.govSales = 0, !.newest = "supplier", !.display = TRUE]
      \/ report'[r] = [report[r] EXCEPT !.supplierSales = 0, !.newest = "gov"]
    BY DEF EditAssessment, ReportsTyped, ReportsShape
<1>3. /\ report'[r].year = report[r].year /\ report'[r].status = report[r].status
      /\ report'[r].confirmed = report[r].confirmed
    BY <1>2, RowsOf DEF ReportRecords
<1> QED
    BY <1>1, <1>3, RowsOf DEF RowsStep, RowsOk

LEMMA ReturnToSupplierRows ==
    ASSUME ReportsTyped, NEW r \in Reports, NEW draftFirst \in BOOLEAN, ReturnToSupplier(r, draftFirst)
    PROVE  RowsStep(r)
<1> DEFINE shown == report[r].govSales = 0
           kept == IF draftFirst THEN report[r].confirmed \ {"compliance_summary"} ELSE {}
<1>1. report[r].status \in {"SUBMITTED", "RETURNED"} /\ rows' = rows
    BY DEF ReturnToSupplier, AnalystMay
<1>2. report'[r] = [report[r] EXCEPT !.status = "DRAFT", !.display = shown, !.confirmed = kept]
    BY DEF ReturnToSupplier, ReportsTyped, ReportsShape
<1> HIDE DEF shown, kept
<1>3. report'[r].year = report[r].year /\ report'[r].status = "DRAFT"
    BY <1>2, RowsOf DEF ReportRecords
<1> QED
    BY <1>1, <1>3, RowsOf DEF RowsStep, RowsOk

LEMMA ReturnToAnalystRows ==
    ASSUME ReportsTyped, NEW r \in Reports, ReturnToAnalyst(r)
    PROVE  RowsStep(r)
<1>1. /\ report[r].status = "RECOMMENDED" /\ rows' = rows
      /\ report'[r] = [report[r] EXCEPT !.status = "RETURNED"]
    BY DEF ReturnToAnalyst, DirectorMay, ReportsTyped, ReportsShape
<1>2. report'[r].year = report[r].year /\ report'[r].status = "RETURNED"
    BY <1>1, RowsOf DEF ReportRecords
<1> QED
    BY <1>1, <1>2, RowsOf DEF RowsStep, RowsOk

LEMMA SaveObligationRows ==
    ASSUME ReportsTyped, NEW r \in Reports, NEW sales \in SalesToEnter(r),
           NEW selection \in SelectionsToMake(r), NEW confirm \in BOOLEAN, NEW opening,
           IsOpening(opening, report[r].year),
           SaveObligation(r, sales, selection, confirm, opening)
    PROVE  RowsStep(r)
<1> DEFINE newest == IF sales # 0 THEN "supplier" ELSE report[r].newest
           confirmed == IF confirm THEN report[r].confirmed \union {"compliance_obligation"}
                        ELSE report[r].confirmed
           given == SupplierRows(report[r].year, Basis(r, opening), selection, sales)
<1>1. sales \in Nat /\ selection \in Selections
    BY RowsOf, LdvSalesAssumption
       DEF ReportRecords, Selections, Classes, SalesToEnter, SelectionsToMake
<1>2. report'[r] = [report[r] EXCEPT !.supplierSales = sales, !.newest = newest,
                                     !.selection = selection, !.confirmed = confirmed]
    BY DEF SaveObligation, ReportsTyped, ReportsShape
<1>3. rows'[r] = [supplier |-> given, gov |-> NoRows]
    BY RowsOf DEF SaveObligation, IsFunctionOn
<1>4. IsSaved(given, report[r].year)
    BY <1>1, BasisIs, RowsAreSaved, RowsOf
<1> HIDE DEF newest, confirmed, given
<1>5. report'[r].year = report[r].year /\ report'[r].status = report[r].status
    BY <1>2, RowsOf DEF ReportRecords
<1>6. given # NoRows
    BY <1>4, RowsOf, SavedIs
<1>7. report[r].status # "NONE"
    BY DEF SaveObligation, Existing
<1> QED
    BY <1>3, <1>4, <1>5, <1>6, <1>7 DEF RowsStep, RowsOk

LEMMA DeleteRows ==
    ASSUME ReportsTyped, NEW r \in Reports, Delete(r)
    PROVE  RowsStep(r)
<1>1. report'[r] = NoReport /\ rows'[r] = [supplier |-> NoRows, gov |-> NoRows]
    BY RowsOf DEF Delete, ReportsTyped, ReportsShape, IsFunctionOn
<1> QED
    BY <1>1 DEF RowsStep, RowsOk, NoReport

\* A step that saves rows of the government of a report that has those of the supplier.
LEMMA GovRowsKept ==
    ASSUME ReportsTyped, NEW r \in Reports, report[r].status \notin {"NONE", "DRAFT"},
           NEW given, IsSaved(given, report[r].year), rows' = [rows EXCEPT ![r].gov = given],
           report'[r].year = report[r].year, report'[r].status # "NONE"
    PROVE  RowsStep(r)
<1>1. rows'[r].supplier = rows[r].supplier /\ rows'[r].gov = given
    <2>1. rows'[r] = [rows[r] EXCEPT !.gov = given]
        BY RowsOf DEF IsFunctionOn
    <2>2. PICK a, b : rows[r] = [supplier |-> a, gov |-> b]
        BY RowsOf DEF IsRows
    <2> QED
        BY <2>1, <2>2
<1>2. rows[r].supplier # NoRows
    BY RowsOf DEF RowsOk
<1> QED
    BY <1>1, <1>2, RowsOf DEF RowsStep, RowsOk

LEMMA RecommendRows ==
    ASSUME ReportsTyped, NEW r \in Reports, NEW saved \in BOOLEAN, NEW opening,
           IsOpening(opening, report[r].year), Recommend(r, saved, opening)
    PROVE  RowsStep(r)
<1> DEFINE given == GovRows(report[r].year, Basis(r, opening), report[r].selection, GovSales(report[r]))
<1>1. report[r].status \in {"SUBMITTED", "RETURNED"}
    BY DEF Recommend, AnalystMay
<1>2. report'[r] = [report[r] EXCEPT !.status = "RECOMMENDED"]
    BY DEF Recommend, ReportsTyped, ReportsShape
<1>3. report'[r].year = report[r].year /\ report'[r].status = "RECOMMENDED"
    BY <1>2, RowsOf DEF ReportRecords
<1>4. IsSaved(given, report[r].year)
    BY BasisIs, RowsAreSaved, RowsOf, GovSalesTyped DEF ReportsTyped
<1>5. rows' = rows \/ rows' = [rows EXCEPT ![r].gov = given]
    BY DEF Recommend, AssessmentPage
<1> HIDE DEF given
<1>6. CASE rows' = rows
    BY <1>1, <1>3, <1>6, RowsOf DEF RowsStep, RowsOk
<1>7. CASE rows' = [rows EXCEPT ![r].gov = given]
    BY <1>1, <1>3, <1>4, <1>7, GovRowsKept
<1> QED
    BY <1>5, <1>6, <1>7

LEMMA DirectorSaveRows ==
    ASSUME ReportsTyped, NEW r \in Reports, DirectorSave(r)
    PROVE  RowsStep(r)
<1> DEFINE basis == rows[r].supplier.basis
           given == GovRows(report[r].year, basis, report[r].selection, GovSales(report[r]))
<1>1. report[r].status = "RECOMMENDED" /\ report' = report
    BY DEF DirectorSave, DirectorMay
<1>2. rows' = [rows EXCEPT ![r].gov = given]
    BY DEF DirectorSave
<1>3. IsSaved(rows[r].supplier, report[r].year)
    BY <1>1, RowsOf DEF RowsOk
<1>4. basis \in Bases /\ (report[r].year = FirstYear => basis.start = NoBalance)
    BY <1>3, RowsOf, SavedIs
<1> HIDE DEF basis
<1>5. IsSaved(given, report[r].year)
    BY <1>4, RowsAreSaved, RowsOf, GovSalesTyped DEF ReportsTyped
<1> HIDE DEF given
<1> QED
    BY <1>1, <1>2, <1>5, GovRowsKept

LEMMA AssessRows ==
    ASSUME ReportsTyped, NEW r \in Reports, Assess(r)
    PROVE  RowsStep(r)
<1>1. report[r].status = "RECOMMENDED" /\ rows' = rows
    BY DEF Assess, DirectorMay
<1>2. report'[r] = [report[r] EXCEPT !.status = "ASSESSED"]
    BY DEF Assess, ReportsTyped, ReportsShape
<1>3. report'[r].year = report[r].year /\ report'[r].status = "ASSESSED"
    BY <1>2, RowsOf DEF ReportRecords
<1> QED
    BY <1>1, <1>3, RowsOf DEF RowsStep, RowsOk

\* The rows that an assessment is based on are saved rows.
LEMMA RecordIsSaved ==
    ASSUME ReportsTyped, NEW r \in Reports, report[r].status \notin {"NONE", "DRAFT"}
    PROVE  IsSaved(RowsOfRecord(r), report[r].year) /\ report[r].year \in Years
BY RowsOf DEF RowsOk, RowsOfRecord

LEMMA AssessAdjusts ==
    ASSUME ReportsTyped, NEW r \in Reports, Assess(r)
    PROVE  Adjustable' /\ UNCHANGED creditVars
<1>1. IsSaved(RowsOfRecord(r), report[r].year) /\ report[r].year \in Years
    BY RecordIsSaved DEF Assess, DirectorMay
<1>2. Taken(RowsOfRecord(r)) \in [Kinds -> Balances] /\ Outstanding(RowsOfRecord(r)) \in Debts
    BY <1>1, TakenTyped, OutstandingTyped
<1>3. NewestSales(report[r]) \in Nat
    BY GovSalesTyped DEF ReportsTyped
<1>4. posted' \in [Reports -> [Kinds -> Balances]]
    BY <1>2 DEF Assess, ReportsTyped, Computed, Adjustable
<1>5. orgSales' \in [Years -> Nat]
    BY <1>3 DEF Assess, ReportsTyped, Computed, Adjustable
<1> QED
    BY <1>2, <1>4, <1>5 DEF Assess, Adjustable

LEMMA ReportStepComputed ==
    ASSUME ReportsTyped, NEW r \in Reports, ReportStep(r, SupplierOpening(r), GovOpening(r)),
           UNCHANGED suppVars
    PROVE  Computed'
<1>1. IsOpening(SupplierOpening(r), report[r].year) /\ IsOpening(GovOpening(r), report[r].year)
    BY SupplierOpeningIs, GovOpeningIs
<1>2. RowsStep(r)
    BY <1>1, CreateRows, ConfirmPartRows, SaveObligationRows, CancelConfirmationRows, SubmitRows,
       DeleteRows, EditAssessmentRows, RecommendRows, ReturnToSupplierRows, DirectorSaveRows,
       ReturnToAnalystRows, AssessRows
       DEF ReportStep
<1>3. \A q \in Reports : q # r => report'[q] = report[q] /\ rows'[q] = rows[q]
    BY ReportStepEffect DEF ReportsTyped, ReportEffect
<1>4. RowsComputed'
    BY <1>2, <1>3 DEF ReportsTyped, Computed, RowsComputed, RowsStep
<1>5. Adjustable' /\ UNCHANGED creditVars
    <2>1. CASE Assess(r)
        BY <2>1, AssessAdjusts
    <2>2. CASE ~Assess(r)
        <3>1. UNCHANGED <<assessedVars, creditVars>>
            BY <2>2 DEF ReportStep, Create, ConfirmPart, SaveObligation, CancelConfirmation, Submit,
                Delete, EditAssessment, Recommend, ReturnToSupplier, DirectorSave, ReturnToAnalyst
        <3> QED
            BY <3>1 DEF assessedVars, ReportsTyped, Computed, Adjustable
    <2> QED
        BY <2>1, <2>2
<1>6. Movable'
    BY <1>5 DEF creditVars, ReportsTyped, Computed, Movable
<1>7. SuppsComputed'
    BY DEF suppVars, ReportsTyped, Computed, SuppsComputed
<1> QED
    BY <1>4, <1>5, <1>6, <1>7 DEF Computed


-----------------------------------------------------------------------------
\* What the steps of the rest of the system and of supplemental reports save

\* One amount of a balance, or of the credits of a period, is written.
LEMMA Written ==
    ASSUME NEW b \in Balances, NEW y \in Years, NEW c \in Classes, NEW n \in Int
    PROVE  /\ [b EXCEPT ![y][c] = n] \in Balances
           /\ \A z \in Years, k \in Classes :
                 [b EXCEPT ![y][c] = n][z][k] = IF z = y /\ k = c THEN n ELSE b[z][k]
<1> DEFINE new == [b[y] EXCEPT ![c] = n]
<1>1. b[y] \in [Classes -> Int]
    BY DEF Balances
<1>2. new \in [Classes -> Int] /\ \A k \in Classes : new[k] = IF k = c THEN n ELSE b[y][k]
    BY <1>1
<1>3. [b EXCEPT ![y][c] = n] = [b EXCEPT ![y] = new]
    OBVIOUS
<1> HIDE DEF new
<1> DEFINE all == [b EXCEPT ![y] = new]
<1>4. all \in Balances /\ \A z \in Years : all[z] = IF z = y THEN new ELSE b[z]
    BY <1>2 DEF Balances
<1> HIDE DEF all
<1>5. \A z \in Years, k \in Classes : all[z][k] = IF z = y /\ k = c THEN n ELSE b[z][k]
    BY <1>2, <1>4
<1> QED
    BY <1>3, <1>4, <1>5 DEF all

LEMMA WrittenDebt ==
    ASSUME NEW b \in Debts, NEW y \in Years, NEW c \in Classes, NEW n \in Nat
    PROVE  [b EXCEPT ![y][c] = n] \in Debts
<1> DEFINE all == [b EXCEPT ![y][c] = n]
<1>1. b \in Balances /\ \A z \in Years, k \in Classes : b[z][k] >= 0
    BY DEF Debts
<1>2. all \in Balances /\ \A z \in Years, k \in Classes : all[z][k] = IF z = y /\ k = c THEN n ELSE b[z][k]
    BY <1>1, Written
<1> HIDE DEF all
<1>3. all \in Debts
    BY <1>1, <1>2 DEF Debts
<1> QED
    BY <1>3 DEF all

LEMMA WrittenInPeriod ==
    ASSUME NEW p \in Years, NEW y \in Years, NEW c \in Classes, NEW n \in Int,
           credits \in [Years -> Balances]
    PROVE  [credits EXCEPT ![p][y][c] = @ + n] \in [Years -> Balances]
<1> DEFINE m == credits[p][y][c] + n
           new == [credits[p] EXCEPT ![y][c] = m]
<1>1. credits[p] \in Balances
    OBVIOUS
<1>2. m \in Int
    BY <1>1 DEF Balances
<1>3. [credits EXCEPT ![p][y][c] = @ + n] = [credits EXCEPT ![p] = new]
    OBVIOUS
<1> HIDE DEF m
<1>4. new \in Balances
    BY <1>1, <1>2, Written
<1> HIDE DEF new
<1> QED
    BY <1>3, <1>4

LEMMA EnvironmentComputed ==
    ASSUME ReportsTyped, Environment, UNCHANGED suppVars
    PROVE  Computed'
<1>1. credits \in [Years -> Balances] /\ pending \in Debts
    BY DEF ReportsTyped, Computed, Movable
<1>2. Movable'
    <2>1. ASSUME NEW p \in PostedCredits, Post(p) PROVE Movable'
        <3>1. p.period \in Years /\ p.year \in Years /\ p.class \in Classes /\ p.value \in Int
            BY CreditsAssumption
        <3>2. credits' = [credits EXCEPT ![p.period][p.year][p.class] = @ + p.value]
            BY <2>1 DEF Post
        <3>3. credits' \in [Years -> Balances]
            BY <1>1, <3>1, <3>2, WrittenInPeriod
        <3> QED
            BY <1>1, <2>1, <3>3 DEF Post, Movable
    <2>2. ASSUME NEW a \in Applications, SubmitApplication(a) PROVE Movable'
        <3>1. a.year \in Years /\ a.class \in Classes /\ a.value \in Nat
            BY CreditsAssumption
        <3>2. pending' = [pending EXCEPT ![a.year][a.class] = a.value]
            BY <2>2 DEF SubmitApplication
        <3>3. pending' \in Debts
            BY <1>1, <3>1, <3>2, WrittenDebt
        <3> QED
            BY <1>1, <2>2, <3>3 DEF SubmitApplication, Movable
    <2>3. ASSUME NEW a \in Applications, NEW issued \in BOOLEAN, DecideApplication(a, issued)
          PROVE  Movable'
        <3>1. a.year \in Years /\ a.class \in Classes
            BY CreditsAssumption
        <3>2. pending' \in Debts
            <4>1. pending' = [pending EXCEPT ![a.year][a.class] = 0]
                BY <2>3 DEF DecideApplication
            <4> QED
                BY <1>1, <3>1, <4>1, WrittenDebt
        <3>3. pending[a.year][a.class] \in Int
            BY <1>1, <3>1 DEF Debts, Balances
        <3>4. credits' \in [Years -> Balances]
            <4>1. CASE credits' = credits
                BY <1>1, <4>1
            <4>2. CASE credits' # credits
                <5>1. PICK period \in a.year .. LastYear :
                          credits' = [credits EXCEPT ![period][a.year][a.class]
                                                       = @ + pending[a.year][a.class]]
                    BY <2>3, <4>2 DEF DecideApplication
                <5>2. period \in Years
                    BY <3>1, <5>1, YearsAssumption DEF Years
                <5> QED
                    BY <1>1, <3>1, <3>3, <5>1, <5>2, WrittenInPeriod
            <4> QED
                BY <4>1, <4>2
        <3> QED
            BY <3>2, <3>4 DEF Movable
    <2> QED
        BY <2>1, <2>2, <2>3 DEF Environment
<1>3. UNCHANGED <<report, rows, assessedVars>>
    BY DEF Environment, Post, SubmitApplication, DecideApplication
<1>4. RowsComputed' /\ Adjustable' /\ SuppsComputed'
    BY <1>3 DEF suppVars, assessedVars, ReportsTyped, Computed, RowsComputed, Adjustable, SuppsComputed
<1> QED
    BY <1>2, <1>4 DEF Computed

\* The newest of some supplemental reports is one of them.
LEMMA NewestSupp ==
    ASSUME NEW S \in SUBSET Supps, S # {}
    PROVE  Newest(S) \in S
BY NewestIn, SupplementalsAssumption DEF Supps

LEMMA SalesBeforeTyped ==
    ASSUME ReportsTyped, NEW r \in Reports
    PROVE  SalesBefore(r) \in Nat
<1> DEFINE assessed == {s \in Of(r) : supps[s].status = "ASSESSED"}
<1>1. assessed \in SUBSET Supps
    BY DEF Of
<1>2. NewestSales(report[r]) \in Nat
    BY GovSalesTyped DEF ReportsTyped
<1>3. SalesBefore(r) = IF assessed # {} /\ supps[Newest(assessed)].sales # 0
                       THEN supps[Newest(assessed)].sales ELSE NewestSales(report[r])
    BY DEF SalesBefore
<1> HIDE DEF assessed
<1>4. assessed # {} => Newest(assessed) \in Supps
    BY <1>1, NewestSupp
<1>5. assessed # {} => supps[Newest(assessed)].sales \in Nat
    BY <1>4 DEF ReportsTyped, Computed, SuppsComputed, SuppOk
<1> QED
    BY <1>2, <1>3, <1>5

LEMMA EndingBeforeTyped ==
    ASSUME ReportsTyped, NEW r \in Reports
    PROVE  IsPart(EndingBefore(r))
<1> DEFINE previous == {p \in Existing : report[p].year = report[r].year - 1
                                          /\ report[p].status = "ASSESSED"}
           assessed == {s \in Of(Oldest(previous)) : supps[s].status = "ASSESSED"}
<1>1. EndingBefore(r) = IF previous = {} \/ assessed = {} THEN [y \in {} |-> 0]
                        ELSE supps[Newest(assessed)].rows.ending
    BY DEF EndingBefore
<1>2. assessed \in SUBSET Supps
    BY DEF Of
<1> HIDE DEF assessed, previous
<1>3. assessed # {} => Newest(assessed) \in Supps
    BY <1>2, NewestSupp
<1>4. assessed # {} => supps[Newest(assessed)].rows.ending \in Balances
    BY <1>3 DEF ReportsTyped, Computed, SuppsComputed, SuppOk, IsActivity
<1>5. \A b \in Balances : IsPart(b)
    BY DEF IsPart, Balances
<1>6. IsPart([y \in {} |-> 0])
    BY DEF IsPart
<1> QED
    BY <1>1, <1>4, <1>5, <1>6

LEMMA ReductionTyped ==
    ASSUME ReportsTyped, NEW r \in Reports, NEW balance \in Balances, NEW sales \in Nat
    PROVE  ReductionTypes(Reduction(r, balance, sales))
<1>1. report[r].year \in Years /\ report[r].selection \in Selections
    BY RowsOf
<1>2. /\ ClassAReduction(sales, report[r].year) \in Nat
      /\ UnspecifiedReductionBig(sales, report[r].year) \in Nat
    BY <1>1, ReductionsDue
<1> QED
    BY <1>1, <1>2, CalculateCreditReductionIs DEF Reduction

LEMMA StartOfRowsTyped ==
    ASSUME NEW basis \in Bases, NEW before, IsPart(before)
    PROVE  StartOfRows(basis, before) \in Balances
<1>1. basis.start \in Balances /\ basis.owed \in Balances
    BY NoBalanceTyped DEF Bases
<1> DEFINE other(y) == [c \in Classes |-> basis.start[y][c] - basis.owed[y][c]]
<1>2. \A y \in Years : other(y) \in [Classes -> Int]
    BY <1>1 DEF Balances
<1>3. StartOfRows(basis, before) =
          [y \in Years |->
              IF y \in DOMAIN before /\ \E c \in Classes : basis.start[y][c] # 0 \/ basis.owed[y][c] # 0
              THEN before[y] ELSE other(y)]
    BY DEF StartOfRows
<1> HIDE DEF other
<1>4. \A y \in DOMAIN before : before[y] \in [Classes -> Int]
    BY DEF IsPart
<1> QED
    BY <1>2, <1>3, <1>4 DEF Balances

LEMMA NewBalancesTyped ==
    ASSUME NEW basis \in Bases, NEW before, IsPart(before)
    PROVE  NewBalances(basis, before) \in Balances
<1> DEFINE start == StartOfRows(basis, before)
<1>1. basis.activity \in Balances /\ basis.pending \in Balances /\ basis.owed \in Balances
    BY NoBalanceTyped DEF Bases
<1>2. start \in Balances
    BY StartOfRowsTyped
<1> HIDE DEF start
<1>3. Plus(start, basis.activity) \in Balances
    BY <1>1, <1>2, BalanceSums
<1>4. Plus(Plus(start, basis.activity), basis.pending) \in Balances
    BY <1>1, <1>3, BalanceSums
<1>5. Minus(Plus(Plus(start, basis.activity), basis.pending), basis.owed) \in Balances
    BY <1>1, <1>4, BalanceSums
<1> QED
    BY <1>5 DEF NewBalances, start

LEMMA OldBalancesTyped ==
    ASSUME NEW basis \in Bases, NEW before, IsPart(before), NEW selection \in Selections
    PROVE  /\ OldBalances(basis, before, selection).balance \in Balances
           /\ OldBalances(basis, before, selection).carried \in Debts
<1> DEFINE start == StartOfRows(basis, before)
           available == Plus(Plus(PositivePart(start), basis.activity), basis.pending)
<1>1. basis.activity \in Balances /\ basis.pending \in Balances /\ basis.owed \in Debts
    BY NoBalanceTyped DEF Bases
<1>2. start \in Balances
    BY StartOfRowsTyped
<1>3. OldBalances(basis, before, selection) = NewProvisionalBalance(available, basis.owed, selection)
    BY DEF OldBalances, ObligationDetails
<1> HIDE DEF start
<1>4. PositivePart(start) \in Balances
    BY <1>2, BalanceSums
<1>5. Plus(PositivePart(start), basis.activity) \in Balances
    BY <1>1, <1>4, BalanceSums
<1>6. available \in Balances
    BY <1>1, <1>5, BalanceSums
<1> HIDE DEF available
<1> QED
    BY <1>1, <1>3, <1>6, NewProvisionalBalanceIs

LEMMA ActivityRowsTyped ==
    ASSUME ReportsTyped, NEW r \in Reports, Assessed(r), NEW given, IsActivity(given), NEW sales \in Nat
    PROVE  IsActivity(ActivityRows(r, given, sales))
<1> DEFINE basis == RowsOfRecord(r).basis
           old == OldBalances(basis, given.before, report[r].selection)
           now == Reduction(r, NewBalances(basis, given.before), Corrected(r, sales))
           was == Reduction(r, old.balance, SalesBefore(r))
           carried == {y \in Years : \E c \in Classes : old.carried[y][c] > 0}
           own == IF \E c \in Classes : was.deficit[c] > 0 \/ now.deficit[c] > 0
                  THEN {report[r].year} ELSE {}
           deficit == [y \in DOMAIN given.deficit \union carried \union own |->
                          IF y \in carried THEN old.carried[y]
                          ELSE IF y \in own THEN now.deficit ELSE given.deficit[y]]
<1>1. basis \in Bases /\ report[r].selection \in Selections /\ report[r].year \in Years
    BY RecordIsSaved, SavedIs, RowsOf DEF Assessed
<1>2. IsPart(given.before) /\ IsPart(given.deficit)
    BY DEF IsActivity
<1>3. old.balance \in Balances /\ old.carried \in Debts
    BY <1>1, <1>2, OldBalancesTyped
<1>4. Corrected(r, sales) \in Nat
    BY SalesBeforeTyped DEF Corrected
<1>5. ReductionTypes(now)
    BY <1>1, <1>2, <1>4, NewBalancesTyped, ReductionTyped
<1>6. ActivityRows(r, given, sales) = [ending |-> now.ending, deficit |-> deficit, before |-> given.before]
    BY DEF ActivityRows
<1>7. carried \subseteq Years /\ own \subseteq Years
    BY <1>1
<1> HIDE DEF old, now, was, carried, own
<1>8. now.ending \in Balances /\ now.deficit \in [Classes -> Int]
    BY <1>5 DEF ReductionTypes
<1>9. \A y \in Years : old.carried[y] \in [Classes -> Int]
    BY <1>3 DEF Debts, Balances
<1>10. DOMAIN given.deficit \subseteq Years /\ \A y \in DOMAIN given.deficit : given.deficit[y] \in [Classes -> Int]
    BY <1>2 DEF IsPart
<1>11. IsPart(deficit)
    BY <1>7, <1>8, <1>9, <1>10 DEF IsPart
<1> HIDE DEF deficit
<1> QED
    BY <1>2, <1>6, <1>8, <1>11 DEF IsActivity


LEMMA LatestTyped ==
    ASSUME ReportsTyped, NEW r, NEW gov
    PROVE  LatestFor(r, gov) \in 0 .. MaxSupplementals
BY LatestIsOf, OfIsMade, SupplementalsAssumption DEF ReportsTyped, Supps

LEMMA SuppIs ==
    ASSUME ReportsTyped, NEW s \in Supps
    PROVE  IsSupp(supps[s]) /\ SuppOk(supps[s]) /\ IsFunctionOn(supps, Supps)
BY DEF ReportsTyped, SuppsShape, Computed, SuppsComputed

LEMMA MakeNewComputed ==
    ASSUME ReportsTyped, NEW r \in Reports, NEW gov \in BOOLEAN, NEW status, NEW sales \in Nat,
           NEW given, IsActivity(given), MakeNew(r, gov, status, sales, given)
    PROVE  SuppsComputed'
<1> DEFINE new == [report |-> r, gov |-> gov, status |-> status, link |-> LatestFor(r, gov),
                   sales |-> sales, rows |-> given]
<1>1. PICK s \in Supps : supps' = [supps EXCEPT ![s] = new]
    BY DEF MakeNew
<1>2. SuppOk(new)
    BY LatestTyped DEF SuppOk
<1> HIDE DEF new
<1>3. \A t \in Supps : supps'[t] = IF t = s THEN new ELSE supps[t]
    BY <1>1, SuppIs DEF IsFunctionOn
<1> QED
    BY <1>2, <1>3, SuppIs DEF SuppsComputed

\* Writing the status, or the sales and the rows too, keeps the types.
LEMMA RewrittenOk ==
    ASSUME NEW x, IsSupp(x), SuppOk(x), NEW status \in SuppStatuses, NEW sales \in Nat,
           NEW given, IsActivity(given)
    PROVE  /\ SuppOk([x EXCEPT !.status = status, !.sales = sales, !.rows = given])
           /\ SuppOk([x EXCEPT !.status = status])
<1> DEFINE saved == [x EXCEPT !.status = status, !.sales = sales, !.rows = given]
           ended == [x EXCEPT !.status = status]
<1>1. saved = [report |-> x.report, gov |-> x.gov, status |-> status, link |-> x.link,
               sales |-> sales, rows |-> given]
    BY Rewritten
<1>2. ended = [report |-> x.report, gov |-> x.gov, status |-> status, link |-> x.link,
               sales |-> x.sales, rows |-> x.rows]
    BY Ended
<1> HIDE DEF saved, ended
<1>3. SuppOk(saved)
    BY <1>1 DEF SuppOk
<1>4. SuppOk(ended)
    BY <1>2 DEF SuppOk
<1> QED
    BY <1>3, <1>4 DEF saved, ended

LEMMA StatusComputed ==
    ASSUME ReportsTyped, NEW s \in Supps, NEW status \in SuppStatuses,
           supps' = [supps EXCEPT ![s].status = status]
    PROVE  SuppsComputed'
<1> DEFINE new == [supps[s] EXCEPT !.status = status]
<1>1. \A t \in Supps : supps'[t] = IF t = s THEN new ELSE supps[t]
    BY SuppIs DEF IsFunctionOn
<1>2. IsActivity(supps[s].rows) /\ supps[s].sales \in Nat
    BY SuppIs DEF SuppOk
<1>3. SuppOk(new)
    BY <1>2, SuppIs, RewrittenOk
<1> HIDE DEF new
<1> QED
    BY <1>1, <1>3, SuppIs DEF SuppsComputed

LEMMA SaveLatestComputed ==
    ASSUME ReportsTyped, NEW r, NEW s \in Supps, NEW gov, NEW status \in SuppStatuses,
           NEW sales \in Nat, NEW given, IsActivity(given), SaveLatest(s, r, gov, status, sales, given)
    PROVE  SuppsComputed'
<1> DEFINE new(t) == [supps[t] EXCEPT !.status = status, !.sales = sales, !.rows = given]
           ended(t) == [supps[t] EXCEPT !.status = "DELETED"]
<1>1. \A t \in Supps : supps'[t] \in {new(t), ended(t), supps[t]}
    BY DEF SaveLatest
<1>2. \A t \in Supps : SuppOk(new(t)) /\ SuppOk(ended(t))
    BY SuppIs, RewrittenOk DEF SuppStatuses
<1> HIDE DEF new, ended
<1> QED
    BY <1>1, <1>2, SuppIs DEF SuppsComputed

\* The amounts that a request asks to change the transactions to.
AreChanges(changes) == \A u \in changes : u.new \in Int

LEMMA AdjustedCellTyped ==
    ASSUME ReportsTyped, NEW r \in Reports, NEW changes, AreChanges(changes),
           NEW y \in Years, NEW c \in Classes, NEW k \in Kinds
    PROVE  AdjustedCell(r, changes, y, c)[k] \in Int
<1> DEFINE here == {u \in changes : u.year = y /\ u.class = c}
           updates == {u \in here : u.old # 0}
           f == CHOOSE f \in Found(r, updates) : TRUE
           updated == [j \in Kinds |-> IF \E u \in updates : f[u] = j
                                       THEN (CHOOSE u \in updates : f[u] = j).new
                                       ELSE posted[r][j][y][c]]
           Room(u) == IF updated[u.kind] = 0 THEN u.kind ELSE "added"
           added == CHOOSE u \in here \ updates : Room(u) = k
<1>1. AdjustedCell(r, changes, y, c)[k]
      = IF \E u \in here \ updates : Room(u) = k THEN updated[k] + added.new ELSE updated[k]
    BY DEF AdjustedCell
<1>2. posted[r][k][y][c] \in Int
    <2>1. posted[r][k] \in Balances
        BY DEF ReportsTyped, Computed, Adjustable
    <2> QED
        BY <2>1 DEF Balances
<1>3. updated[k] \in Int
    <2>1. updated[k] = IF \E u \in updates : f[u] = k THEN (CHOOSE u \in updates : f[u] = k).new
                       ELSE posted[r][k][y][c]
        OBVIOUS
    <2>2. \A u \in updates : u.new \in Int
        BY DEF AreChanges
    <2> HIDE DEF updates, f
    <2> QED
        BY <1>2, <2>1, <2>2
<1>4. (\E u \in here \ updates : Room(u) = k) => added.new \in Int
    <2>1. \A u \in here \ updates : u.new \in Int
        BY DEF AreChanges
    <2> HIDE DEF here, updates, Room
    <2> QED
        BY <2>1
<1> HIDE DEF here, updates, f, updated, Room, added
<1> QED
    BY <1>1, <1>3, <1>4

LEMMA AdjustComputed ==
    ASSUME ReportsTyped, NEW s \in Supps, supps[s].report \in Reports, NEW changes,
           AreChanges(changes), AdjustCreditsReassessment(s, changes)
    PROVE  Adjustable'
<1> DEFINE r == supps[s].report
           new == [k \in Kinds |-> [y \in Years |-> [c \in Classes |->
                      AdjustedCell(r, changes, y, c)[k]]]]
<1>1. posted' = [posted EXCEPT ![r] = new]
    BY DEF AdjustCreditsReassessment
<1>2. new \in [Kinds -> Balances]
    BY AdjustedCellTyped DEF Balances
<1>3. report[r].year \in Years
    BY RowsOf
<1>4. /\ posted \in [Reports -> [Kinds -> Balances]] /\ deficits \in Debts /\ orgSales \in [Years -> Nat]
      /\ supps[s].sales \in Nat /\ IsPart(supps[s].rows.deficit)
    BY SuppIs DEF ReportsTyped, Computed, Adjustable, SuppOk, IsActivity
<1> HIDE DEF new
<1>5. posted' \in [Reports -> [Kinds -> Balances]]
    BY <1>1, <1>2, <1>4
<1>6. orgSales' \in [Years -> Nat]
    BY <1>3, <1>4 DEF AdjustCreditsReassessment
<1>7. deficits' \in Debts
    <2>1. CASE deficits' = deficits
        BY <1>4, <2>1
    <2>2. CASE deficits' # deficits
        <3> DEFINE owed(y) == [c \in Classes |-> IF supps[s].rows.deficit[y][c] > 0
                                                 THEN supps[s].rows.deficit[y][c] ELSE 0]
        <3>1. PICK y \in DOMAIN supps[s].rows.deficit :
                  deficits' = [deficits EXCEPT ![report[r].year] = owed(y)]
            BY <2>2 DEF AdjustCreditsReassessment
        <3>2. owed(y) \in [Classes -> Nat]
            BY <1>4 DEF IsPart
        <3> HIDE DEF owed
        <3>3. deficits' \in Balances /\ \A z \in Years : deficits'[z] \in {deficits[z], owed(y)}
            BY <1>3, <1>4, <3>1, <3>2 DEF Debts, Balances
        <3>4. \A z \in Years, c \in Classes : deficits'[z][c] >= 0
            BY <1>4, <3>2, <3>3 DEF Debts
        <3> QED
            BY <3>3, <3>4 DEF Debts
    <2> QED
        BY <2>1, <2>2
<1> QED
    BY <1>5, <1>6, <1>7 DEF Adjustable

LEMMA SupplementalSaveComputed ==
    ASSUME ReportsTyped, NEW r \in Reports, NEW gov \in BOOLEAN, NEW status \in SentStatuses,
           NEW sales \in Nat, NEW given, IsActivity(given), NEW changes, AreChanges(changes),
           SupplementalSave(r, gov, status, sales, given, changes)
    PROVE  SuppsComputed' /\ Adjustable'
<1> DEFINE latest == LatestFor(r, gov)
           again == latest # 0 /\ status = "RETURNED" /\ NewestStatus(latest) = "RETURNED"
           own == latest # 0 /\ supps[latest].gov = gov
<1>1. latest # 0 => latest \in Supps /\ supps[latest].report = r
    BY LatestIsOf, OfIsMade DEF ReportsTyped
<1>2. UNCHANGED assessedVars => Adjustable'
    BY DEF assessedVars, ReportsTyped, Computed, Adjustable
<1>3. status \in SuppStatuses /\ {"RETURNED", "REMOVED"} \subseteq SuppStatuses
    BY Sent DEF SuppStatuses, Statuses
<1> HIDE DEF latest
<1>4. CASE again
    <2>1. supps' = [supps EXCEPT ![latest].status = "RETURNED"] /\ UNCHANGED assessedVars
        BY <1>4 DEF SupplementalSave, latest
    <2> QED
        BY <1>1, <1>2, <1>3, <1>4, <2>1, StatusComputed
<1>5. CASE ~again /\ own /\ status = "DELETED"
    <2>1. RemoveLatest(latest) /\ UNCHANGED assessedVars
        BY <1>5 DEF SupplementalSave, latest
    <2> QED
        BY <1>1, <1>2, <1>3, <1>5, <2>1, StatusComputed DEF RemoveLatest
<1>6. CASE ~again /\ own /\ status # "DELETED"
    <2>1. /\ SaveLatest(latest, r, gov, status, sales, given)
          /\ AdjustCreditsReassessment(latest, changes) \/ UNCHANGED assessedVars
        BY <1>6 DEF SupplementalSave, latest
    <2> QED
        BY <1>1, <1>2, <1>3, <1>6, <2>1, SaveLatestComputed, AdjustComputed
<1>7. CASE ~again /\ ~own
    <2>1. MakeNew(r, gov, status, sales, given) /\ UNCHANGED assessedVars
        BY <1>7 DEF SupplementalSave, latest
    <2> QED
        BY <1>2, <2>1, MakeNewComputed
<1> QED
    BY <1>4, <1>5, <1>6, <1>7

\* What the director's page sends are numbers.
LEMMA ChangesTyped ==
    ASSUME ReportsTyped, NEW r \in Reports, Assessed(r), NEW given, IsActivity(given), NEW sales \in Nat
    PROVE  AreChanges(ReassessmentReductions(r, given, sales))
<1> DEFINE basis == RowsOfRecord(r).basis
           now == Reduction(r, NewBalances(basis, given.before), Corrected(r, sales))
           was == Reduction(r, OldBalances(basis, given.before, "none").balance, SalesBefore(r))
<1>1. basis \in Bases
    BY RecordIsSaved, SavedIs DEF Assessed
<1>2. IsPart(given.before)
    BY DEF IsActivity
<1>3. Corrected(r, sales) \in Nat
    BY SalesBeforeTyped DEF Corrected
<1>4. ReductionTypes(now)
    BY <1>1, <1>2, <1>3, NewBalancesTyped, ReductionTyped
<1>5. ReassessmentReductions(r, given, sales) = ConstructReassessmentReductions(now, was)
    BY DEF ReassessmentReductions
<1> HIDE DEF now, was
<1>6. \A y \in Years, c \in Classes : now.classA[y] \in Int /\ now.unspecified[y][c] \in Int
    BY <1>4 DEF ReductionTypes, Balances
<1>7. ASSUME NEW u \in ConstructReassessmentReductions(now, was) PROVE u.new \in Int
    <2>1. CASE \E y \in Years : u = [kind |-> "classA", year |-> y, class |-> "A",
                                   old |-> was.classA[y], new |-> now.classA[y]]
        <3>1. "A" \in Classes
            BY DEF Classes
        <3> QED
            BY <1>6, <2>1, <3>1
    <2>2. CASE \E p \in Years \X Classes :
              u = [kind |-> "unspecified", year |-> p[1], class |-> p[2],
                   old |-> was.unspecified[p[1]][p[2]], new |-> now.unspecified[p[1]][p[2]]]
        <3>1. PICK p \in Years \X Classes : u.new = now.unspecified[p[1]][p[2]]
            BY <2>2
        <3>2. p[1] \in Years /\ p[2] \in Classes
            OBVIOUS
        <3> QED
            BY <1>6, <3>1, <3>2
    <2> QED
        BY <1>7, <2>1, <2>2 DEF ConstructReassessmentReductions
<1> QED
    BY <1>5, <1>7 DEF AreChanges

LEMMA SupplementalStepComputed ==
    ASSUME ReportsTyped, OfAssessed, SupplementalStep
    PROVE  Computed'
<1>1. \A s \in Supps : Made(s) => supps[s].report \in Reports /\ Assessed(supps[s].report)
    BY DEF OfAssessed, Made
<1>2. {"DRAFT", "SUBMITTED", "RETURNED", "RECOMMENDED", "ASSESSED", "DELETED"} \subseteq SentStatuses
    BY DEF SentStatuses, Statuses
<1>3. \A s \in Supps : supps[s].sales \in Nat /\ IsActivity(supps[s].rows)
    BY SuppIs DEF SuppOk
<1>4. AreChanges({}) /\ LdvSales \subseteq Nat
    BY LdvSalesAssumption DEF AreChanges
<1>5. UNCHANGED assessedVars => Adjustable'
    BY DEF assessedVars, ReportsTyped, Computed, Adjustable
<1>6. ASSUME NEW r \in Existing, NEW gov \in BOOLEAN, NEW sales \in LdvSales,
             CreateSupplemental(r, gov, sales)
      PROVE  SuppsComputed' /\ Adjustable' /\ Unchanged
    <2> DEFINE latest == LatestFor(r, gov)
               shown == IF latest = 0 THEN NoActivity ELSE supps[latest].rows
               before == EndingBefore(r)
               given == [shown EXCEPT !.before = IF DOMAIN before = {} THEN shown.before ELSE before]
    <2>1. r \in Reports /\ Assessed(r)
        BY <1>6 DEF Existing, CreateSupplemental, Assessed
    <2>2. IsActivity(shown)
        <3>1. IsActivity(NoActivity)
            BY NoBalanceTyped DEF IsActivity, NoActivity, IsPart
        <3>2. latest # 0 => latest \in Supps
            BY LatestIsOf, OfIsMade DEF ReportsTyped
        <3> QED
            BY <1>3, <3>1, <3>2
    <2>3. IsPart(before)
        BY <2>1, EndingBeforeTyped
    <2>4. MakeNew(r, gov, "DRAFT", sales, ActivityRows(r, given, sales)) /\ UNCHANGED assessedVars /\ Unchanged
        BY <1>6 DEF CreateSupplemental
    <2> HIDE DEF shown, before, latest
    <2>5. IsActivity(given)
        <3> DEFINE kept == IF DOMAIN before = {} THEN shown.before ELSE before
        <3>1. IsPart(kept)
            BY <2>2, <2>3 DEF IsActivity
        <3> HIDE DEF kept
        <3>2. [shown EXCEPT !.before = kept]
              = [ending |-> shown.ending, deficit |-> shown.deficit, before |-> kept]
            BY <2>2 DEF IsActivity
        <3>3. IsActivity([shown EXCEPT !.before = kept])
            BY <2>2, <3>1, <3>2 DEF IsActivity
        <3> QED
            BY <3>3 DEF kept
    <2> HIDE DEF given
    <2>6. IsActivity(ActivityRows(r, given, sales))
        BY <1>4, <2>1, <2>5, ActivityRowsTyped
    <2> QED
        BY <1>4, <1>5, <2>1, <2>4, <2>6, MakeNewComputed
<1>7. ASSUME NEW s \in Supps, Made(s), NEW status \in {"DRAFT", "SUBMITTED", "DELETED"},
             NEW sales \in LdvSales \union {supps[s].sales}, SupplierEdits(s, status, sales)
      PROVE  SuppsComputed' /\ Adjustable' /\ Unchanged
    <2> DEFINE r == supps[s].report
               given == ActivityRows(r, supps[s].rows, sales)
    <2>1. SupplementalSave(r, FALSE, status, sales, given, {}) /\ Unchanged
        BY <1>7 DEF SupplierEdits
    <2>2. r \in Reports /\ Assessed(r) /\ sales \in Nat /\ status \in SentStatuses
        BY <1>1, <1>2, <1>3, <1>4, <1>7
    <2>3. IsActivity(given)
        BY <1>3, <2>2, ActivityRowsTyped
    <2> HIDE DEF given, r
    <2> QED
        BY <1>4, <2>1, <2>2, <2>3, SupplementalSaveComputed
<1>8. ASSUME NEW s \in Supps, Made(s), Listed(s, TRUE), NEW shown \in ActualStatus(s, TRUE),
             NEW status \in {shown, "RECOMMENDED", "DELETED"},
             NEW sales \in LdvSales \union {supps[s].sales}, AnalystEdits(s, shown, status, sales)
      PROVE  SuppsComputed' /\ Adjustable' /\ Unchanged
    <2> DEFINE r == supps[s].report
               given == ActivityRows(r, supps[s].rows, sales)
    <2>1. SupplementalSave(r, TRUE, Requested(status, TRUE), sales, given, {}) /\ Unchanged
        BY <1>8 DEF AnalystEdits
    <2>2. r \in Reports /\ Assessed(r) /\ sales \in Nat
        BY <1>1, <1>3, <1>4, <1>8
    <2>3. shown \in SentStatuses
        BY <1>8, ActualStatusMade DEF Shape, ReportsTyped
    <2>4. Requested(status, TRUE) \in SentStatuses
        BY <1>2, <2>3 DEF Requested
    <2>5. IsActivity(given)
        BY <1>3, <2>2, ActivityRowsTyped
    <2> HIDE DEF given, r
    <2> QED
        BY <1>4, <2>1, <2>2, <2>4, <2>5, SupplementalSaveComputed
<1>9. ASSUME NEW s \in Supps, Made(s), NEW shown, ReturnSupplemental(s, shown)
      PROVE  SuppsComputed' /\ Adjustable' /\ Unchanged
    <2> DEFINE r == supps[s].report
               latest == LatestFor(r, TRUE)
    <2>1. Unchanged
        BY <1>9 DEF ReturnSupplemental
    <2>2. CASE latest # 0 /\ supps[latest].status = "SUBMITTED"
        <3>1. latest \in Supps
            BY <2>2, LatestIsOf, OfIsMade DEF ReportsTyped
        <3>2. supps' = [supps EXCEPT ![latest].status = "DRAFT"] /\ UNCHANGED assessedVars
            BY <1>9, <2>2 DEF ReturnSupplemental
        <3>3. "DRAFT" \in SuppStatuses
            BY <1>2, Sent
        <3> HIDE DEF latest
        <3> QED
            BY <1>5, <2>1, <3>1, <3>2, <3>3, StatusComputed
    <2>3. CASE ~(latest # 0 /\ supps[latest].status = "SUBMITTED")
        <3>1. SupplementalSave(r, TRUE, "DRAFT", supps[s].sales, supps[s].rows, {})
            BY <1>9, <2>3 DEF ReturnSupplemental
        <3>2. r \in Reports
            BY <1>1, <1>9
        <3> HIDE DEF r, latest
        <3> QED
            BY <1>2, <1>3, <1>4, <2>1, <3>1, <3>2, SupplementalSaveComputed
    <2> QED
        BY <2>2, <2>3
<1>10. ASSUME NEW s \in Supps, Made(s), NEW status \in {"RETURNED", "RECOMMENDED", "ASSESSED"},
              DirectorDecides(s, status)
       PROVE  SuppsComputed' /\ Adjustable' /\ Unchanged
    <2> DEFINE r == supps[s].report
               changes == ReassessmentReductions(r, supps[s].rows, supps[s].sales)
    <2>1. SupplementalSave(r, TRUE, status, supps[s].sales, supps[s].rows, changes) /\ Unchanged
        BY <1>10 DEF DirectorDecides
    <2>2. r \in Reports /\ Assessed(r)
        BY <1>1, <1>10
    <2>3. AreChanges(changes)
        BY <1>3, <2>2, ChangesTyped
    <2> HIDE DEF r, changes
    <2> QED
        BY <1>2, <1>3, <2>1, <2>2, <2>3, SupplementalSaveComputed
<1>11. SuppsComputed' /\ Adjustable' /\ Unchanged
    BY <1>6, <1>7, <1>8, <1>9, <1>10 DEF SupplementalStep, Made
<1>12. RowsComputed' /\ Movable'
    BY <1>11 DEF Unchanged, creditVars, ReportsTyped, Computed, RowsComputed, Movable
<1> QED
    BY <1>11, <1>12 DEF Computed

-----------------------------------------------------------------------------
\* The types, for every number of reports

LEMMA ComputedInitially ==
    ASSUME Init
    PROVE  Computed
<1>1. RowsComputed
    BY DEF Init, ReportsInit, RowsComputed, RowsOk, NoReport
<1>2. Adjustable
    BY NoBalanceTyped DEF Init, ReportsInit, Adjustable
<1>3. Movable
    BY CreditsAssumption, NoBalanceTyped DEF Init, ReportsInit, Movable
<1>4. SuppOk(NoSupp)
    <2>1. IsActivity(NoActivity)
        BY NoBalanceTyped DEF IsActivity, NoActivity, IsPart
    <2>2. NoSupp.report = 0 /\ NoSupp.link = 0 /\ NoSupp.sales = 0 /\ NoSupp.rows = NoActivity
        BY DEF NoSupp
    <2> QED
        BY <2>1, <2>2, SupplementalsAssumption DEF SuppOk
<1>5. SuppsComputed
    BY <1>4 DEF Init, SuppsComputed
<1> QED
    BY <1>1, <1>2, <1>3, <1>5 DEF Computed

LEMMA ComputedKept ==
    ASSUME Shape, Computed, [Next]_vars
    PROVE  Computed'
<1>1. ReportsTyped /\ OfAssessed
    BY DEF Shape, ReportsTyped
<1>2. CASE UNCHANGED vars
    BY <1>2 DEF vars, reportVars, assessedVars, creditVars, suppVars, Computed, RowsComputed,
                Adjustable, Movable, SuppsComputed
<1> QED
    BY <1>1, <1>2, ReportStepComputed, EnvironmentComputed, SupplementalStepComputed DEF Next

\* What the pages saved and the requests adjusted are numbers of the right kind,
\* and rows are there for every report that left the draft.
THEOREM EverythingComputed == Spec => [](Shape /\ Computed)
BY ComputedInitially, ComputedKept, ShapeInitially, ShapeKept, PTL DEF Spec

\* The type invariant, for any years, reports and supplemental reports.
THEOREM ComplianceTypes == Spec => []TypeOK
<1>1. ASSUME Shape, Computed PROVE TypeOK
    <2>1. \A r \in Reports : report[r] \in ReportRecords
        BY <1>1 DEF Shape, ReportsShape
    <2>2. posted \in [Reports -> [Kinds -> Balances]] /\ deficits \in Balances /\ orgSales \in [Years -> Nat]
        BY <1>1, NoBalanceTyped DEF Computed, Adjustable
    <2>3. credits \in [Years -> Balances] /\ pending \in Balances
        BY <1>1, NoBalanceTyped DEF Computed, Movable
    <2>4. \A s \in Supps : IsSupp(supps[s]) /\ SuppOk(supps[s])
        BY <1>1 DEF Shape, SuppsShape, Computed, SuppsComputed
    <2>5. \A s \in Supps :
              /\ supps[s].report \in Reports \union {0} /\ supps[s].link \in 0 .. MaxSupplementals
              /\ supps[s].status \in Statuses \union {"REMOVED", "DELETED"}
              /\ supps[s].rows.ending \in Balances
        BY <2>4 DEF IsSupp, SuppOk, IsActivity, SuppStatuses
    <2>6. log \in Seq([supp : Supps, status : Statuses \union {"DELETED"}, gov : BOOLEAN])
        <3>1. log \in Seq(Entries)
            BY <1>1 DEF Shape, SuppsShape
        <3>2. Entries \subseteq [supp : Supps, status : Statuses \union {"DELETED"}, gov : BOOLEAN]
            BY DEF Entries, SentStatuses
        <3> DEFINE shown == [supp : Supps, status : Statuses \union {"DELETED"}, gov : BOOLEAN]
        <3>3. Entries \subseteq shown
            BY <3>2
        <3> HIDE DEF shown
        <3>4. log \in [1 .. Len(log) -> Entries] /\ Len(log) \in Nat
            BY <3>1
        <3>5. log \in [1 .. Len(log) -> shown]
            BY <3>3, <3>4
        <3>6. log \in Seq(shown)
            BY <3>4, <3>5
        <3> QED
            BY <3>6 DEF shown
    <2> QED
        BY <2>1, <2>2, <2>3, <2>5, <2>6 DEF TypeOK, ReportRecords
<1> QED
    BY <1>1, EverythingComputed, PTL


-----------------------------------------------------------------------------
\* What saved rows account for

LEMMA SavedRowsAreSaved ==
    ASSUME ReportsShape, RowsComputed, NEW saved \in SavedRows
    PROVE  \E year \in Years : IsSaved(saved, year)
<1>1. PICK r \in Reports, by \in {"supplier", "gov"} : saved = rows[r][by] /\ rows[r][by].saved
    BY DEF SavedRows
<1>2. report[r].year \in Years
    BY RecordOf DEF ReportRecords
<1>3. saved = NoRows \/ IsSaved(saved, report[r].year)
    BY <1>1 DEF RowsComputed, RowsOk
<1>4. saved # NoRows
    BY <1>1 DEF NoRows
<1> QED
    BY <1>2, <1>3, <1>4

\* What is outstanding is worth what is carried over and the new deficit.
LEMMA OutstandingWorth ==
    ASSUME NEW year \in Years, NEW saved, IsSaved(saved, year)
    PROVE  /\ Worth(saved.result.carried) \in Int
           /\ saved.result.deficit["A"] \in Nat /\ saved.result.deficit["B"] \in Nat
           /\ Worth(Outstanding(saved))
              = Worth(saved.result.carried) + saved.result.deficit["A"] + saved.result.deficit["B"]
<1> DEFINE carried == saved.result.carried
           deficit == saved.result.deficit
           own == [y \in Years |-> [c \in Classes |-> IF y = year THEN deficit[c] ELSE 0]]
<1>1. carried \in Balances /\ deficit \in [Classes -> Nat]
    <2>1. Reduced(Available(saved.basis), saved.basis.owed, saved.due["A"], saved.due["B"],
                  saved.selection, saved.result)
        BY SavedIs
    <2> QED
        BY <2>1, NoBalanceTyped DEF Reduced, ReductionTypes
<1>2. own \in Balances /\ \A y \in Years, c \in Classes : own[y][c] = IF y = year THEN deficit[c] ELSE 0
    BY <1>1 DEF Balances
<1>3. Outstanding(saved) = Plus(carried, own)
    <2>1. saved.year = year
        BY SavedIs
    <2> QED
        BY <1>2, <2>1 DEF Outstanding, Plus
<1>4. "A" \in Classes /\ "B" \in Classes
    BY DEF Classes
<1> HIDE DEF own, carried, deficit
<1>5. ASSUME NEW c \in Classes PROVE Total(Column(own, c)) = deficit[c] /\ deficit[c] \in Nat
    <2>1. Column(own, c) \in Amounts /\ \A y \in Years : Column(own, c)[y] = own[y][c]
        BY <1>2, ColumnType
    <2>2. Total(Column(own, c)) = Column(own, c)[year]
        BY <1>2, <2>1, TotalOne
    <2> QED
        BY <1>1, <1>2, <2>1, <2>2
<1>6. Worth(own) = deficit["A"] + deficit["B"]
    BY <1>4, <1>5 DEF Worth
<1>7. Worth(Plus(carried, own)) = Worth(carried) + Worth(own) /\ Worth(carried) \in Int
    BY <1>1, <1>2, WorthIs
<1>8. deficit["A"] \in Nat /\ deficit["B"] \in Nat
    BY <1>4, <1>5
<1>9. Worth(Plus(carried, own)) = Worth(carried) + deficit["A"] + deficit["B"]
    BY <1>6, <1>7, <1>8
<1> QED
    BY <1>3, <1>7, <1>8, <1>9 DEF carried, deficit

\* No row that a page saves loses a credit or a debt.
THEOREM NothingLost == Spec => []ObligationAccounted
<1>1. ASSUME ReportsShape, RowsComputed PROVE ObligationAccounted
    <2> SUFFICES ASSUME NEW saved \in SavedRows, saved.selection # "none"
                 PROVE  Worth(Available(saved.basis)) - Worth(saved.basis.owed)
                            - saved.due["A"] - saved.due["B"]
                        = Worth(saved.result.ending) - Worth(Outstanding(saved))
        BY DEF ObligationAccounted
    <2>1. PICK year \in Years : IsSaved(saved, year)
        BY <1>1, SavedRowsAreSaved
    <2>2. Reduced(Available(saved.basis), saved.basis.owed, saved.due["A"], saved.due["B"],
                  saved.selection, saved.result)
        BY <2>1, SavedIs
    <2>3. Worth(Available(saved.basis)) - Worth(saved.basis.owed) - saved.due["A"] - saved.due["B"]
          = Worth(saved.result.ending) - Worth(saved.result.carried)
              - saved.result.deficit["A"] - saved.result.deficit["B"]
        BY <2>2 DEF Reduced
    <2>4. /\ Worth(saved.result.carried) \in Int
          /\ saved.result.deficit["A"] \in Nat /\ saved.result.deficit["B"] \in Nat
          /\ Worth(Outstanding(saved))
             = Worth(saved.result.carried) + saved.result.deficit["A"] + saved.result.deficit["B"]
        BY <2>1, OutstandingWorth
    <2>5. Worth(saved.result.ending) \in Int
        <3>1. saved.result.ending \in Balances
            BY <2>2 DEF Reduced, ReductionTypes
        <3> QED
            BY <3>1, WorthIs
    <2> QED
        BY <2>3, <2>4, <2>5
<1> QED
    BY <1>1, EverythingComputed, PTL DEF Shape, Computed

\* What a row without negative amounts looks like.
LEMMA CleanRow ==
    ASSUME NEW year \in Years, NEW saved, IsSaved(saved, year), NotNegative(Available(saved.basis))
    PROVE  LET r == saved.result
               available == Available(saved.basis)
           IN  /\ \A y \in Years, c \in Classes :
                     /\ r.ending[y][c] \in Nat /\ r.unspecified[y][c] \in Nat /\ r.offset[y][c] \in Nat
                     /\ available[y][c] \in Int /\ r.classA[y] \in Nat
                     /\ r.ending[y][c] = available[y][c] - r.offset[y][c]
                                         - (IF c = "A" THEN r.classA[y] ELSE 0) - r.unspecified[y][c]
               /\ \A y \in Years : r.carried[y]["A"] > 0 \/ r.deficit["A"] > 0 =>
                     \A z \in Years : r.ending[z]["A"] = 0
               /\ \A y \in Years : r.carried[y]["B"] > 0 \/ r.deficit["B"] > 0 =>
                     \A z \in Years, c \in Classes : r.ending[z][c] = 0
               /\ \A y, z \in Years : y < z =>
                     /\ r.classA[z] > 0 => r.ending[y]["A"] = 0
                     /\ \A c \in Classes : r.unspecified[z][c] > 0 => r.ending[y][c] = 0
<1> DEFINE r == saved.result
           available == Available(saved.basis)
<1>1. /\ available \in Balances
      /\ Reduced(available, saved.basis.owed, saved.due["A"], saved.due["B"], saved.selection, r)
    BY SavedIs
<1> HIDE DEF r, available
<1>2. NotNegative(available)
    BY DEF available
<1>3. /\ r.classA \in [Years -> Nat] /\ r.unspecified \in Balances /\ r.ending \in Balances
      /\ r.offset \in Balances
    BY <1>1 DEF Reduced, ReductionTypes
<1>4. \A y \in Years, c \in Classes :
          /\ 0 <= r.ending[y][c] /\ 0 <= r.unspecified[y][c] /\ 0 <= r.offset[y][c]
          /\ r.ending[y][c] = available[y][c] - r.offset[y][c]
                              - (IF c = "A" THEN r.classA[y] ELSE 0) - r.unspecified[y][c]
    BY <1>1, <1>2 DEF Reduced
<1>5. \A y \in Years, c \in Classes :
          /\ r.ending[y][c] \in Nat /\ r.unspecified[y][c] \in Nat /\ r.offset[y][c] \in Nat
          /\ available[y][c] \in Int /\ r.classA[y] \in Nat
    BY <1>1, <1>3, <1>4 DEF Balances
<1>6. /\ \A y \in Years : r.carried[y]["A"] > 0 \/ r.deficit["A"] > 0 =>
            \A z \in Years : r.ending[z]["A"] = 0
      /\ \A y \in Years : r.carried[y]["B"] > 0 \/ r.deficit["B"] > 0 =>
            \A z \in Years, c \in Classes : r.ending[z][c] = 0
      /\ \A y, z \in Years : y < z =>
            /\ r.classA[z] > 0 => r.ending[y]["A"] = 0
            /\ \A c \in Classes : r.unspecified[z][c] > 0 => r.ending[y][c] = 0
    BY <1>1, <1>2 DEF Reduced
<1> QED
    BY <1>4, <1>5, <1>6 DEF r, available

\* Where a supplier has nothing negative, its oldest credits are taken first.
THEOREM OldestCreditsFirst == Spec => []OldestFirst
<1>1. ASSUME ReportsShape, RowsComputed PROVE OldestFirst
    <2> SUFFICES ASSUME NEW saved \in SavedRows, NotNegative(Available(saved.basis)),
                        NEW y \in Years, NEW z \in Years, y < z
                 PROVE  /\ saved.result.classA[z] > 0 => saved.result.ending[y]["A"] <= 0
                        /\ \A c \in Classes : saved.result.unspecified[z][c] > 0 =>
                               saved.result.ending[y][c] <= 0
        BY DEF OldestFirst
    <2>1. PICK year \in Years : IsSaved(saved, year)
        BY <1>1, SavedRowsAreSaved
    <2>2. /\ saved.result.classA[z] > 0 => saved.result.ending[y]["A"] = 0
          /\ \A c \in Classes : saved.result.unspecified[z][c] > 0 => saved.result.ending[y][c] = 0
        BY <2>1, CleanRow
    <2> QED
        BY <2>2
<1> QED
    BY <1>1, EverythingComputed, PTL DEF Shape, Computed

\* Where a supplier has nothing negative, no deficit is left beside credits that
\* could settle it.
THEOREM DeficitsSettledFirst == Spec => []NoCreditsBesideDeficit
<1>1. ASSUME ReportsShape, RowsComputed PROVE NoCreditsBesideDeficit
    <2> SUFFICES ASSUME NEW saved \in SavedRows, NotNegative(Available(saved.basis)),
                        NEW y \in Years, NEW z \in Years
                 PROVE  /\ Outstanding(saved)[y]["A"] > 0 => saved.result.ending[z]["A"] <= 0
                        /\ Outstanding(saved)[y]["B"] > 0 =>
                               \A c \in Classes : saved.result.ending[z][c] <= 0
        BY DEF NoCreditsBesideDeficit
    <2>1. PICK year \in Years : IsSaved(saved, year)
        BY <1>1, SavedRowsAreSaved
    <2>2. \A c \in Classes :
              Outstanding(saved)[y][c] > 0 => saved.result.carried[y][c] > 0 \/ saved.result.deficit[c] > 0
        BY <2>1, OutstandingTyped
    <2>3. /\ saved.result.carried[y]["A"] > 0 \/ saved.result.deficit["A"] > 0 =>
                 saved.result.ending[z]["A"] = 0
          /\ saved.result.carried[y]["B"] > 0 \/ saved.result.deficit["B"] > 0 =>
                 \A c \in Classes : saved.result.ending[z][c] = 0
        BY <2>1, CleanRow
    <2>4. "A" \in Classes /\ "B" \in Classes
        BY DEF Classes
    <2> QED
        BY <2>2, <2>3, <2>4
<1> QED
    BY <1>1, EverythingComputed, PTL DEF Shape, Computed

\* The summary adds up to what the page of the obligation lists.
THEOREM PagesAgree == Spec => []SummaryAgrees
<1>1. ASSUME ReportsShape, RowsComputed PROVE SummaryAgrees
    <2> SUFFICES ASSUME NEW saved \in SavedRows, NotNegative(Available(saved.basis)),
                        \A y \in Years, c \in Classes : saved.basis.start[y][c] = 0 \/ saved.basis.owed[y][c] = 0
                 PROVE  SummaryBalance(saved) = Listing(saved)
        BY DEF SummaryAgrees, Apart
    <2> DEFINE b == saved.basis
               spent == saved.result
               kept == {y \in Years : \E c \in Classes : spent.ending[y][c] > 0}
               added(y, c) == PositivePart(Minus(b.start, b.owed))[y][c] + b.activity[y][c] + b.pending[y][c]
                              - spent.offset[y][c] - spent.unspecified[y][c]
                              - (IF c = "A" THEN spent.classA[y] ELSE 0) - Outstanding(saved)[y][c]
               listed(y, c) == (IF y \in kept THEN spent.ending[y][c] ELSE 0) - Outstanding(saved)[y][c]
    <2>1. PICK year \in Years : IsSaved(saved, year)
        BY <1>1, SavedRowsAreSaved
    <2>2. /\ b.start \in Balances /\ b.owed \in Balances /\ b.activity \in Balances /\ b.pending \in Balances
          /\ \A y \in Years, c \in Classes : b.start[y][c] >= 0 /\ b.owed[y][c] >= 0
        <3>1. b \in Bases
            BY <2>1, SavedIs
        <3> QED
            BY <3>1 DEF Bases, Debts
    <2>3. ASSUME NEW y \in Years, NEW c \in Classes PROVE added(y, c) = listed(y, c)
        <3>1. /\ b.start[y][c] \in Int /\ b.owed[y][c] \in Int /\ b.activity[y][c] \in Int
              /\ b.pending[y][c] \in Int /\ b.start[y][c] >= 0 /\ b.owed[y][c] >= 0
              /\ b.start[y][c] = 0 \/ b.owed[y][c] = 0
            BY <2>2 DEF Balances
        <3>2. PositivePart(Minus(b.start, b.owed))[y][c]
              = IF b.start[y][c] - b.owed[y][c] > 0 THEN b.start[y][c] - b.owed[y][c] ELSE 0
            BY DEF PositivePart, Minus
        <3>3. PositivePart(Minus(b.start, b.owed))[y][c] = b.start[y][c]
            BY <3>1, <3>2
        <3>4. Available(b)[y][c] = b.start[y][c] + b.activity[y][c] + b.pending[y][c]
            BY DEF Available, Plus
        <3>5. /\ spent.ending[y][c] \in Nat /\ spent.unspecified[y][c] \in Nat /\ spent.offset[y][c] \in Nat
              /\ spent.classA[y] \in Nat
              /\ spent.ending[y][c] = Available(b)[y][c] - spent.offset[y][c]
                                      - (IF c = "A" THEN spent.classA[y] ELSE 0) - spent.unspecified[y][c]
            BY <2>1, CleanRow
        <3>6. Outstanding(saved)[y][c] \in Int
            BY <2>1, OutstandingTyped DEF Balances
        <3>7. y \notin kept => spent.ending[y][c] = 0
            BY <3>5
        <3>8. listed(y, c) = spent.ending[y][c] - Outstanding(saved)[y][c]
            BY <3>7
        <3> HIDE DEF b, spent, kept, listed
        <3> QED
            BY <3>1, <3>3, <3>4, <3>5, <3>6, <3>8
    <2>4. SummaryBalance(saved) = [c \in Classes |-> Total([y \in Years |-> added(y, c)])]
        BY DEF SummaryBalance
    <2>5. Listing(saved) = [c \in Classes |-> Total([y \in Years |-> listed(y, c)])]
        BY DEF Listing
    <2> HIDE DEF added, listed
    <2>6. \A c \in Classes : [y \in Years |-> added(y, c)] = [y \in Years |-> listed(y, c)]
        BY <2>3
    <2> QED
        BY <2>4, <2>5, <2>6
<1> QED
    BY <1>1, EverythingComputed, PTL DEF Shape, Computed


-----------------------------------------------------------------------------
\* What the ledger holds

\* What was taken of the credits of year y and class c for a report, and for the
\* report of a period.
TakenFor(r, y, c) ==
    posted[r]["offset"][y][c] + posted[r]["classA"][y][c]
        + posted[r]["unspecified"][y][c] + posted[r]["added"][y][c]
SpentIn(p, y, c) ==
    LET of == {r \in Existing : report[r].year = p}
    IN  IF of = {} THEN 0 ELSE TakenFor(Oldest(of), y, c)
LeftIn(p, y, c) == credits[p][y][c] - SpentIn(p, y, c)
UpTo(year, y, c) == [p \in Years |-> IF p <= year THEN LeftIn(p, y, c) ELSE 0]

LEMMA LedgerIs ==
    ASSUME NEW year
    PROVE  Ledger(year) = [y \in Years |-> [c \in Classes |-> Total(UpTo(year, y, c))]]
BY Zenon DEF Ledger, UpTo, LeftIn, SpentIn, TakenFor

\* A report behind which nothing moved had what it started with and what its period
\* brought, none of it negative, and its period is charged with what was taken for it.
LEMMA UndisturbedBasis ==
    ASSUME ReportsTyped, NEW r \in Existing, Assessed(r), Undisturbed(r)
    PROVE  LET b == RowsOfRecord(r).basis
               year == report[r].year
           IN  /\ r \in Reports /\ year \in Years /\ IsSaved(RowsOfRecord(r), year)
               /\ b \in Bases /\ NotNegative(Available(b))
               /\ \A y \in Years, c \in Classes :
                     /\ b.start[y][c] \in Nat /\ credits[year][y][c] \in Nat
                     /\ Available(b)[y][c] = b.start[y][c] + credits[year][y][c]
                     /\ SpentIn(year, y, c) = TakenFor(r, y, c)
<1> DEFINE saved == RowsOfRecord(r)
           year == report[r].year
           b == saved.basis
<1>1. r \in Reports /\ report[r].status = "ASSESSED"
    BY DEF Assessed, Existing
<1>2. IsSaved(saved, year) /\ year \in Years
    BY <1>1, RecordIsSaved
<1>3. b.pending = NoBalance /\ b.activity = credits[year] /\ b.activity = PositivePart(b.activity)
    BY DEF Undisturbed
<1>4. {q \in Existing : report[q].year = year} = {r}
    BY DEF Undisturbed, OnlyOfItsYear
<1>5. Oldest({r}) = r
    <2>1. r \in Nat
        BY <1>1, ReportsAssumption
    <2> QED
        BY <2>1 DEF Oldest
<1>6. \A y \in Years, c \in Classes : SpentIn(year, y, c) = TakenFor(r, y, c)
    BY <1>4, <1>5 DEF SpentIn
<1> HIDE DEF saved
<1>7. b \in Bases
    BY <1>2, SavedIs
<1>8. \A y \in Years, c \in Classes :
          /\ b.start[y][c] \in Nat /\ b.activity[y][c] \in Nat /\ b.pending[y][c] = 0
    <2>1. b.start \in Debts /\ b.activity \in Balances
        BY <1>7 DEF Bases
    <2>2. \A y \in Years, c \in Classes : b.start[y][c] \in Nat /\ b.activity[y][c] \in Int
        BY <2>1 DEF Debts, Balances
    <2>3. \A y \in Years, c \in Classes : b.activity[y][c] >= 0
        <3>1. PositivePart(b.activity) \in Debts
            BY <2>1, BalanceSums
        <3>2. b.activity \in Debts
            BY <1>3, <3>1
        <3> QED
            BY <3>2 DEF Debts
    <2> QED
        BY <1>3, <2>2, <2>3, NoBalanceTyped
<1>9. \A y \in Years, c \in Classes : Available(b)[y][c] = b.start[y][c] + b.activity[y][c]
    <2>1. \A y \in Years, c \in Classes :
              Available(b)[y][c] = b.start[y][c] + b.activity[y][c] + b.pending[y][c]
        BY DEF Available, Plus
    <2> QED
        BY <1>8, <2>1
<1>10. NotNegative(Available(b))
    BY <1>8, <1>9 DEF NotNegative
<1> QED
    BY <1>1, <1>2, <1>3, <1>6, <1>7, <1>8, <1>9, <1>10 DEF saved

\* A regular report ends with what it started with and what its period brought, less
\* what was taken for it.
LEMMA RegularEnds ==
    ASSUME ReportsTyped, PostedIsAssessed, NEW r \in Existing, Regular(r)
    PROVE  LET saved == RowsOfRecord(r)
               year == report[r].year
           IN  /\ year \in Years /\ IsSaved(saved, year)
               /\ saved.result.ending \in Balances /\ saved.basis.start \in Balances
               /\ \A y \in Years, c \in Classes :
                     /\ SpentIn(year, y, c) \in Int /\ LeftIn(year, y, c) \in Int
                     /\ saved.result.ending[y][c] = saved.basis.start[y][c] + LeftIn(year, y, c)
<1> DEFINE saved == RowsOfRecord(r)
           year == report[r].year
           b == saved.basis
<1>1. Assessed(r) /\ ~Reassessed(r) /\ Undisturbed(r)
    BY DEF Regular
<1>2. /\ r \in Reports /\ year \in Years /\ IsSaved(saved, year) /\ b \in Bases
      /\ NotNegative(Available(b))
      /\ \A y \in Years, c \in Classes :
            /\ b.start[y][c] \in Nat /\ credits[year][y][c] \in Nat
            /\ Available(b)[y][c] = b.start[y][c] + credits[year][y][c]
            /\ SpentIn(year, y, c) = TakenFor(r, y, c)
    BY <1>1, UndisturbedBasis
<1>3. posted[r] = Taken(saved)
    BY <1>1, <1>2 DEF PostedIsAssessed
<1> HIDE DEF saved
<1>4. ASSUME NEW y \in Years, NEW c \in Classes
      PROVE  /\ SpentIn(year, y, c) \in Int /\ LeftIn(year, y, c) \in Int
             /\ saved.result.ending[y][c] = b.start[y][c] + LeftIn(year, y, c)
    <2> DEFINE res == saved.result
    <2>1. /\ res.ending[y][c] \in Nat /\ res.unspecified[y][c] \in Nat /\ res.offset[y][c] \in Nat
          /\ Available(b)[y][c] \in Int /\ res.classA[y] \in Nat
          /\ res.ending[y][c] = Available(b)[y][c] - res.offset[y][c]
                                - (IF c = "A" THEN res.classA[y] ELSE 0) - res.unspecified[y][c]
        BY <1>2, CleanRow
    <2>2. /\ posted[r]["offset"] = res.offset /\ posted[r]["classA"] = WithColumn(NoBalance, "A", res.classA)
          /\ posted[r]["unspecified"] = PositivePart(res.unspecified) /\ posted[r]["added"] = NoBalance
        BY <1>3 DEF Taken, Kinds
    <2>3. WithColumn(NoBalance, "A", res.classA)[y][c] = IF c = "A" THEN res.classA[y] ELSE 0
        BY DEF WithColumn, NoBalance, Classes
    <2>4. PositivePart(res.unspecified)[y][c] = res.unspecified[y][c]
        BY <2>1 DEF PositivePart
    <2>5. NoBalance[y][c] = 0
        BY DEF NoBalance
    <2> HIDE DEF res
    <2>6. TakenFor(r, y, c) = res.offset[y][c] + (IF c = "A" THEN res.classA[y] ELSE 0) + res.unspecified[y][c]
        BY <2>1, <2>2, <2>3, <2>4, <2>5 DEF TakenFor
    <2>7. LeftIn(year, y, c) = credits[year][y][c] - SpentIn(year, y, c)
        BY DEF LeftIn
    <2>8. /\ b.start[y][c] \in Nat /\ credits[year][y][c] \in Nat
          /\ Available(b)[y][c] = b.start[y][c] + credits[year][y][c]
          /\ SpentIn(year, y, c) = TakenFor(r, y, c)
        BY <1>2
    <2>9. res.ending[y][c] = b.start[y][c] + LeftIn(year, y, c) /\ SpentIn(year, y, c) \in Int
          /\ LeftIn(year, y, c) \in Int
        <3> HIDE DEF b, year
        <3> QED
            BY <2>1, <2>6, <2>7, <2>8
    <2> QED
        BY <2>9 DEF res
<1>5. saved.result.ending \in Balances /\ b.start \in Balances
    <2>1. Reduced(Available(saved.basis), saved.basis.owed, saved.due["A"], saved.due["B"],
                  saved.selection, saved.result)
        BY <1>2, SavedIs
    <2> QED
        BY <1>2, <2>1, NoBalanceTyped DEF Reduced, ReductionTypes, Bases
<1> QED
    BY <1>2, <1>4, <1>5 DEF saved

\* What is left up to a year is what is left up to the year before and in it.
LEMMA UpToGrows ==
    ASSUME NEW year \in Years, NEW y \in Years, NEW c \in Classes,
           \A p \in Years : p <= year => LeftIn(p, y, c) \in Int
    PROVE  /\ Total(UpTo(FirstYear, y, c)) = LeftIn(FirstYear, y, c)
           /\ year - 1 \in Years =>
                  Total(UpTo(year, y, c)) = Total(UpTo(year - 1, y, c)) + LeftIn(year, y, c)
           /\ Total(UpTo(year, y, c)) \in Int
           /\ year - 1 \in Years => Total(UpTo(year - 1, y, c)) \in Int
<1>1. \A n \in {year, year - 1, FirstYear} :
          UpTo(n, y, c) \in Amounts
          /\ \A p \in Years : UpTo(n, y, c)[p] = IF p <= n THEN LeftIn(p, y, c) ELSE 0
    BY YearsFacts DEF UpTo, Amounts
<1>2. Total(UpTo(FirstYear, y, c)) = LeftIn(FirstYear, y, c)
    <2>1. \A p \in Years : p # FirstYear => UpTo(FirstYear, y, c)[p] = 0
        BY <1>1, YearsFacts
    <2>2. Total(UpTo(FirstYear, y, c)) = UpTo(FirstYear, y, c)[FirstYear]
        BY <1>1, <2>1, YearsFacts, TotalOne
    <2> QED
        BY <1>1, <2>2, YearsFacts
<1>3. ASSUME year - 1 \in Years
      PROVE  Total(UpTo(year, y, c)) = Total(UpTo(year - 1, y, c)) + LeftIn(year, y, c)
    <2> DEFINE own == [p \in Years |-> IF p = year THEN LeftIn(year, y, c) ELSE 0]
    <2>1. /\ own \in Amounts /\ \A p \in Years : p # year => own[p] = 0
          /\ own[year] = LeftIn(year, y, c)
        BY YearsFacts DEF Amounts
    <2> HIDE DEF own
    <2>2. Total(own) = LeftIn(year, y, c)
        BY <2>1, TotalOne
    <2>3. ASSUME NEW p \in Years PROVE UpTo(year, y, c)[p] = UpTo(year - 1, y, c)[p] + own[p]
        <3>1. p \in Int /\ year \in Int /\ (p <= year => LeftIn(p, y, c) \in Int)
            BY YearsFacts
        <3>2. CASE p = year
            BY <1>1, <2>1, <3>1, <3>2
        <3>3. CASE p < year
            BY <1>1, <2>1, <3>1, <3>3
        <3>4. CASE p > year
            BY <1>1, <2>1, <3>1, <3>4
        <3> QED
            BY <3>1, <3>2, <3>3, <3>4
    <2>4. Total(UpTo(year, y, c)) = Total(UpTo(year - 1, y, c)) + Total(own)
        BY <1>1, <2>1, <2>3, TotalPlus
    <2> QED
        BY <2>2, <2>4
<1> QED
    BY <1>1, <1>2, <1>3, TotalType

LEMMA LedgerGrows ==
    ASSUME ReportsTyped, PostedIsAssessed, NEW year \in Years, NEW y \in Years, NEW c \in Classes,
           \A q \in Existing : report[q].year <= year => Regular(q)
    PROVE  /\ \A p \in Years : p <= year => LeftIn(p, y, c) \in Int
           /\ Total(UpTo(FirstYear, y, c)) = LeftIn(FirstYear, y, c)
           /\ year - 1 \in Years =>
                  Total(UpTo(year, y, c)) = Total(UpTo(year - 1, y, c)) + LeftIn(year, y, c)
           /\ Total(UpTo(year, y, c)) \in Int
           /\ year - 1 \in Years => Total(UpTo(year - 1, y, c)) \in Int
<1>1. ASSUME NEW p \in Years, p <= year PROVE LeftIn(p, y, c) \in Int
    <2>1. credits[p][y][c] \in Int
        BY DEF ReportsTyped, Computed, Movable, Balances
    <2>2. CASE {q \in Existing : report[q].year = p} = {}
        BY <2>1, <2>2 DEF LeftIn, SpentIn
    <2>3. CASE {q \in Existing : report[q].year = p} # {}
        <3>1. PICK q \in Existing : report[q].year = p
            BY <2>3
        <3>2. Regular(q)
            BY <1>1, <3>1
        <3> QED
            BY <3>1, <3>2, RegularEnds
    <2> QED
        BY <2>2, <2>3
<1> QED
    BY <1>1, UpToGrows

\* What an assessed report ends with is what the ledger then holds.
THEOREM CreditsAreThere == Spec => []LedgerMatchesEnding
<1>1. ASSUME Shape, Computed, PostedIsAssessed PROVE LedgerMatchesEnding
    <2> DEFINE AllRegular(year) == \A q \in Existing : report[q].year <= year => Regular(q)
               Matches(r) == Ledger(report[r].year) = RowsOfRecord(r).result.ending
               S == {year \in Years : \A r \in Existing :
                        report[r].year = year /\ AllRegular(year) => Matches(r)}
    <2>1. ReportsTyped
        BY <1>1 DEF ReportsTyped, Shape
    <2>2. \A r \in Existing : report[r].year \in Years /\ report[r].year \in Int
        <3> TAKE r \in Existing
        <3>1. r \in Reports /\ ReportsShape
            BY <2>1 DEF ReportsTyped, Existing
        <3>2. report[r] \in ReportRecords
            BY <3>1, RecordOf
        <3>3. report[r].year \in Years
            BY <3>2 DEF ReportRecords
        <3>4. \A y \in Years : y \in Int
            BY YearsFacts
        <3> QED
            BY <3>3, <3>4
    <2>3. ASSUME NEW r \in Existing, AllRegular(report[r].year)
          PROVE  Regular(r)
        BY <2>2, <2>3
    <2>4. ASSUME NEW r \in Existing, AllRegular(report[r].year),
                 \A y \in Years, c \in Classes :
                     Total(UpTo(report[r].year, y, c))
                     = RowsOfRecord(r).basis.start[y][c] + LeftIn(report[r].year, y, c)
          PROVE  Matches(r)
        <3>1. RowsOfRecord(r).result.ending \in Balances
              /\ \A y \in Years, c \in Classes :
                    RowsOfRecord(r).result.ending[y][c]
                    = RowsOfRecord(r).basis.start[y][c] + LeftIn(report[r].year, y, c)
            BY <1>1, <2>1, <2>3, <2>4, RegularEnds
        <3>2. \A y \in Years, c \in Classes :
                  Total(UpTo(report[r].year, y, c)) = RowsOfRecord(r).result.ending[y][c]
            BY <2>4, <3>1
        <3>3. RowsOfRecord(r).result.ending
              = [y \in Years |-> [c \in Classes |-> RowsOfRecord(r).result.ending[y][c]]]
            BY <3>1 DEF Balances
        <3> QED
            BY <3>2, <3>3, LedgerIs
    <2>5. FirstYear \in S
        <3> SUFFICES ASSUME NEW r \in Existing, report[r].year = FirstYear, AllRegular(FirstYear)
                     PROVE  Matches(r)
            BY YearsFacts
        <3>1. /\ RowsOfRecord(r).basis.start = NoBalance
              /\ \A y \in Years, c \in Classes : LeftIn(FirstYear, y, c) \in Int
            BY <1>1, <2>1, <2>3, RegularEnds, SavedIs
        <3>2. \A y \in Years, c \in Classes : Total(UpTo(FirstYear, y, c)) = LeftIn(FirstYear, y, c)
            BY <1>1, <2>1, YearsFacts, LedgerGrows
        <3>3. \A y \in Years, c \in Classes :
                  Total(UpTo(FirstYear, y, c))
                  = RowsOfRecord(r).basis.start[y][c] + LeftIn(FirstYear, y, c)
            BY <3>1, <3>2, NoBalanceTyped
        <3> QED
            BY <2>4, <3>3
    <2>6. ASSUME NEW year \in Years, year \in S, year + 1 \in Years PROVE year + 1 \in S
        <3> SUFFICES ASSUME NEW r \in Existing, report[r].year = year + 1, AllRegular(year + 1)
                     PROVE  Matches(r)
            BY <2>6
        <3>1. year \in Int /\ (year + 1) - 1 = year /\ year + 1 # FirstYear
            BY <2>6, YearsFacts
        <3>2. PICK p \in Previous(r) : RowsOfRecord(r).basis.start = RowsOfRecord(p).result.ending
            BY <2>3, <3>1 DEF Regular, Undisturbed
        <3>3. p \in Existing /\ report[p].year = year
            BY <3>1, <3>2 DEF Previous
        <3>4. AllRegular(year)
            BY <2>2, <3>1
        <3>5. Ledger(year) = RowsOfRecord(r).basis.start
            BY <2>6, <3>2, <3>3, <3>4
        <3>6. \A y \in Years, c \in Classes : Total(UpTo(year, y, c)) = RowsOfRecord(r).basis.start[y][c]
            BY <3>5, LedgerIs
        <3>7. \A y \in Years, c \in Classes :
                  Total(UpTo(year + 1, y, c)) = Total(UpTo(year, y, c)) + LeftIn(year + 1, y, c)
            <4> HIDE DEF S
            <4> TAKE y \in Years, c \in Classes
            <4> QED
                BY <1>1, <2>1, <2>6, <3>1, LedgerGrows
        <3>8. \A y \in Years, c \in Classes :
                  Total(UpTo(year + 1, y, c))
                  = RowsOfRecord(r).basis.start[y][c] + LeftIn(year + 1, y, c)
            BY <3>6, <3>7
        <3> QED
            BY <2>4, <3>8
    <2>7. Years \subseteq S
        <3> HIDE DEF S, AllRegular, Matches
        <3>1. \A y \in Years : y \in S /\ y + 1 \in Years => y + 1 \in S
            BY <2>6
        <3> QED
            BY <2>5, <3>1, YearInduction, Zenon
    <2>8. ASSUME NEW r \in Existing, AllRegular(report[r].year) PROVE Matches(r)
        BY <2>2, <2>7, <2>8
    <2> QED
        BY <2>8 DEF LedgerMatchesEnding
<1> QED
    BY <1>1, EverythingComputed, ReductionsPosted, PTL


-----------------------------------------------------------------------------
\* What is owed is on record

\* What a page loads of the deficits is recorded somewhere, or less is loaded.
OwedOnRecord(owed) == \A y \in Years, c \in Classes : \E n \in Recorded(y, c) : owed[y][c] <= n
FreshRows(r) ==
    \A by \in {"supplier", "gov"} : \/ rows'[r][by] \in {NoRows, rows[r][by]}
                                    \/ OwedOnRecord(rows'[r][by].basis.owed)

\* Nothing owed is on record, for the deficits of the supplier are not negative.
LEMMA NothingOnRecord ==
    ASSUME ReportsTyped
    PROVE  OwedOnRecord(NoBalance)
<1>1. \A y \in Years, c \in Classes : deficits[y][c] \in Recorded(y, c) /\ 0 <= deficits[y][c]
    BY DEF ReportsTyped, Computed, Adjustable, Debts, Recorded
<1> QED
    BY <1>1, NoBalanceTyped DEF OwedOnRecord

\* The rows that are saved are on record, with what they load and what they leave.
LEMMA SavedOnRecord ==
    ASSUME ReportsTyped, NEW r \in Reports, NEW by \in {"supplier", "gov"}, rows[r][by] # NoRows
    PROVE  /\ OwedOnRecord(Outstanding(rows[r][by])) /\ OwedOnRecord(rows[r][by].basis.owed)
           /\ rows[r][by] \in SavedRows
<1> DEFINE given == rows[r][by]
<1>1. IsSaved(given, report[r].year) /\ report[r].year \in Years
    BY RowsOf DEF RowsOk
<1>2. given \in SavedRows
    <2>1. rows[r][by].saved = TRUE
        BY <1>1, SavedIs
    <2>2. by \in {k \in {"supplier", "gov"} : rows[r][k].saved}
        BY <2>1
    <2> QED
        BY <2>2 DEF SavedRows
<1>3. \A y \in Years, c \in Classes :
          /\ Outstanding(given)[y][c] \in Recorded(y, c) /\ given.basis.owed[y][c] \in Recorded(y, c)
    BY <1>2 DEF Recorded
<1>4. Outstanding(given) \in Balances /\ given.basis.owed \in Balances
    BY <1>1, OutstandingTyped, SavedIs, NoBalanceTyped DEF Bases
<1>5. \A y \in Years, c \in Classes : Outstanding(given)[y][c] \in Int /\ given.basis.owed[y][c] \in Int
    BY <1>4 DEF Balances
<1> HIDE DEF given
<1>6. \A n \in Int : n <= n
    OBVIOUS
<1>7. OwedOnRecord(Outstanding(given)) /\ OwedOnRecord(given.basis.owed)
    BY <1>3, <1>5, <1>6 DEF OwedOnRecord
<1> QED
    BY <1>2, <1>7 DEF given

LEMMA OpeningOnRecord ==
    ASSUME ReportsTyped, NEW r \in Reports
    PROVE  OwedOnRecord(Opening(r).owed)
<1>1. CASE \E p \in Previous(r) : rows[p].gov # NoRows
    <2> DEFINE first == CHOOSE p \in Previous(r) : TRUE
    <2>1. PICK p \in Previous(r) : rows[p].gov # NoRows
        BY <1>1
    <2>2. \A q \in Previous(r) : q = p
        <3> SUFFICES ASSUME NEW q \in Previous(r) PROVE q = p
            OBVIOUS
        <3>1. p \in Nat /\ q \in Nat /\ p <= q /\ q <= p
            BY ReportsAssumption DEF Previous, Existing
        <3> QED
            BY <3>1
    <2>3. first = p /\ p \in Reports
        BY <2>2 DEF Previous, Existing
    <2>4. Opening(r).owed = Outstanding(rows[first].gov)
        BY <1>1 DEF Opening
    <2> HIDE DEF first
    <2>5. OwedOnRecord(Outstanding(rows[p].gov))
        BY <2>1, <2>3, SavedOnRecord
    <2> QED
        BY <2>3, <2>4, <2>5
<1>2. CASE ~ \E p \in Previous(r) : rows[p].gov # NoRows
    <2>1. Opening(r).owed = deficits
        BY <1>2 DEF Opening
    <2>2. \A y \in Years, c \in Classes : deficits[y][c] \in Recorded(y, c) /\ deficits[y][c] \in Int
        BY DEF ReportsTyped, Computed, Adjustable, Debts, Balances, Recorded
    <2>3. \A n \in Int : n <= n
        OBVIOUS
    <2> QED
        BY <2>1, <2>2, <2>3 DEF OwedOnRecord
<1> QED
    BY <1>1, <1>2

LEMMA BothOpeningsOnRecord ==
    ASSUME ReportsTyped, NEW r \in Reports
    PROVE  OwedOnRecord(SupplierOpening(r).owed) /\ OwedOnRecord(GovOpening(r).owed)
<1>1. \A s : StartsWith(s).owed = NoBalance
    BY DEF StartsWith
<1>2. /\ SupplierOpening(r).owed \in {NoBalance, Opening(r).owed}
      /\ GovOpening(r).owed \in {NoBalance, Opening(r).owed}
    BY <1>1 DEF SupplierOpening, GovOpening
<1> QED
    BY <1>2, NothingOnRecord, OpeningOnRecord

LEMMA FreshRowsSaved ==
    ASSUME ReportsTyped, NEW r \in Reports, ReportStep(r, SupplierOpening(r), GovOpening(r))
    PROVE  FreshRows(r)
<1>1. \A opening : Basis(r, opening).owed = opening.owed
    BY DEF Basis
<1>2. \A year, basis, selection, sales :
          /\ SupplierRows(year, basis, selection, sales).basis = basis
          /\ GovRows(year, basis, selection, sales).basis = basis
    BY DEF SupplierRows, GovRows, Saved
<1>3. PICK a, b : rows[r] = [supplier |-> a, gov |-> b]
    BY RowsOf DEF IsRows
<1>4. CASE rows' = rows
    BY <1>4 DEF FreshRows
<1>5. ASSUME NEW sales \in SalesToEnter(r), NEW selection \in SelectionsToMake(r), NEW confirm \in BOOLEAN,
             SaveObligation(r, sales, selection, confirm, SupplierOpening(r))
      PROVE  FreshRows(r)
    <2> DEFINE given == SupplierRows(report[r].year, Basis(r, SupplierOpening(r)), selection, sales)
    <2>1. rows'[r] = [supplier |-> given, gov |-> NoRows]
        BY <1>5, RowsOf DEF SaveObligation, IsFunctionOn
    <2>2. given.basis.owed = SupplierOpening(r).owed
        BY <1>1, <1>2
    <2> HIDE DEF given
    <2>3. rows'[r].supplier = given /\ rows'[r].gov = NoRows
        BY <2>1
    <2> QED
        BY <2>2, <2>3, BothOpeningsOnRecord DEF FreshRows
<1>6. CASE Delete(r)
    <2>1. rows'[r] = [supplier |-> NoRows, gov |-> NoRows]
        BY <1>6, RowsOf DEF Delete, IsFunctionOn
    <2>2. rows'[r].supplier = NoRows /\ rows'[r].gov = NoRows
        BY <2>1
    <2> QED
        BY <2>2 DEF FreshRows
<1>7. ASSUME NEW given, rows' = [rows EXCEPT ![r].gov = given], OwedOnRecord(given.basis.owed)
      PROVE  FreshRows(r)
    <2>1. rows'[r] = [rows[r] EXCEPT !.gov = given]
        BY <1>7, RowsOf DEF IsFunctionOn
    <2>2. rows'[r].supplier = rows[r].supplier /\ rows'[r].gov = given
        BY <1>3, <2>1
    <2> QED
        BY <1>7, <2>2 DEF FreshRows
<1>8. ASSUME NEW saved \in BOOLEAN, Recommend(r, saved, GovOpening(r)) PROVE FreshRows(r)
    <2> DEFINE given == GovRows(report[r].year, Basis(r, GovOpening(r)), report[r].selection,
                                GovSales(report[r]))
    <2>1. rows' = rows \/ rows' = [rows EXCEPT ![r].gov = given]
        BY <1>8 DEF Recommend, AssessmentPage
    <2>2. OwedOnRecord(given.basis.owed)
        <3>1. given.basis.owed = GovOpening(r).owed
            BY <1>1, <1>2
        <3> QED
            BY <3>1, BothOpeningsOnRecord
    <2> HIDE DEF given
    <2> QED
        BY <1>4, <1>7, <2>1, <2>2
<1>9. CASE DirectorSave(r)
    <2> DEFINE given == GovRows(report[r].year, rows[r].supplier.basis, report[r].selection,
                                GovSales(report[r]))
    <2>1. rows' = [rows EXCEPT ![r].gov = given]
        BY <1>9 DEF DirectorSave
    <2>2. given.basis = rows[r].supplier.basis
        BY <1>2
    <2> HIDE DEF given
    <2>3. rows[r].supplier # NoRows
        BY <1>9, RowsOf DEF DirectorSave, DirectorMay, RowsOk
    <2>4. OwedOnRecord(rows[r].supplier.basis.owed)
        BY <2>3, SavedOnRecord
    <2> QED
        BY <1>7, <2>1, <2>2, <2>4
<1>10. ASSUME \/ Create(r) \/ Submit(r) \/ ReturnToAnalyst(r) \/ Assess(r)
              \/ \E part \in OtherParts : ConfirmPart(r, part)
              \/ \E part \in Parts : CancelConfirmation(r, part)
              \/ \E sales \in LdvSales : EditAssessment(r, sales)
              \/ \E draftFirst \in BOOLEAN : ReturnToSupplier(r, draftFirst)
       PROVE  rows' = rows
    BY <1>10 DEF Create, Submit, ReturnToAnalyst, Assess, ConfirmPart, CancelConfirmation,
        EditAssessment, ReturnToSupplier
<1> QED
    BY <1>4, <1>5, <1>6, <1>8, <1>9, <1>10 DEF ReportStep

\* Saved rows leave no more of a deficit than they loaded, and what is due.
LEMMA LeavesNoMore ==
    ASSUME NEW year \in Years, NEW saved, IsSaved(saved, year), NotNegative(Available(saved.basis)),
           NEW y \in Years, NEW c \in Classes
    PROVE  /\ Outstanding(saved)[y][c]
                <= saved.basis.owed[y][c] + IF y = saved.year THEN saved.due[c] ELSE 0
           /\ saved.basis.owed[y][c] \in Int /\ saved.due[c] \in Int /\ Outstanding(saved)[y][c] \in Int
<1>1. /\ saved.year = year /\ saved.due["A"] \in Nat /\ saved.due["B"] \in Nat
      /\ Reduced(Available(saved.basis), saved.basis.owed, saved.due["A"], saved.due["B"],
                 saved.selection, saved.result)
      /\ saved.basis.owed \in Balances
    BY SavedIs, NoBalanceTyped DEF Bases
<1>2. /\ saved.result.carried[y][c] <= saved.basis.owed[y][c]
      /\ saved.result.deficit["A"] <= saved.due["A"] /\ saved.result.deficit["B"] <= saved.due["B"]
    BY <1>1 DEF Reduced
<1>3. saved.result.deficit[c] <= saved.due[c] /\ saved.due[c] \in Nat
    BY <1>1, <1>2 DEF Classes
<1>4. /\ saved.result.carried[y][c] \in Nat /\ saved.result.deficit[c] \in Nat
      /\ Outstanding(saved)[y][c]
         = saved.result.carried[y][c] + IF y = year THEN saved.result.deficit[c] ELSE 0
    BY OutstandingTyped
<1>5. saved.basis.owed[y][c] \in Int
    BY <1>1 DEF Balances
<1> QED
    BY <1>1, <1>2, <1>3, <1>4, <1>5

LEMMA DeficitsCountedOnceStep ==
    ASSUME ReportsTyped, ReportsShape', RowsComputed', NEW r \in Reports, FreshRows(r),
           \A q \in Reports : q # r => rows'[q] = rows[q],
           NEW saved \in SavedRows' \ SavedRows, NotNegative(Available(saved.basis)),
           NEW y \in Years, NEW c \in Classes
    PROVE  \E n \in Recorded(y, c) :
               Outstanding(saved)[y][c] <= n + IF y = saved.year THEN saved.due[c] ELSE 0
<1>1. PICK q \in Reports, by \in {"supplier", "gov"} : saved = rows'[q][by] /\ rows'[q][by].saved
    BY DEF SavedRows
<1>2. report'[q].year \in Years
    BY DEF ReportsShape, ReportRecords
<1>3. saved # NoRows
    BY <1>1 DEF NoRows
<1>4. IsSaved(saved, report'[q].year)
    BY <1>1, <1>3 DEF RowsComputed, RowsOk
<1>5. rows'[q][by] # rows[q][by]
    <2> SUFFICES ASSUME rows'[q][by] = rows[q][by] PROVE FALSE
        OBVIOUS
    <2>1. rows[q][by] # NoRows
        BY <1>1, <1>3
    <2> QED
        BY <1>1, <2>1, SavedOnRecord
<1>6. OwedOnRecord(saved.basis.owed)
    BY <1>1, <1>3, <1>5 DEF FreshRows
<1>7. PICK n \in Recorded(y, c) : saved.basis.owed[y][c] <= n
    BY <1>6 DEF OwedOnRecord
<1>8. n \in Int
    <2>1. deficits[y][c] \in Int
        BY DEF ReportsTyped, Computed, Adjustable, Debts, Balances
    <2>2. ASSUME NEW given \in SavedRows
          PROVE  Outstanding(given)[y][c] \in Int /\ given.basis.owed[y][c] \in Int
        <3>1. PICK year \in Years : IsSaved(given, year)
            BY SavedRowsAreSaved DEF ReportsTyped, Computed
        <3>2. Outstanding(given) \in Balances /\ given.basis.owed \in Balances
            BY <3>1, OutstandingTyped, SavedIs, NoBalanceTyped DEF Bases
        <3> QED
            BY <3>2 DEF Balances
    <2> QED
        BY <2>1, <2>2 DEF Recorded
<1>9. /\ Outstanding(saved)[y][c]
           <= saved.basis.owed[y][c] + IF y = saved.year THEN saved.due[c] ELSE 0
      /\ saved.basis.owed[y][c] \in Int /\ saved.due[c] \in Int /\ Outstanding(saved)[y][c] \in Int
    BY <1>2, <1>4, LeavesNoMore
<1>10. Outstanding(saved)[y][c] <= n + IF y = saved.year THEN saved.due[c] ELSE 0
    BY <1>7, <1>8, <1>9
<1> QED
    BY <1>10

\* However reports are filled in, deleted and assessed, rows that are saved leave
\* no more of a deficit than is on record and due.
THEOREM NoDeficitTwice == Spec => DeficitsCountedOnce
<1>1. ASSUME Shape, Computed, Shape', Computed', [Next]_vars
      PROVE  [\A saved \in SavedRows' \ SavedRows : NotNegative(Available(saved.basis)) =>
                 \A y \in Years, c \in Classes : \E n \in Recorded(y, c) :
                     Outstanding(saved)[y][c] <= n + IF y = saved.year THEN saved.due[c] ELSE 0]_rows
    <2>1. ReportsTyped /\ ReportsShape' /\ RowsComputed'
        BY <1>1 DEF ReportsTyped, Shape, Computed
    <2>2. CASE \E r \in Reports : ReportStep(r, SupplierOpening(r), GovOpening(r)) /\ UNCHANGED suppVars
        <3>1. PICK r \in Reports : ReportStep(r, SupplierOpening(r), GovOpening(r)) /\ UNCHANGED suppVars
            BY <2>2
        <3>2. FreshRows(r)
            BY <2>1, <3>1, FreshRowsSaved
        <3>3. \A q \in Reports : q # r => rows'[q] = rows[q]
            BY <2>1, <3>1, ReportStepEffect DEF ReportsTyped, ReportEffect
        <3>4. \A saved \in SavedRows' \ SavedRows : NotNegative(Available(saved.basis)) =>
                  \A y \in Years, c \in Classes : \E n \in Recorded(y, c) :
                      Outstanding(saved)[y][c] <= n + IF y = saved.year THEN saved.due[c] ELSE 0
            BY <2>1, <3>2, <3>3, DeficitsCountedOnceStep
        <3> QED
            BY <3>4
    <2>3. CASE Environment \/ SupplementalStep \/ UNCHANGED vars
        <3>1. CASE Environment
            BY <3>1 DEF Environment, Post, SubmitApplication, DecideApplication
        <3>2. CASE SupplementalStep
            BY <1>1, <3>2, SupplementalStepEffect DEF OfSupplemental
        <3>3. CASE UNCHANGED vars
            BY <3>3 DEF vars, reportVars
        <3> QED
            BY <2>3, <3>1, <3>2, <3>3
    <2> QED
        BY <1>1, <2>2, <2>3 DEF Next
<1> QED
    BY <1>1, EverythingComputed, PTL DEF Spec, DeficitsCountedOnce
=============================================================================
