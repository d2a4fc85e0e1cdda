----------------------------- MODULE MCCompliance -----------------------------
EXTENDS BalancePage
MCRatio == [y \in Years |-> IF y = 2020 THEN 950 ELSE 1200]
MCClassA == [y \in Years |-> IF y = 2020 THEN 600 ELSE 800]
\* By period and model year: too little of class A in the first year, credits of
\* both years in the second.
MCInitialCredits == {[p \in Years |-> [y \in Years |-> [c \in Classes |->
    CASE p = 2020 /\ y = 2020 -> IF c = "A" THEN 10 ELSE 50
      [] p = 2021 /\ y = 2020 -> IF c = "A" THEN 0 ELSE 40
      [] p = 2021 /\ y = 2021 -> IF c = "A" THEN 50 ELSE 40
      [] OTHER -> 0]]]}
MCPosted == {[period |-> 2020, year |-> 2020, class |-> "A", value |-> -150]}
MCApplications == {[year |-> 2020, class |-> "A", value |-> 60]}
=============================================================================
