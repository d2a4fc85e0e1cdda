SPECIFICATION Spec
CONSTANTS
    FirstYear = 2020
    LastYear = 2021
    ComplianceRatio <- MCRatio
    ZevClassA <- MCClassA
    SupplierClass = "L"
    Reports = {1, 2}
    LdvSales = {10, 20}
    UsualSales = 10
    UsualSelection = "B"
    OtherParts = {"consumer_sales"}
    InitialCredits <- MCInitialCredits
    PostedCredits <- MCPosted
    Applications <- MCApplications
    MaxSupplementals = 2
    MaxDetours = 2
INVARIANTS
    TypeOK
    ObligationAccounted
    OldestFirst
    NoCreditsBesideDeficit
    SummaryAgrees
    PostedIsAssessed
    DeficitsOfOneAssessment
    LedgerMatchesEnding
    ReassessedLedger
    LatestAssessedIsLast
    ReassessmentAnswers
    BalancePageAgrees
PROPERTIES
    DeficitsCountedOnce
    AssessedIsFinal
    AdjustedOnlyByAssessment
    IssuedStaysIssued
CHECK_DEADLOCK FALSE
