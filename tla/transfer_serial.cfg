\* One worker, pages that show the stored status.
CONSTANTS
    acme = acme
    volt = volt
    a23 = a23
    b23 = b23
    Organizations = {acme, volt}
    Keys = {a23, b23}
    Transfers = {t1, t2}
    Contents <- TwoKeyContents
    Workers = {w1}
    Opening <- TwoKeyOpening
    FreshPages = TRUE
    LedgerBound = 4
SPECIFICATION HistorySpec
SYMMETRY TransferSymmetry
INVARIANTS NoNegativeBalance LedgerAgreesWithStatus BothSigned SignedAsShown NoticeRemembered
PROPERTY LedgerSpec
CHECK_DEADLOCK FALSE
