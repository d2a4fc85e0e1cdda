\* Two workers, up-to-date pages, two notices of one seller that has credits
\* for one of them.
CONSTANTS
    acme = acme
    volt = volt
    a23 = a23
    b23 = b23
    Organizations = {acme, volt}
    Keys = {a23}
    Transfers = {t1, t2}
    Contents <- OneKeyContents
    Workers = {w1, w2}
    Opening <- SellerOpening
    FreshPages = TRUE
    LedgerBound = 2
SPECIFICATION Spec
SYMMETRY NoticeSymmetry
VIEW Unsigned
INVARIANT NoNegativeBalance
CHECK_DEADLOCK FALSE
