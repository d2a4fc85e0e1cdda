\* One worker, pages that show the stored status, saves that finish.
CONSTANTS
    acme = acme
    volt = volt
    a23 = a23
    b23 = b23
    Organizations = {acme, volt}
    Keys = {a23, b23}
    Agreements = {g1, g2}
    Contents <- TwoRows
    Types = {"reduction", "penalty", "allocation"}
    Workers = {w1}
    Opening <- TwoKeyOpening
    FreshPages = TRUE
    SavesFinish = TRUE
    UploadBound = 1
    PostingBound = 1
SPECIFICATION Spec
SYMMETRY AgreementSymmetry
INVARIANT LedgerAgreesWithStatus
PROPERTY LedgerSpec
CHECK_DEADLOCK FALSE
