\* Two workers, up-to-date pages, one notice and one agreement.
CONSTANTS
    acme = acme
    volt = volt
    a23 = a23
    Organizations = {acme, volt}
    Keys = {a23}
    Workers = {w1, w2}
    Opening <- OneEach
    FreshPages = TRUE
    Transfers = {t1}
    Contents <- One
    LedgerBound = 1
    Agreements = {g1}
    Adjustments <- One
    Types = {"reduction", "allocation"}
    SavesFinish = FALSE
    UploadBound = 0
    PostingBound = 1
SPECIFICATION Spec
SYMMETRY AllSymmetry
VIEW Unsigned
INVARIANT NegativeOnlyByReductions
CHECK_DEADLOCK FALSE
