\* Two workers (gunicorn.cfg.py), pages that may show any earlier status.
CONSTANTS
    acme = acme
    volt = volt
    a23 = a23
    b23 = b23
    Organizations = {acme, volt}
    Keys = {a23}
    Transfers = {t1}
    Contents <- OneKeyContents
    Workers = {w1, w2}
    Opening <- OneKeyOpening
    FreshPages = FALSE
    LedgerBound = 1
SPECIFICATION Spec
SYMMETRY WorkerSymmetry
VIEW Unsigned
INVARIANTS SingleNoticeCovered ValidatedWasRecorded
CHECK_DEADLOCK FALSE
