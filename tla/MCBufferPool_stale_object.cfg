CONSTANTS
    Txn = {t1, t2}
    Pages = {p1, p2}
    NoTxn = NoTxn
    MaxPages = 1
    MaxOps = 2
    MaxCrashes = 0

SPECIFICATION Spec
CHECK_DEADLOCK FALSE

INVARIANT NoStaleGrant
