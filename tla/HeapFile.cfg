CONSTANTS
    Txn = {t1, t2}
    NoTxn = NoTxn
    Slots = 1
    InitPages = 1
    MaxInserts = 2
    MaxOps = 2
    Preds = {"all"}
SPECIFICATION Spec
INVARIANT TuplesKept ScanIsStable DeleteOpComplete
PROPERTY CallsReturn TwoPhaseLocking
CHECK_DEADLOCK FALSE
