CONSTANTS
    Txn = {t1, t2}
    Pages = {p1, p2}
    NoTxn = NoTxn
    MaxPages = 1
    MaxOps = 3
    MaxCrashes = 1

SPECIFICATION Spec
SYMMETRY TxnSymmetry
CHECK_DEADLOCK FALSE

INVARIANT TypeOK
INVARIANT LockCompatible
 
PROPERTY AbortErasesTxn
PROPERTY RecoveryUndoesLosers
