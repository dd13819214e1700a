CONSTANTS
    Txn = {t1, t2, t3, t4}

SPECIFICATION Spec

INVARIANT DetectDeadlockIsCycle
