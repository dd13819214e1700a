CONSTANTS
    A = A
    B = B
    C = C
    D = D
    E = E
    F = F
    Tables = {A, B, C, D, E, F}
    Card <- MCCardChain
    ScanCost <- MCScanCost
    JoinBufferSize = 2
    MaxJoins = 5
    Nil = Nil
    Inputs <- ChainJoins
SPECIFICATION Spec
CHECK_DEADLOCK FALSE
INVARIANT PlanIsJoinOrder
