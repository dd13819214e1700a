CONSTANTS
    A = A
    B = B
    C = C
    D = D
    E = E
    F = F
    Tables = {A, B}
    JoinBufferSize = 2
    MaxJoins = 1
    Nil = Nil
    SIMaxN = 0
    Width = 2
    MaxBins = 1
    HMaxN = 1
    Vals = {1, 2}
    Bad = Bad
    CErr = CErr
    MaxLen = 2
    Ops = {"filter"}
    EvalErrOps = {"filter"}
    BufSizes <- MCBufSizes
    Limits <- MCLimits
SPECIFICATION Spec
CHECK_DEADLOCK FALSE
INVARIANT ErrorsSurface
