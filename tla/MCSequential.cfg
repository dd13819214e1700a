CONSTANTS
    A = A
    B = B
    C = C
    D = D
    E = E
    F = F
    Tables = {A, B, C, D}
    JoinBufferSize = 2
    MaxJoins = 3
    Nil = Nil
    SIMaxN = 5
    Width = 4
    MaxBins = 3
    HMaxN = 2
    Vals = {1, 2}
    Bad = Bad
    CErr = CErr
    MaxLen = 2
    Ops = {"join", "filter", "project", "orderby", "limit"}
    EvalErrOps = {"join", "project"}
    BufSizes <- MCBufSizes
    Limits <- MCLimits
SPECIFICATION Spec
CHECK_DEADLOCK FALSE
INVARIANT PlanIsOptimal
INVARIANT EmitsEachKSubsetOnce
INVARIANT EqSelectivitiesSumToOne
INVARIANT SelectivityInUnitInterval
INVARIANT JoinIsEquiJoin
INVARIANT OperatorOutputs
INVARIANT ErrorsSurface
INVARIANT LessIsStrictWeakOrder
PROPERTY Termination
PROPERTY OperatorsTerminate
