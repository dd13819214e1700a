---------------------------- MODULE MCSequential ----------------------------
(***************************************************************************)
(* One model for the components that run in one goroutine and share no    *)
(* state: KSubsetIter (SubsetIter), the join planner (JoinOptimizer), the *)
(* IntHistogram and the query operators (QueryOps).  A behaviour runs the *)
(* component that active names from its initial states while the others   *)
(* rest in one initial state each, so the state spaces add up instead of   *)
(* multiplying.                                                            *)
(***************************************************************************)
EXTENDS Integers, Sequences, TLC

CONSTANTS
    SIMaxN,                          \* SubsetIter: the largest n
    A, B, C, D, E, F,                \* JoinOptimizer: table names
    Tables, JoinBufferSize, MaxJoins, Nil,
    Width, MaxBins, HMaxN,           \* IntHistogram: int bits, nBins, AddValue calls
    Vals, Bad, CErr, MaxLen, Ops, EvalErrOps, BufSizes, Limits   \* QueryOps

VARIABLES
    active,                          \* the component this behaviour runs
    siN, siK, siFailed, c, first, siDone, prev, seen, repeated,
    joins, heap, cache, i, todo, plan, pc,
    nBins, vMin, vMax, hFailed, bins, hN, outside,
    op, left, right, prm, st, out, res

\* maxBufferSize -1 (no bound), 1 and 2; LIMIT -1 (no limit) to 2.
MCBufSizes == {-1, 1, 2}
MCLimits == {-1, 0, 1, 2}

\* Table statistics that differ between tables, so that orientation and
\* order change the cost of a plan.
JOCard == (A :> 1) @@ (B :> 3) @@ (C :> 4) @@ (D :> 2) @@ (E :> 5) @@ (F :> 1)
JOScanCost == (A :> 3) @@ (B :> 1) @@ (C :> 2) @@ (D :> 1) @@ (E :> 2) @@ (F :> 3)

SI == INSTANCE SubsetIter WITH n <- siN, k <- siK, failed <- siFailed, done <- siDone,
                               MaxN <- SIMaxN
JO == INSTANCE JoinOptimizer WITH Card <- JOCard, ScanCost <- JOScanCost
H  == INSTANCE IntHistogram WITH failed <- hFailed, n <- hN, MaxN <- HMaxN
QO == INSTANCE QueryOps

siVars == <<siN, siK, siFailed, c, first, siDone, prev, seen, repeated>>
joVars == <<joins, heap, cache, i, todo, plan, pc>>
hVars  == <<nBins, vMin, vMax, hFailed, bins, hN, outside>>
qVars  == <<op, left, right, prm, st, out, res>>
vars   == <<active, siVars, joVars, hVars, qVars>>

Components == {"subsets", "planner", "histogram", "operators"}

\* The initial state each idle component rests in: KSubsetIter(0, -1) and
\* NewIntHistogram(0, 0, 0) return errors, the planner is given one
\* predicate, and a Filter over an empty child has returned nil.
SIIdle == SI!Init /\ siN = 0 /\ siK = -1
JOIdle == JO!Init /\ joins = <<[l |-> A, r |-> B]>>
HIdle  == H!Init /\ nBins = 0 /\ vMin = 0 /\ vMax = 0
QOIdle == /\ op = "filter" /\ left = <<>> /\ right = <<>> /\ prm = QO!NoPrm
          /\ st = QO!InitLocals /\ out = <<>> /\ res = "nil"

Init ==
    /\ active \in Components
    /\ IF active = "subsets"   THEN SI!Init ELSE SIIdle
    /\ IF active = "planner"   THEN JO!Init ELSE JOIdle
    /\ IF active = "histogram" THEN H!Init  ELSE HIdle
    /\ IF active = "operators" THEN QO!Init ELSE QOIdle

\* A step of the active component, the others unchanged.
SIStep == active = "subsets"   /\ UNCHANGED <<active, joVars, hVars, qVars>> /\ SI!Next
JOStep == active = "planner"   /\ UNCHANGED <<active, siVars, hVars, qVars>> /\ JO!Next
HStep  == active = "histogram" /\ UNCHANGED <<active, siVars, joVars, qVars>> /\ H!Next
QOStep == active = "operators" /\ UNCHANGED <<active, siVars, joVars, hVars>> /\ QO!Next

Next == SIStep \/ JOStep \/ HStep \/ QOStep

\* The closures are called until they return nil (SubsetIter, QueryOps).
\* AddValue is called as often as its caller likes, so it has no fairness;
\* no property checked here is about OrderJoins ending, so its loop is
\* given none either.
Spec == Init /\ [][Next]_vars /\ WF_vars(SIStep) /\ WF_vars(QOStep)

(***************************************************************************)
(* The properties checked, each stated in its component's module.          *)
(***************************************************************************)
\* OrderJoins returns a cheapest legal left-deep plan, or nil if none exists.
PlanIsOptimal == JO!PlanIsOptimal
\* KSubsetIter returns every k-subset exactly once, increasing, then nil.
EmitsEachKSubsetOnce == SI!EmitsEachKSubsetOnce
\* Every sequence of calls of a KSubsetIter closure reaches nil.
Termination == SI!Termination
\* The OpEq selectivities of a histogram's range sum to 1.
EqSelectivitiesSumToOne == H!EqSelectivitiesSumToOne
\* Every selectivity estimate lies in [0, 1].
SelectivityInUnitInterval == H!SelectivityInUnitInterval
\* The block hash join returns each matching pair exactly once.
JoinIsEquiJoin == QO!JoinIsEquiJoin
\* Filter, Project and LimitOp return what their reference definitions say.
OperatorOutputs == QO!OperatorOutputs
\* An operator that ends with nil read no failing tuple.
ErrorsSurface == QO!ErrorsSurface
\* OrderBy's Less is a strict weak order, as sort.Sort requires.
LessIsStrictWeakOrder == QO!LessIsStrictWeakOrder
\* Every operator's calls reach nil or an error.
OperatorsTerminate == QO!OperatorsTerminate
=============================================================================
