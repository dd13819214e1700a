----------------------------- MODULE IntHistogram -----------------------------
(***************************************************************************)
(* IntHistogram of src/godb/int_histogram.go: NewIntHistogram, then        *)
(* AddValue calls, with EstimateSelectivity as an operator over the state. *)
(*                                                                         *)
(* int64 is modelled as a Width-bit two's-complement integer: every        *)
(* addition, subtraction and product of the Go code wraps (Wrap), and      *)
(* division truncates toward zero (GoDiv).  A selectivity, a float64 in    *)
(* the code, is the exact fraction [num, den] the float approximates; den  *)
(* = 0 is the NaN of 0.0 / 0.0.                                            *)
(***************************************************************************)
EXTENDS Integers, FiniteSets
LOCAL INSTANCE FiniteSetsExt

CONSTANTS
    Width,    \* bits of the modelled int64
    MaxBins,  \* bound: the largest nBins passed
    MaxN      \* bound: AddValue calls

Lo == -(2^(Width - 1))
Hi == 2^(Width - 1) - 1
Int64 == Lo..Hi

\* int64 arithmetic: wrap into Width bits; division truncates toward zero.
Wrap(x) == ((x - Lo) % 2^Width) + Lo
Abs(x) == IF x < 0 THEN -x ELSE x
GoDiv(a, b) == IF (a >= 0) = (b > 0) THEN Abs(a) \div Abs(b) ELSE -(Abs(a) \div Abs(b))

\* The predicates of BoolOp that EstimateSelectivity handles.
Ops == {"OpGt", "OpLt", "OpGe", "OpLe", "OpEq", "OpLike", "OpNeq"}

VARIABLES
    nBins, vMin, vMax,   \* the arguments of NewIntHistogram
    failed,              \* NewIntHistogram returned an error
    bins,                \* h.bins: bin index (0-based) -> count
    n,                   \* h.n
    outside              \* some value added lay outside [vMin, vMax]

hvars == <<nBins, vMin, vMax, failed, bins, n, outside>>

\* h.binWidth
BinWidth == Max({1, GoDiv(Wrap(Wrap(vMax - vMin) + 1), nBins)})

(***************************************************************************)
(* NewIntHistogram(nBins, vMin, vMax): an error for nBins <= 0 or vMin >   *)
(* vMax; otherwise nBins empty bins.                                       *)
(***************************************************************************)
Init ==
    /\ nBins \in 0..MaxBins
    /\ vMin \in Int64 /\ vMax \in Int64
    /\ failed = (nBins <= 0 \/ vMin > vMax)
    /\ bins = [i \in 0..nBins - 1 |-> 0]
    /\ n = 0
    /\ outside = FALSE

\* h.bin(v): (v - min) / binWidth, clamped to [0, len(bins) - 1].
bin(v) == Max({0, Min({GoDiv(Wrap(v - vMin), BinWidth), nBins - 1})})

\* h.AddValue(v)
AddValue ==
    \E v \in Int64 :
        /\ ~failed /\ n < MaxN
        /\ bins' = [bins EXCEPT ![bin(v)] = @ + 1]
        /\ n' = n + 1
        /\ outside' = (outside \/ v \notin vMin..vMax)
        /\ UNCHANGED <<nBins, vMin, vMax, failed>>

Next == AddValue

Spec == Init /\ [][Next]_hvars

(***************************************************************************)
(* h.EstimateSelectivity(op, v).  The interval [sumMin, sumMax] of op;     *)
(* 0 when it is empty, 1 when it covers [min, max]; otherwise the sum over *)
(* the bins from bin(sumMin) to bin(sumMax) of count * |[lo, hi]| / width, *)
(* where [lo, hi] is the interval cut from the bin's [binL, binH], over n. *)
(***************************************************************************)
Interval(op, v) ==
    CASE op = "OpGt"           -> <<Wrap(v + 1), vMax>>
      [] op = "OpLt"           -> <<vMin, Wrap(v - 1)>>
      [] op = "OpGe"           -> <<v, vMax>>
      [] op = "OpLe"           -> <<vMin, v>>
      [] op \in {"OpEq", "OpLike"} -> <<v, v>>

\* A plausible bug: binH without the - 1, so a bin reaches into the next.
BinShareNoMinusOne(i, sMin, sMax) ==
    LET binL == Wrap(vMin + Wrap(BinWidth * i))
        binH == Wrap(vMin + Wrap(BinWidth * (i + 1)))
        lo == Max({sMin, binL})
        hi == Min({sMax, binH})
    IN  IF lo <= hi THEN bins[i] * Wrap(Wrap(hi - lo) + 1) ELSE 0

\* The part of bin i inside [sMin, sMax], as the count it contributes
\* times binWidth.
BinShare(i, sMin, sMax) ==
    LET binL == Wrap(vMin + Wrap(BinWidth * i))
        binH == Wrap(Wrap(vMin + Wrap(BinWidth * (i + 1))) - 1)
        lo == Max({sMin, binL})
        hi == Min({sMax, binH})
    IN  IF lo <= hi THEN bins[i] * Wrap(Wrap(hi - lo) + 1) ELSE 0

\* A plausible bug: the loop stops before the bin of sumMax.
SumBinsBeforeLast(sMin, sMax) ==
    LET R == bin(sMin)..(bin(sMax) - 1)
    IN  IF R = {} THEN 0 ELSE SumSet({BinShare(i, sMin, sMax) : i \in R})

SumBins(sMin, sMax) ==
    LET R == bin(sMin)..bin(sMax)
    IN  IF R = {} THEN 0 ELSE SumSet({BinShare(i, sMin, sMax) : i \in R})

EqSelectivity(v) ==
    LET I == Interval("OpEq", v) IN
    CASE I[1] > I[2]                     -> [num |-> 0, den |-> 1]
      [] I[1] <= vMin /\ I[2] >= vMax    -> [num |-> 1, den |-> 1]
      [] OTHER -> [num |-> SumBins(I[1], I[2]), den |-> BinWidth * n]

EstimateSelectivity(op, v) ==
    IF op = "OpNeq"
    THEN LET e == EqSelectivity(v) IN
         IF e.den = 0 THEN e ELSE [num |-> e.den - e.num, den |-> e.den]
    ELSE LET I == Interval(op, v) IN
         CASE I[1] > I[2]                  -> [num |-> 0, den |-> 1]
           [] I[1] <= vMin /\ I[2] >= vMax -> [num |-> 1, den |-> 1]
           [] OTHER -> [num |-> SumBins(I[1], I[2]), den |-> BinWidth * n]

(***************************************************************************)
(* Properties.                                                             *)
(***************************************************************************)
TypeOK ==
    /\ nBins \in 0..MaxBins /\ vMin \in Int64 /\ vMax \in Int64
    /\ failed \in BOOLEAN /\ n \in 0..MaxN /\ outside \in BOOLEAN
    /\ bins \in [0..nBins - 1 -> 0..MaxN]

\* A selectivity as a multiple of 1 / (binWidth * n) (den is 1 or that).
Scaled(s) == s.num * ((BinWidth * n) \div s.den)

\* The sum of the OpEq selectivities of all the values in [vmin, vmax].
EqTotalIsOne ==
    MapThenSumSet(LAMBDA v : Scaled(EqSelectivity(v)), vMin..vMax) = BinWidth * n

\* Spec section 8 invariant 7, for a histogram fed values of its range
\* (as a table scan that took vmin and vmax from the column does): the
\* OpEq selectivities of all the values in [vmin, vmax] sum to 1, however
\* the range divides into bins (a tail of fewer than binWidth values is
\* clamped into the last bin, and bins past vmax are left empty).
EqSelectivitiesSumToOne ==
    (~failed /\ n > 0 /\ ~outside) => EqTotalIsOne

\* Spec section 8 invariant 7 as section 4.H words it, for any values
\* added: out-of-range values "accumulate in the extreme bins" and still
\* count towards the total.
EqSelectivitiesSumToOneWithOutliers ==
    (~failed /\ n > 0) => EqTotalIsOne

\* Every estimate is a fraction in [0, 1].
SelectivityInUnitInterval ==
    (~failed /\ n > 0) =>
        \A op \in Ops, v \in Int64 :
            LET s == EstimateSelectivity(op, v) IN 0 <= s.num /\ s.num <= s.den

\* A predicate and its negation partition the values: the estimates of
\* v <= x and v > x (and of v < x and v >= x) add up to 1.
ComplementsSumToOne ==
    (~failed /\ n > 0) =>
        \A x \in Int64 :
            /\ Scaled(EstimateSelectivity("OpLe", x)) + Scaled(EstimateSelectivity("OpGt", x))
                 = BinWidth * n
            /\ Scaled(EstimateSelectivity("OpLt", x)) + Scaled(EstimateSelectivity("OpGe", x))
                 = BinWidth * n

\* EstimateSelectivity returns a number for every predicate, also before
\* any value was added (the histogram of an empty column).
SelectivityDefined ==
    ~failed => \A op \in Ops, v \in Int64 : EstimateSelectivity(op, v).den # 0
=============================================================================
