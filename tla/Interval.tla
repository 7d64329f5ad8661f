------------------------------ MODULE Interval ------------------------------
(***************************************************************************)
(* The half-open interval [min, max) of app/qzap/common/utility/interval.h *)
(* and its operations.  An interval with min >= max is empty, and keeps    *)
(* whatever bounds it has.                                                 *)
(***************************************************************************)
EXTENDS Integers, Sequences

CONSTANTS Low, High   \* bounds: the least and the largest end

VARIABLES
    this,          \* the interval operated on
    last           \* ghost: the last operation, its operands and its results

vars == <<this, last>>

Intervals == [min : Int, max : Int]
Span(min, max) == [min |-> min, max |-> max]
Nothing == Span(0, 0)                     \* Interval()

Empty(i) == i.min >= i.max

Contains(i, t) == i.min <= t /\ i.max > t

ContainsAll(i, j) ==
    ~Empty(i) /\ ~Empty(j) /\ i.min <= j.min /\ i.max >= j.max

Intersects(i, j) ==
    ~Empty(i) /\ ~Empty(j) /\ i.min < j.max /\ i.max > j.min

Larger(a, b) == IF a > b THEN a ELSE b
Smaller(a, b) == IF a < b THEN a ELSE b

-----------------------------------------------------------------------------
(* What the operations leave in the interval, and what they return.        *)

\* The third argument of Intersects, where the intervals intersect.
Intersection(i, j) == Span(Larger(i.min, j.min), Smaller(i.max, j.max))

IntersectWith(i, j) == IF Empty(i) THEN i ELSE Intersection(i, j)

IntersectModifies(i, j) == ~Empty(i) /\ (j.min > i.min \/ j.max < i.max)

\* Variant: an empty interval is joined by its bounds.
SpanningUnionOfBounds(i, j) ==
    IF Empty(j)
    THEN i
    ELSE Span(Smaller(i.min, j.min), Larger(i.max, j.max))

SpanningUnion(i, j) ==
    CASE Empty(j) -> i
      [] ~Empty(j) /\ Empty(i) -> j
      [] ~Empty(j) /\ ~Empty(i) ->
           Span(Smaller(i.min, j.min), Larger(i.max, j.max))

UnionModifies(i, j) ==
    ~Empty(j) /\ (Empty(i) \/ j.min < i.min \/ j.max > i.max)

\* The parts of i below and above j, and whether the two intersect.
Difference(i, j) ==
    LET Result(lo, hi, ret) == [lo |-> lo, hi |-> hi, ret |-> ret] IN
    IF Empty(i) THEN Result(Nothing, Nothing, FALSE)
    ELSE IF Empty(j) THEN Result(i, Nothing, FALSE)
    ELSE IF i.min < j.max /\ i.min >= j.min /\ i.max > j.max
      THEN Result(Nothing, Span(j.max, i.max), TRUE)
    ELSE IF i.max > j.min /\ i.max <= j.max /\ i.min < j.min
      THEN Result(Span(i.min, j.min), Nothing, TRUE)
    ELSE IF i.min < j.min /\ i.max > j.max
      THEN Result(Span(i.min, j.min), Span(j.max, i.max), TRUE)
    ELSE IF i.min >= j.min /\ i.max <= j.max
      THEN Result(Nothing, Nothing, TRUE)
    ELSE Result(i, Nothing, FALSE)

-----------------------------------------------------------------------------
(* A program that operates on one interval.                                *)

Given == [min : Low..High, max : Low..High]

Done(op, arg, result, ret, lo, hi) ==
    /\ this' = result
    /\ last' = [op |-> op, before |-> this, arg |-> arg, ret |-> ret,
                lo |-> lo, hi |-> hi]

\* SetMin, SetMax, Set, Clear and CopyFrom.
Set(i) == this # i /\ Done("Set", i, i, TRUE, Nothing, Nothing)

DoIntersectWith(i) ==
    Done("IntersectWith", i, IntersectWith(this, i),
         IntersectModifies(this, i), Nothing, Nothing)

DoSpanningUnion(i) ==
    Done("SpanningUnion", i, SpanningUnion(this, i),
         UnionModifies(this, i), Nothing, Nothing)

DoDifference(i) ==
    LET d == Difference(this, i)
    IN  Done("Difference", i, this, d.ret, d.lo, d.hi)

Init ==
    /\ this = Nothing
    /\ last = [op |-> "Interval", before |-> Nothing, arg |-> Nothing,
               ret |-> TRUE, lo |-> Nothing, hi |-> Nothing]

Next ==
    \E i \in Given :
        Set(i) \/ DoIntersectWith(i) \/ DoSpanningUnion(i) \/ DoDifference(i)

Spec == Init /\ [][Next]_vars

-----------------------------------------------------------------------------
(* Properties.                                                             *)

Points == Low..High

\* IntersectWith leaves the points both intervals have, Difference those only
\* this has, in two parts of which the lower comes first; it returns false iff
\* the two have no point in common.  Empty intervals may have any bounds.
PointsAreExact ==
    LET i == last.before
        j == last.arg
    IN  /\ last.op = "IntersectWith" =>
             /\ \A t \in Points :
                  Contains(this, t) <=> Contains(i, t) /\ Contains(j, t)
             /\ last.ret <=> this # i
        /\ last.op = "Difference" =>
             /\ \A t \in Points :
                  /\ Contains(last.lo, t) \/ Contains(last.hi, t)
                       <=> Contains(i, t) /\ ~Contains(j, t)
                  /\ \A u \in Points :
                       Contains(last.lo, t) /\ Contains(last.hi, u) => t < u
             /\ last.ret <=> \E t \in Points : Contains(i, t) /\ Contains(j, t)

\* SpanningUnion leaves the smallest interval that contains both, returns
\* whether it has modified this, and never shrinks it.
UnionIsSmallest ==
    LET i == last.before
        j == last.arg
    IN  last.op = "SpanningUnion" =>
          /\ \A t \in Points :
               Contains(i, t) \/ Contains(j, t) => Contains(this, t)
          /\ \A k \in Given :
               /\ ~Empty(this)
               /\ Empty(i) \/ ContainsAll(k, i)
               /\ Empty(j) \/ ContainsAll(k, j)
               => ContainsAll(k, this)
          /\ last.ret <=> this # i
=============================================================================
