-------------------------- MODULE BufferEstimator --------------------------
(***************************************************************************)
(* The arithmetic every buffered backend shares (core/BufferEstimator.cpp) *)
(* to decide how many points a device should hold and how many it still    *)
(* holds.  Point rates are points per second, times are milliseconds, and  *)
(* the elapsed time of an estimate enters as the points it accounts for.   *)
(***************************************************************************)
EXTENDS Integers

\* std::max, std::min and std::clamp on ints.
Larger(a, b) == IF a >= b THEN a ELSE b
Smaller(a, b) == IF a <= b THEN a ELSE b
Clamp(x, lo, hi) == Larger(lo, Smaller(x, hi))

\* rate * milliseconds / 1000, rounded half away from zero (llround).
PointsForTime(rate, millis) == (rate * millis + 500) \div 1000

\* How much of a snapshot is left once "consumed" points have been played.
EstimateFromSnapshot(snapshot, consumed) == Larger(0, snapshot - consumed)

\* The points a minimum buffering time stands for, never below the floor.
MinimumBufferPoints(rate, millis, floor) == Larger(PointsForTime(rate, millis), floor)

\* The fill level aimed at: the points the latency stands for, at least the
\* floor and at most the capacity less the safety headroom.
TargetBufferPoints(rate, capacity, latency, floor, headroom) ==
    LET lowest == Clamp(floor, 0, capacity)
        spare == Clamp(headroom, 0, Larger(0, capacity - lowest))
        highest == Larger(lowest, capacity - spare)
    IN  IF capacity <= 0 THEN 0
        ELSE IF rate = 0 THEN lowest
        ELSE Clamp(PointsForTime(rate, Larger(0, latency)), lowest, highest)

\* A sleep clamped to a window whose ends may be given in either order.
ClampSleepMillis(millis, minimum, maximum) ==
    Clamp(millis, Smaller(minimum, maximum), Larger(minimum, maximum))
=============================================================================
