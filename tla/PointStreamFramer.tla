------------------------- MODULE PointStreamFramer -------------------------
(***************************************************************************)
(* core/PointStreamFramer: cuts the endless stream of a point callback     *)
(* into frames for transports that take whole frames, keeping one frame    *)
(* prepared in reserve.  The controller calls it under                     *)
(* pointStreamFramerMutex.                                                 *)
(*                                                                         *)
(* A point is who produced it and its place in the stream since the last   *)
(* reset.  Where a natural boundary lies depends on colours and distances  *)
(* the model does not have, so findNaturalBoundary may find any split its  *)
(* search window admits, or none.                                          *)
(***************************************************************************)
EXTENDS Integers, Sequences, SequencesExt

VARIABLES
    accumulator,          \* points pulled and not cut yet
    preparedFrames,       \* frames cut and not taken yet
    preparedPointCount,   \* how many points those hold
    sizes,                \* nominal, max, target, transport: the setters'
                          \*   values for the current request
    forceEmits,           \* consecutiveForceEmits, up to the fallback count
    totalPointsConsumed   \* pulled since the last reset

framer == <<accumulator, preparedFrames, preparedPointCount, sizes,
            forceEmits, totalPointsConsumed>>

\* forceEmitFallbackCount and 1 + preparedFrameReserveCount.
FallbackCount == 3
DesiredReadyFrames == 2

AtMost(a, b) == IF a < b THEN a ELSE b
AtLeast(a, b) == IF a > b THEN a ELSE b
Deficit(have, want) == AtLeast(want - have, 0)

NoSizes == [nominal |-> 1, max |-> 1, target |-> 0, transport |-> 0]

FramerInit ==
    /\ accumulator = <<>> /\ preparedFrames = <<>> /\ preparedPointCount = 0
    /\ sizes = NoSizes /\ forceEmits = 0 /\ totalPointsConsumed = 0

\* Every point the framer holds, in the order they will leave it.
Buffered == FlattenSeq(preparedFrames) \o accumulator

Fallback == forceEmits >= FallbackCount

\* How many points a cut wants to see: nominal * 1.1f once boundaries stopped
\* being found, four nominal frames before.
LookaheadTarget ==
    AtMost(IF Fallback THEN (11 * sizes.nominal) \div 10 ELSE 4 * sizes.nominal,
           sizes.max)

PullCount ==
    AtLeast(Deficit(Len(accumulator), LookaheadTarget),
            Deficit(sizes.transport + preparedPointCount + Len(accumulator),
                    AtLeast(sizes.target, LookaheadTarget)))

\* pullPoints: `batch` points of `callback` join the accumulator.
Pulled(callback, batch) ==
    accumulator \o [i \in 1 .. batch |->
                       [src |-> callback, n |-> totalPointsConsumed + i]]

\* The splits findNaturalBoundary can return, other than "none".
NaturalBoundaries(points) ==
    LET windowStart == IF Fallback THEN (9 * sizes.nominal) \div 10
                       ELSE sizes.nominal \div 2
        windowEnd == AtMost(sizes.max, Len(points))
    IN  IF Len(points) < 2 \/ windowStart >= windowEnd THEN {}
        ELSE AtLeast(windowStart, 1) .. windowEnd

\* Mutant: the cut point is both emitted and kept.
CutKeepsSplit(points, split) ==
    /\ preparedFrames' = Append(preparedFrames, SubSeq(points, 1, split))
    /\ preparedPointCount' = preparedPointCount + split
    /\ accumulator' = SubSeq(points, split, Len(points))

\* The first `split` points become a prepared frame.
Cut(points, split) ==
    /\ preparedFrames' = Append(preparedFrames, SubSeq(points, 1, split))
    /\ preparedPointCount' = preparedPointCount + split
    /\ accumulator' = SubSeq(points, split + 1, Len(points))

\* Mutant: a cut without a boundary takes everything there is.
ExtractWithoutLimit(points) ==
    /\ Cut(points, Len(points))
    /\ forceEmits' = AtMost(forceEmits + 1, FallbackCount)

\* extractOneFrame: at a natural boundary, or forced at the nominal size.
ExtractOneFrame(points) ==
    \/ \E split \in NaturalBoundaries(points) :
          Cut(points, split) /\ forceEmits' = 0
    \/ /\ Cut(points, AtMost(sizes.nominal, Len(points)))
       /\ forceEmits' = AtMost(forceEmits + 1, FallbackCount)

\* The framer has what extractFrame wants, or cannot get it.
Ready == Len(preparedFrames) >= DesiredReadyFrames

\* One turn of the loop of ensurePreparedFrames in which the callback
\* produces `batch` points: with no points at all the loop gives up.
PrepareFrame(callback, batch) ==
    LET points == Pulled(callback, batch)
    IN  /\ totalPointsConsumed' = totalPointsConsumed + batch
        /\ IF points = <<>>
           THEN UNCHANGED <<accumulator, preparedFrames, preparedPointCount,
                            forceEmits>>
           ELSE ExtractOneFrame(points)
        /\ UNCHANGED sizes

\* The end of extractFrame: the oldest prepared frame leaves.
TakeFrame ==
    /\ preparedFrames' = Tail(preparedFrames)
    /\ preparedPointCount' = preparedPointCount - Len(Head(preparedFrames))
    /\ UNCHANGED <<accumulator, sizes, forceEmits, totalPointsConsumed>>

\* reset leaves the nominal and the maximum size alone.
FramerReset ==
    /\ accumulator' = <<>> /\ preparedFrames' = <<>> /\ preparedPointCount' = 0
    /\ sizes' = [sizes EXCEPT !.target = 0, !.transport = 0]
    /\ forceEmits' = 0 /\ totalPointsConsumed' = 0
=============================================================================
