-------------------------- MODULE MCFrameScheduler --------------------------
(***************************************************************************)
(* FrameScheduler with a closed frame of two points, an open one of three  *)
(* that a loop has to travel back from, and requests whose maximum is      *)
(* shorter than a frame, a transition and their sum.                       *)
(***************************************************************************)
EXTENDS FrameScheduler

MCShapes == {[len |-> 2, first |-> "a", last |-> "a"],
             [len |-> 3, first |-> "b", last |-> "a"]}

PointsOf(min, max) ==
    [kind |-> "points", min |-> min, max |-> max, blank |-> 1,
     advance |-> FALSE, repeat |-> FALSE]
FrameOf(max, advance, repeat) ==
    [kind |-> "frame", min |-> 0, max |-> max, blank |-> 2,
     advance |-> advance, repeat |-> repeat]

MCRequests == {PointsOf(0, 2), PointsOf(3, 3), PointsOf(1, 4),
               FrameOf(3, FALSE, TRUE), FrameOf(2, TRUE, FALSE)}
=============================================================================
