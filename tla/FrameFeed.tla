----------------------------- MODULE FrameFeed -----------------------------
(***************************************************************************)
(* What the frame queue promises an application that sends frames: frames  *)
(* are shown whole, in the order they were sent.  A frame may be dropped   *)
(* before its first point was shown, if a later one replaces it; once      *)
(* begun it runs to its last point, after which it is shown again, gives   *)
(* way or ends.                                                            *)
(***************************************************************************)
EXTENDS Integers, Sequences

CONSTANTS Frames,     \* the frames an application can send
          LengthOf(_) \* how many points a frame has

VARIABLES waiting,    \* frames sent and not begun, in the order sent
          showing,    \* <<>> or <<the frame being shown>>
          at          \* how many of its points have been shown

feed == <<waiting, showing, at>>

Finished == showing = <<>> \/ at = LengthOf(showing[1])

Init == waiting = <<>> /\ showing = <<>> /\ at = 0

Send(f) == waiting' = Append(waiting, f) /\ UNCHANGED <<showing, at>>

\* A frame nobody has seen is dropped, for a later one that is also waiting.
Drop == /\ Len(waiting) > 1
        /\ waiting' = Tail(waiting)
        /\ UNCHANGED <<showing, at>>

\* The first points of the next frame.
Begin == /\ waiting # <<>> /\ showing = <<>>
         /\ showing' = <<waiting[1]>>
         /\ at' \in 1 .. LengthOf(waiting[1])
         /\ waiting' = Tail(waiting)

\* Some more of its points.
Continue == /\ showing # <<>>
            /\ at' \in at + 1 .. LengthOf(showing[1])
            /\ UNCHANGED <<waiting, showing>>

\* From the end back to the beginning: the frame is shown again.
Repeat == /\ showing # <<>> /\ Finished
          /\ at' \in 0 .. LengthOf(showing[1])
          /\ UNCHANGED <<waiting, showing>>

\* The frame gives way to the next one, or has been held long enough.
End == /\ showing # <<>> /\ Finished
       /\ showing' = <<>> /\ at' = 0
       /\ UNCHANGED waiting

Clear == waiting' = <<>> /\ showing' = <<>> /\ at' = 0

Next == \/ \E f \in Frames : Send(f)
        \/ Drop \/ Begin \/ Continue \/ Repeat \/ End \/ Clear

Spec == Init /\ [][Next]_feed
=============================================================================
