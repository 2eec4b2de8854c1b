--------------------------- MODULE FrameScheduler ---------------------------
(***************************************************************************)
(* core/FrameScheduler: the queue between an application that sends frames *)
(* and the worker that pulls points (fillPoints) or transport frames       *)
(* (fillFrame) from it, with stale-frame skipping, scheduled start times,  *)
(* looping, the hold time and the blank points of a transition.            *)
(*                                                                         *)
(* A fill runs under the scheduler's mutex, one action per turn of its     *)
(* loops; wpc # "idle" is the mutex being held.  Times are relative: `due` *)
(* counts down to a frame's start time, `age` counts up from its first     *)
(* play, and a request's `lead` is how far ahead of now it will render.    *)
(* A fill takes no time.  Points are abstracted to how many there are and  *)
(* where a frame begins and ends.                                          *)
(***************************************************************************)
EXTENDS Integers, Sequences

CONSTANTS
    Shapes,         \* frames an application sends: [len, first, last]
    LongestFrame,   \* bound: points of a frame
    Places,         \* where they begin and end; two places are a jump apart
    MaxFrames,      \* bound: how many frames are sent
    MaxDue,         \* bound: how far ahead a frame is scheduled
    MaxLead,        \* bound: how far ahead a request renders
    HoldTime,       \* maxFrameHoldTime(); 0 disables it
    PointsPerTick,  \* the point rate
    TransitionLen,  \* points of a generated transition
    LatencyPoints,  \* millisToPoints(targetLatency())
    Requests        \* the requests of the worker: for "points" (min, max)
                    \*   or for a "frame" (max, blank, advance, repeat)

Request == [kind : {"points", "frame"}, min : Nat, max : Nat,
            blank : Nat \ {0}, advance : BOOLEAN, repeat : BOOLEAN]

ASSUME SchedulerAssumption ==
    /\ LongestFrame \in Nat \ {0}
    /\ Shapes \subseteq [len : 1 .. LongestFrame, first : Places, last : Places]
    /\ MaxFrames \in Nat /\ MaxDue \in Nat /\ MaxLead \in Nat
    /\ HoldTime \in Nat /\ PointsPerTick \in Nat \ {0}
    /\ TransitionLen \in Nat \ {0} /\ LatencyPoints \in Nat
    /\ Requests \subseteq Request
    /\ \A r \in Requests : r.min <= r.max

Frame == [id : 1 .. MaxFrames, shape : Shapes, due : 0 .. MaxDue, next : Nat,
          played : BOOLEAN, age : 0 .. HoldTime]

VARIABLES
    pendingFrames, frameQueue, \* sequences of frames
    transition,                \* [left, to]: points not handed over yet
    nominal,                   \* nominalFramePointCount
    sending,                   \* <<>> or <<the frame>> between sendFrame's
                               \*   readiness check and its enqueue
    sent,                      \* how many frames were sent
    wpc, req, lead, outLen,    \* the worker: place, request, points so far
    beam,                      \* observed: the last point of the output
    ret                        \* observed: the last fill's request and size

queues == <<pendingFrames, frameQueue, transition, nominal>>
vars == <<queues, sending, sent, wpc, req, lead, outLen, beam, ret>>

LenOf(f) == f.shape.len
CurrentFrame == frameQueue[1]
Lesser(a, b) == IF a < b THEN a ELSE b
Greater(a, b) == IF a > b THEN a ELSE b

NoRequest == [kind |-> "none", min |-> 0, max |-> 0, blank |-> 1,
              advance |-> FALSE, repeat |-> FALSE]
NoReturn == [req |-> NoRequest, len |-> 0]

\* distance > blankTransitionDistanceThreshold.
Jump(from, to) == from # to

\* frameIsDueAt, for the render time of a point `buffered` points on.
FrameIsDueAt(f, buffered) == f.due <= lead + (buffered \div PointsPerTick)

\* queuedPointCountUnsafe with the default floor of one point per frame.
Total(w) ==
    LET upTo[i \in 0 .. Len(w)] == IF i = 0 THEN 0 ELSE upTo[i - 1] + w[i]
    IN  upTo[Len(w)]
RemainingPoints(frames) == [i \in DOMAIN frames |-> LenOf(frames[i]) - frames[i].next]
QueuedPointCount ==
    Total(RemainingPoints(pendingFrames)) + Total(RemainingPoints(frameQueue))

\* LaserController::queuedPointBudget without an override.
QueuedPointBudgetFor(framePoints) ==
    Greater(LatencyPoints + framePoints,
            IF LatencyPoints > 0 THEN 3 * framePoints ELSE 0)
QueuedPointBudget == QueuedPointBudgetFor(nominal)

\* The last point of a piece of a transition: at its end, or on the way.
TransitionPoint(left, to) ==
    [kind |-> "transition", place |-> IF left = 0 THEN <<to>> ELSE <<>>, id |-> 0]
BlankPoint == [kind |-> "blank", place |-> <<>>, id |-> 0]
ContentPoint(f, next) ==
    [kind |-> "content", id |-> f.id,
     place |-> IF next = LenOf(f) THEN <<f.shape.last>> ELSE <<>>]

(***************************************************************************)
(* The application.                                                        *)
(***************************************************************************)
NewFrame(shape, due) ==
    [id |-> sent + 1, shape |-> shape, due |-> due, next |-> 0,
     played |-> FALSE, age |-> 0]

EnqueueFrame(f) ==
    /\ nominal' = LenOf(f)
    /\ pendingFrames' = Append(pendingFrames, f)
    /\ sent' = sent + 1

UnchangedFill == UNCHANGED <<wpc, req, lead, outLen, beam, ret>>

\* sendFrame: the readiness check, then the enqueue, each under the mutex.
SendFrameCheck(shape, due) ==
    /\ wpc = "idle" /\ sending = <<>> /\ sent < MaxFrames
    /\ QueuedPointCount <= QueuedPointBudget
    /\ sending' = <<NewFrame(shape, due)>>
    /\ UNCHANGED <<queues, sent>>
    /\ UnchangedFill

SendFrameEnqueue ==
    /\ wpc = "idle" /\ sending # <<>>
    /\ EnqueueFrame(sending[1])
    /\ sending' = <<>>
    /\ UNCHANGED <<frameQueue, transition>>
    /\ UnchangedFill

\* tryEnqueueFrameIfReady: refused while the worker holds the mutex.
TrySendFrame(shape, due) ==
    /\ wpc = "idle" /\ sending = <<>> /\ sent < MaxFrames
    /\ QueuedPointCount <= QueuedPointBudget
    /\ EnqueueFrame(NewFrame(shape, due))
    /\ UNCHANGED <<frameQueue, transition, sending>>
    /\ UnchangedFill

\* reset, from the calls that change the content source.  What is shown
\* after it is another source's, so the observer forgets the beam.
Reset ==
    /\ wpc = "idle" /\ sending = <<>>
    /\ pendingFrames' = <<>> /\ frameQueue' = <<>>
    /\ transition' = [transition EXCEPT !.left = 0]
    /\ nominal' = 1
    /\ beam' = BlankPoint
    /\ UNCHANGED <<sending, sent, wpc, req, lead, outLen, ret>>

(***************************************************************************)
(* The clock.                                                              *)
(***************************************************************************)
Later(f) ==
    [f EXCEPT !.due = Greater(@ - 1, 0),
              !.age = IF f.played THEN Lesser(@ + 1, HoldTime) ELSE @]

Tick ==
    /\ wpc = "idle"
    /\ pendingFrames' = [i \in DOMAIN pendingFrames |-> Later(pendingFrames[i])]
    /\ frameQueue' = [i \in DOMAIN frameQueue |-> Later(frameQueue[i])]
    /\ sending' = [i \in DOMAIN sending |-> Later(sending[i])]
    /\ UNCHANGED <<transition, nominal, sent>>
    /\ UnchangedFill

(***************************************************************************)
(* Both fills: taking the mutex, the transition left over from the last    *)
(* fill, and skipping stale frames.                                        *)
(***************************************************************************)
UnchangedSend == UNCHANGED <<nominal, sending, sent>>

\* drainPendingTransitionUnsafe, at the head of a fill for at most max.
BeginFill(r, ahead) ==
    LET drained == Lesser(transition.left, r.max)
        left == transition.left - drained
    IN  /\ wpc = "idle"
        /\ frameQueue' = frameQueue \o pendingFrames
        /\ pendingFrames' = <<>>
        /\ req' = r
        /\ lead' = ahead
        /\ transition' = [transition EXCEPT !.left = left]
        /\ outLen' = drained
        /\ beam' = IF drained > 0 THEN TransitionPoint(left, transition.to)
                   ELSE beam
        /\ ret' = NoReturn
        /\ wpc' = IF drained = r.max THEN "return"
                  ELSE IF frameQueue' = <<>> THEN "blank" ELSE "skip"
        /\ UnchangedSend

\* Mutant: a frame is skipped even when part of it has been shown.
StaleFrontPlayed == Len(frameQueue) > 1 /\ FrameIsDueAt(frameQueue[2], 0)

\* A front frame that was never played gives way to one that is due.
StaleFront ==
    Len(frameQueue) > 1 /\ ~CurrentFrame.played /\ FrameIsDueAt(frameQueue[2], 0)

SkipStale ==
    /\ wpc = "skip" /\ StaleFront
    /\ frameQueue' = Tail(frameQueue)
    /\ UNCHANGED <<pendingFrames, transition>>
    /\ UnchangedSend /\ UnchangedFill

\* The scheduled time gates the first play of a frame.
FrontNotDue ==
    IF req.kind = "points"
    THEN ~CurrentFrame.played /\ ~FrameIsDueAt(CurrentFrame, 0)
    ELSE /\ ~CurrentFrame.played /\ CurrentFrame.next = 0
         /\ ~req.advance /\ ~FrameIsDueAt(CurrentFrame, 0)

Gate ==
    /\ wpc = "skip" /\ ~StaleFront
    /\ wpc' = IF FrontNotDue THEN "blank" ELSE req.kind
    /\ UNCHANGED <<pendingFrames, frameQueue, transition, req, lead, outLen,
                   beam, ret>>
    /\ UnchangedSend

\* appendBlankPoints(outputBuffer, minPoints), or loadBlankFrame, which also
\* discards what was drained into the output frame.
Blank ==
    /\ wpc = "blank"
    /\ outLen' = IF req.kind = "points" THEN outLen + req.min
                 ELSE Lesser(req.blank, req.max)
    /\ beam' = IF req.kind = "points" /\ req.min = 0 THEN beam ELSE BlankPoint
    /\ wpc' = "return"
    /\ UNCHANGED <<pendingFrames, frameQueue, transition, req, lead, ret>>
    /\ UnchangedSend

\* The fill returns and gives up the mutex.
Return ==
    /\ wpc = "return"
    /\ ret' = [req |-> req, len |-> outLen]
    /\ wpc' = "idle" /\ req' = NoRequest /\ lead' = 0 /\ outLen' = 0
    /\ UNCHANGED <<pendingFrames, frameQueue, transition, beam>>
    /\ UnchangedSend

\* The next `n` points of the front frame go out.
Show(n) ==
    LET f == [CurrentFrame EXCEPT !.next = @ + n, !.played = TRUE]
    IN  /\ frameQueue' = <<f>> \o Tail(frameQueue)
        /\ outLen' = outLen + n
        /\ beam' = IF n > 0 THEN ContentPoint(f, f.next) ELSE beam

\* generateTransitionPoints and the drain after it, then `after` if there is
\* room left.
Travel(from, to, after) ==
    LET drained == IF Jump(from, to)
                   THEN Lesser(TransitionLen, req.max - outLen) ELSE 0
        left == IF Jump(from, to) THEN TransitionLen - drained ELSE 0
    IN  /\ transition' = [left |-> left, to |-> to]
        /\ outLen' = outLen + drained
        /\ beam' = IF drained > 0 THEN TransitionPoint(left, to) ELSE beam
        /\ wpc' = IF Jump(from, to) /\ outLen + drained = req.max
                  THEN "return" ELSE after

(***************************************************************************)
(* fillPoints: the loop.                                                   *)
(***************************************************************************)
CopyPoints ==
    LET n == Lesser(LenOf(CurrentFrame) - CurrentFrame.next, req.max - outLen)
    IN  /\ wpc = "points"
        /\ Show(n)
        /\ wpc' = IF \/ /\ outLen' >= req.min
                        /\ CurrentFrame.next + n >= LenOf(CurrentFrame)
                     \/ outLen' = req.max
                  THEN "return" ELSE "advance"
        /\ UNCHANGED <<pendingFrames, transition, req, lead, ret>>
        /\ UnchangedSend

NextFrameIsDue == Len(frameQueue) > 1 /\ FrameIsDueAt(frameQueue[2], outLen)
HeldLongEnough == HoldTime > 0 /\ CurrentFrame.age >= HoldTime

\* Mutant: the next frame starts without a transition.
AdvanceWithoutTravel ==
    /\ wpc = "advance" /\ NextFrameIsDue
    /\ frameQueue' = Tail(frameQueue)
    /\ wpc' = "points"
    /\ UNCHANGED <<pendingFrames, transition, req, lead, outLen, beam, ret>>
    /\ UnchangedSend

AdvanceToNext ==
    /\ wpc = "advance" /\ NextFrameIsDue
    /\ frameQueue' = Tail(frameQueue)
    /\ Travel(CurrentFrame.shape.last, frameQueue[2].shape.first, "points")
    /\ UNCHANGED <<pendingFrames, req, lead, ret>>
    /\ UnchangedSend

\* Mutant: the rest of the request is not padded with blanks.
ExpireWithoutPadding ==
    /\ wpc = "advance" /\ ~NextFrameIsDue /\ HeldLongEnough
    /\ frameQueue' = Tail(frameQueue)
    /\ wpc' = "return"
    /\ UNCHANGED <<pendingFrames, transition, req, lead, outLen, beam, ret>>
    /\ UnchangedSend

ExpireFrame ==
    /\ wpc = "advance" /\ ~NextFrameIsDue /\ HeldLongEnough
    /\ frameQueue' = Tail(frameQueue)
    /\ outLen' = Greater(outLen, req.min)
    /\ beam' = IF req.min > outLen THEN BlankPoint ELSE beam
    /\ wpc' = "return"
    /\ UNCHANGED <<pendingFrames, transition, req, lead, ret>>
    /\ UnchangedSend

\* Mutant: every loop restarts the hold time.
LoopRestartsHold ==
    /\ wpc = "advance" /\ ~NextFrameIsDue /\ ~HeldLongEnough
    /\ frameQueue' = [frameQueue EXCEPT ![1].next = 0, ![1].age = 0]
    /\ Travel(CurrentFrame.shape.last, CurrentFrame.shape.first, "points")
    /\ UNCHANGED <<pendingFrames, req, lead, ret>>
    /\ UnchangedSend

LoopFrame ==
    /\ wpc = "advance" /\ ~NextFrameIsDue /\ ~HeldLongEnough
    /\ frameQueue' = [frameQueue EXCEPT ![1].next = 0]
    /\ Travel(CurrentFrame.shape.last, CurrentFrame.shape.first, "points")
    /\ UNCHANGED <<pendingFrames, req, lead, ret>>
    /\ UnchangedSend

(***************************************************************************)
(* fillFrame: the loop.                                                    *)
(***************************************************************************)
FrontAtEnd == CurrentFrame.next >= LenOf(CurrentFrame)
NextFrameWanted ==
    /\ Len(frameQueue) > 1
    /\ req.advance \/ FrameIsDueAt(frameQueue[2], 0)

\* The new front passed the due check here, or the request waives it.
FrameAdvance ==
    /\ wpc = "frame" /\ FrontAtEnd /\ NextFrameWanted
    /\ frameQueue' = Tail(frameQueue)
    /\ Travel(CurrentFrame.shape.last, frameQueue[2].shape.first, "frame")
    /\ UNCHANGED <<pendingFrames, req, lead, ret>>
    /\ UnchangedSend

FrameExpire ==
    /\ wpc = "frame" /\ FrontAtEnd /\ ~NextFrameWanted
    /\ HeldLongEnough
    /\ frameQueue' = Tail(frameQueue)
    /\ wpc' = "blank"
    /\ UNCHANGED <<pendingFrames, transition, req, lead, outLen, beam, ret>>
    /\ UnchangedSend

\* A transport that repeats its pattern itself gets nothing.
FrameIdle ==
    /\ wpc = "frame" /\ FrontAtEnd /\ ~NextFrameWanted /\ ~HeldLongEnough
    /\ ~req.repeat
    /\ wpc' = "return"
    /\ UNCHANGED <<pendingFrames, frameQueue, transition, req, lead, outLen,
                   beam, ret>>
    /\ UnchangedSend

FrameRepeat ==
    /\ wpc = "frame" /\ FrontAtEnd /\ ~NextFrameWanted /\ ~HeldLongEnough
    /\ req.repeat
    /\ frameQueue' = [frameQueue EXCEPT ![1].next = 0]
    /\ UNCHANGED <<pendingFrames, transition>>
    /\ UnchangedSend /\ UnchangedFill

\* At most max points of the frame, whatever the output already holds.
FrameCopy ==
    /\ wpc = "frame" /\ ~FrontAtEnd
    /\ Show(Lesser(LenOf(CurrentFrame) - CurrentFrame.next, req.max))
    /\ wpc' = "return"
    /\ UNCHANGED <<pendingFrames, transition, req, lead, ret>>
    /\ UnchangedSend

(***************************************************************************)
(* The specification.                                                      *)
(***************************************************************************)
Init ==
    /\ pendingFrames = <<>> /\ frameQueue = <<>>
    /\ transition \in [left : {0}, to : Places]
    /\ nominal = 1
    /\ sending = <<>> /\ sent = 0
    /\ wpc = "idle" /\ req = NoRequest /\ lead = 0 /\ outLen = 0
    /\ beam = BlankPoint /\ ret = NoReturn

Application ==
    \/ \E shape \in Shapes, due \in 0 .. MaxDue : SendFrameCheck(shape, due)
    \/ SendFrameEnqueue
    \/ \E shape \in Shapes, due \in 0 .. MaxDue : TrySendFrame(shape, due)
    \/ Reset

FillStep ==
    \/ SkipStale \/ Gate \/ Blank \/ Return
    \/ CopyPoints \/ AdvanceToNext \/ ExpireFrame \/ LoopFrame
    \/ FrameAdvance \/ FrameExpire \/ FrameIdle \/ FrameRepeat \/ FrameCopy

Fill(requests) ==
    \E r \in requests, ahead \in 0 .. MaxLead : BeginFill(r, ahead)

Next == Application \/ Tick \/ Fill(Requests) \/ FillStep

\* Requests that ask for something: a backend whose buffer has drained asks
\* for at least one point, and a frame transport for a frame.
Demands == {r \in Requests : r.kind = "frame" \/ r.min > 0}

\* Time passes (between fills), a fill ends, and a connected backend keeps
\* asking.
Fairness ==
    /\ SF_vars(Tick) /\ WF_vars(FillStep)
    /\ SF_vars(Fill(Demands))

Spec == Init /\ [][Next]_vars
FairSpec == Spec /\ Fairness


\* The other assertion of requestPoints does hold, a streaming backend gets
\* at least the points it asked for; and where a fill returns more than the
\* maximum (FillWithinMaximum fails), it is by less than the minimum or, for a
\* frame, whose copy also disregards what was drained, by less than the
\* maximum.
FillBounded ==
    LET r == ret.req
    IN  /\ r.kind = "points" =>
             /\ ret.len >= r.min
             /\ ret.len <= r.max \/ ret.len - r.min < r.max
        /\ r.kind = "frame" => ret.len <= r.max \/ ret.len - r.max < r.max

\* The readiness checks of sendFrame and trySendFrame bound the queue: at
\* most the largest budget, the frame just accepted and one more loop of
\* the front frame.
QueueBounded ==
    QueuedPointCount <= QueuedPointBudgetFor(LongestFrame) + 2 * LongestFrame

\* Every variable of the scheduler keeps its type; what a fill returns and what
\* the queue holds stay within bounds, whichever requests and frames meet, and
\* no frame is begun before the one ahead of it is done with.
TypeOK ==
    /\ FillBounded /\ QueueBounded
    /\ pendingFrames \in Seq(Frame) /\ frameQueue \in Seq(Frame)
    /\ sending \in Seq(Frame) /\ Len(sending) <= 1
    /\ \A i \in DOMAIN frameQueue :
          /\ frameQueue[i].next <= LenOf(frameQueue[i])
          /\ frameQueue[i].played => i = 1
    /\ transition \in [left : 0 .. TransitionLen, to : Places]
    /\ nominal \in Nat \ {0} /\ sent \in 0 .. MaxFrames
    /\ wpc \in {"idle", "skip", "blank", "points", "advance", "frame", "return"}
    /\ req \in Requests \cup {NoRequest} /\ lead \in 0 .. MaxLead
    /\ outLen \in Nat
    /\ ret \in [req : Requests \cup {NoRequest}, len : Nat]

\* One frame never follows another directly when the beam has to jump:
\* there are transition points (or blanks) between them.
TransitionBetweenFrames ==
    [][/\ beam.kind = "content" /\ beam'.kind = "content"
       /\ beam.id # beam'.id
       => \E i \in DOMAIN frameQueue' :
              /\ frameQueue'[i].id = beam'.id
              /\ beam.place = <<frameQueue'[i].shape.first>>]_vars

\* With a hold time, frames do not stay on the mirrors for ever: once no more
\* are sent, the queue runs dry and the output is blank.
EventuallyBlank ==
    HoldTime > 0 => []<>(frameQueue = <<>> /\ pendingFrames = <<>>)

\* The frame queue keeps the promise of FrameFeed: whole frames, in order,
\* and only frames nobody has seen are dropped for later ones.
Sent(fs) == [i \in DOMAIN fs |-> <<fs[i].id, LenOf(fs[i])>>]
Playing == frameQueue # <<>> /\ CurrentFrame.played
Unseen == (IF Playing THEN Tail(frameQueue) ELSE frameQueue) \o pendingFrames
Shown == IF Playing THEN <<CurrentFrame>> ELSE <<>>
SentFrames == (1 .. MaxFrames) \X {s.len : s \in Shapes}
SentLength(f) == f[2]

Feed == INSTANCE FrameFeed WITH
            Frames <- SentFrames, LengthOf <- SentLength,
            waiting <- Sent(Unseen), showing <- Sent(Shown),
            at <- IF Playing THEN CurrentFrame.next ELSE 0
FeedSpec == Feed!Spec
=============================================================================
