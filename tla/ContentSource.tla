--------------------------- MODULE ContentSource ---------------------------
(***************************************************************************)
(* core/LaserController: which content source is active (a point callback, *)
(* the frame queue, or none), the calls that switch it, and the worker's   *)
(* requestPoints and requestFrame, which look at the source first and use  *)
(* what they saw after the mutex is gone.                                  *)
(*                                                                         *)
(* A switching call holds contentSourceMutex from its first step to its    *)
(* last; each step is one inner critical section (the scheduler's, the     *)
(* framer's or the callback slot's).  The frame queue is the number of     *)
(* frames in it: FrameScheduler models the rest.                           *)
(***************************************************************************)
EXTENDS PointStreamFramer, FiniteSetsExt

CONSTANTS
    Callbacks,       \* point callbacks an application installs
    NoCallback,      \* the empty std::function
    Requests,        \* [kind, max, preferred, blank]: what backends ask for
    TransportLevels, \* points a transport may hold when it asks
    LatencyPoints,   \* millisToPoints(targetLatency())
    MaxQueue,        \* bound: frames in the queue
    MaxConsumed      \* bound: points pulled between two resets

ASSUME ContentAssumption ==
    /\ NoCallback \notin Callbacks
    /\ IsFiniteSet(Requests)
    /\ Requests \subseteq [kind : {"points", "frame"}, max : Nat,
                           preferred : Nat, blank : Nat]
    /\ TransportLevels \subseteq Nat /\ LatencyPoints \in Nat
    /\ MaxQueue \in Nat /\ MaxConsumed \in Nat

VARIABLES
    activeSource, callback, queue,
    steps,                \* what the current switching call has left to do
    wpc, req, copied,     \* the worker: place, request, copied callback
    out,                  \* observed: what the last request handed over
    fresh,                \* observed: no switch began during this request
    overlapped,           \* observed: a request ran during the last reset
    given                 \* observed: points taken since the last reset

controller == <<activeSource, callback, queue>>
worker == <<wpc, req, copied>>
observed == <<out, fresh, overlapped, given>>
vars == <<framer, controller, steps, worker, observed>>

NoRequest == [kind |-> "none", max |-> 0, preferred |-> 0, blank |-> 0]
Nothing == [kind |-> "none", points |-> <<>>, via |-> NoCallback,
            fresh |-> FALSE]
NoStep == [op |-> "none"]

(***************************************************************************)
(* The application: calls as the steps they take under contentSourceMutex. *)
(***************************************************************************)
ResetQueueStep == [op |-> "resetQueue"]
ResetFramerStep == [op |-> "resetFramer"]
StoreStep(c) == [op |-> "store", callback |-> c]
SourceStep(s) == [op |-> "source", source |-> s]
EnqueueStep == [op |-> "enqueue"]

\* Taking contentSourceMutex for a call with something to do.
Call(todo) ==
    /\ steps = <<>>
    /\ steps' = todo
    /\ fresh' = FALSE
    /\ out' = Nothing
    /\ UNCHANGED <<framer, controller, worker, overlapped, given>>

\* Mutant: setPointCallback without resetting the framer.
SetPointCallbackKeepsFramer(c) ==
    Call(<<ResetQueueStep, StoreStep(c), SourceStep("PointCallback")>>)

SetPointCallback(c) ==
    Call(<<ResetQueueStep, ResetFramerStep, StoreStep(c),
           SourceStep("PointCallback")>>)

ClearPointCallback ==
    Call(<<StoreStep(NoCallback)>>
         \o IF activeSource = "PointCallback"
            THEN <<ResetFramerStep, SourceStep("None")>> ELSE <<>>)

ClearPointCallbackPrefetch ==
    activeSource = "PointCallback" /\ Call(<<ResetFramerStep>>)

EnterFrameMode ==
    <<ResetFramerStep, StoreStep(NoCallback), SourceStep("FrameQueue")>>

\* sendFrame and trySendFrame, which differ in waiting for the scheduler.
SendFrame ==
    Call((IF activeSource = "FrameQueue" THEN <<>> ELSE EnterFrameMode)
         \o <<EnqueueStep>>)

UseFrameQueue == activeSource # "FrameQueue" /\ Call(EnterFrameMode)

ClearFrameQueue ==
    Call(<<ResetQueueStep>>
         \o IF activeSource = "FrameQueue" THEN <<SourceStep("None")>> ELSE <<>>)

ClearContentSource ==
    Call(<<StoreStep(NoCallback), ResetQueueStep, ResetFramerStep,
           SourceStep("None")>>)

\* The steps.
StepIs(op) == steps # <<>> /\ Head(steps).op = op

ResetQueue ==
    /\ StepIs("resetQueue")
    /\ queue' = 0
    /\ steps' = Tail(steps)
    /\ UNCHANGED <<framer, activeSource, callback, worker, observed>>

\* resetPointCallbackAdapterState waits for the framer's mutex.
FramerLocked == wpc \in {"prepare", "take"}

ResetFramer ==
    /\ StepIs("resetFramer") /\ ~FramerLocked
    /\ FramerReset
    /\ given' = 0
    /\ overlapped' = (wpc # "idle")
    /\ steps' = Tail(steps)
    /\ UNCHANGED <<controller, worker, out, fresh>>

StoreCallback ==
    /\ StepIs("store")
    /\ callback' = Head(steps).callback
    /\ steps' = Tail(steps)
    /\ UNCHANGED <<framer, activeSource, queue, worker, observed>>

SetSource ==
    /\ StepIs("source")
    /\ activeSource' = Head(steps).source
    /\ steps' = Tail(steps)
    /\ UNCHANGED <<framer, callback, queue, worker, observed>>

\* The frame is queued, or refused by a scheduler that is full or busy.
Enqueue ==
    /\ StepIs("enqueue")
    /\ queue' \in {queue, AtMost(queue + 1, MaxQueue)}
    /\ steps' = Tail(steps)
    /\ UNCHANGED <<framer, activeSource, callback, worker, observed>>

(***************************************************************************)
(* The worker: requestPoints and requestFrame.                             *)
(***************************************************************************)
\* Mutant: the source is read without contentSourceMutex.
SnapshotUnlocked(r) ==
    /\ wpc = "idle"
    /\ totalPointsConsumed < MaxConsumed \/ r.kind = "points"
    /\ req' = r
    /\ wpc' = CASE activeSource = "PointCallback" -> "copy"
                [] activeSource = "FrameQueue" -> "queue"
                [] OTHER -> "fail"
    /\ fresh' = TRUE
    /\ out' = Nothing
    /\ UNCHANGED <<framer, controller, steps, copied, overlapped, given>>

\* The snapshot of the source, under contentSourceMutex.
SnapshotSource(r) ==
    /\ wpc = "idle" /\ steps = <<>>
    /\ totalPointsConsumed < MaxConsumed \/ r.kind = "points"
    /\ req' = r
    /\ wpc' = CASE activeSource = "PointCallback" -> "copy"
                [] activeSource = "FrameQueue" -> "queue"
                [] OTHER -> "fail"
    /\ fresh' = TRUE
    /\ out' = Nothing
    /\ UNCHANGED <<framer, controller, steps, copied, overlapped, given>>

HandOver(kind, points) ==
    /\ out' = [kind |-> kind, points |-> points, via |-> copied, fresh |-> fresh]
    /\ wpc' = "idle" /\ req' = NoRequest /\ copied' = NoCallback
    /\ fresh' = FALSE

\* The request returns false.
Fail ==
    /\ wpc = "fail"
    /\ HandOver("none", <<>>)
    /\ UNCHANGED <<framer, controller, steps, overlapped, given>>

\* fillPoints or fillFrame: a frame that is kept or used up, or blanks.
FillFromQueue ==
    /\ wpc = "queue"
    /\ queue' \in 0 .. queue
    /\ HandOver(IF queue > 0 THEN "queue" ELSE "blank", <<>>)
    /\ UNCHANGED <<framer, activeSource, callback, steps, overlapped, given>>

\* The copy of the callback, under requestPointsCallbackMutex.  A frame
\* request whose sizes are all zero has failed before it.
PreferredPointCount(r) ==
    LET wanted == IF r.preferred > 0 THEN r.preferred
                  ELSE IF r.blank > 0 THEN r.blank ELSE r.max
    IN  IF r.max > 0 THEN AtMost(wanted, r.max) ELSE wanted

CopyCallback ==
    /\ wpc = "copy"
    /\ LET refused == req.kind = "frame" /\ PreferredPointCount(req) = 0
       IN  /\ copied' = IF refused THEN NoCallback ELSE callback
           /\ wpc' = IF copied' = NoCallback THEN "fail"
                     ELSE IF req.kind = "points" THEN "call" ELSE "lock"
    /\ UNCHANGED <<framer, controller, steps, req, observed>>

\* LaserControllerStreaming::requestPoints calls it and hands the points on.
CallCallback ==
    /\ wpc = "call"
    /\ HandOver("callback", <<[src |-> copied, n |-> 0]>>)
    /\ UNCHANGED <<framer, controller, steps, overlapped, given>>

\* The framer's mutex is taken and its setters are called.
\* pointCallbackVirtualBufferTarget gives the target.
LockFramer(transport) ==
    LET nominal == PreferredPointCount(req)
    IN  /\ wpc = "lock"
        /\ sizes' = [nominal |-> nominal,
                     max |-> IF req.max > 0 THEN req.max ELSE nominal,
                     target |-> LatencyPoints + nominal,
                     transport |-> transport]
        /\ wpc' = "prepare"
        /\ UNCHANGED <<accumulator, preparedFrames, preparedPointCount,
                       forceEmits, totalPointsConsumed, controller, steps,
                       req, copied, observed>>

\* A turn of the loop; the callback runs under the framer's mutex and may
\* produce fewer points than asked for.
Prepare(batch) ==
    /\ wpc = "prepare" /\ ~Ready
    /\ PrepareFrame(copied, batch)
    /\ wpc' = IF Len(accumulator) + batch = 0 THEN "take" ELSE "prepare"
    /\ UNCHANGED <<controller, steps, req, copied, out, fresh, overlapped, given>>

\* Mutant: the source is looked at again inside the framer's mutex, against
\* the lock order of the switching calls.
PreparedRechecksSource ==
    /\ wpc = "prepare" /\ Ready /\ steps = <<>>
    /\ wpc' = "take"
    /\ UNCHANGED <<framer, controller, steps, req, copied, observed>>

Prepared ==
    /\ wpc = "prepare" /\ Ready
    /\ wpc' = "take"
    /\ UNCHANGED <<framer, controller, steps, req, copied, observed>>

Take ==
    /\ wpc = "take" /\ preparedFrames # <<>>
    /\ TakeFrame
    /\ given' = given + Len(Head(preparedFrames))
    /\ HandOver("callback", Head(preparedFrames))
    /\ UNCHANGED <<controller, steps, overlapped>>

TakeNothing ==
    /\ wpc = "take" /\ preparedFrames = <<>>
    /\ HandOver("none", <<>>)
    /\ UNCHANGED <<framer, controller, steps, overlapped, given>>

(***************************************************************************)
(* The specification.                                                      *)
(***************************************************************************)
Init ==
    /\ FramerInit
    /\ activeSource = "None" /\ callback = NoCallback /\ queue = 0
    /\ steps = <<>>
    /\ wpc = "idle" /\ req = NoRequest /\ copied = NoCallback
    /\ out = Nothing /\ fresh = FALSE /\ overlapped = FALSE
    /\ given = 0

AppCall ==
    \/ \E c \in Callbacks : SetPointCallback(c)
    \/ ClearPointCallback \/ ClearPointCallbackPrefetch
    \/ SendFrame \/ UseFrameQueue \/ ClearFrameQueue \/ ClearContentSource

AppStep == ResetQueue \/ ResetFramer \/ StoreCallback \/ SetSource \/ Enqueue

Begin == \E r \in Requests : SnapshotSource(r)

WorkerStep ==
    \/ Fail \/ FillFromQueue \/ CopyCallback \/ CallCallback
    \/ \E transport \in TransportLevels : LockFramer(transport)
    \/ \E batch \in 0 .. PullCount : Prepare(batch)
    \/ Prepared \/ Take \/ TakeNothing

Next == AppCall \/ AppStep \/ Begin \/ WorkerStep

\* Threads that are running go on, and a callback returns.
Fairness == WF_vars(AppStep) /\ WF_vars(WorkerStep)

Spec == Init /\ [][Next]_vars
FairSpec == Spec /\ Fairness

(***************************************************************************)
(* Properties.                                                             *)
(***************************************************************************)
FrameRequests == {r \in Requests : r.kind = "frame"}
LargestFrame ==
    Max({AtLeast(r.max, PreferredPointCount(r)) : r \in FrameRequests} \cup {1})

\* The callback slot and the frame queue belong to the active source: when no
\* switch is under way there is a callback just when it is the source, and
\* frames wait only behind the frame queue.
SlotsFollowSource ==
    steps = <<>> =>
        /\ (callback # NoCallback) = (activeSource = "PointCallback")
        /\ activeSource = "PointCallback" => queue = 0

PrefetchLimit == AtLeast(LatencyPoints + LargestFrame, 2 * LargestFrame)

\* The prefetch is bounded: however often requests change their sizes the
\* framer holds no more than the virtual target or two of the largest frames.
PrefetchBounded == Len(Buffered) <= PrefetchLimit

\* Every variable keeps its type; prepared frames are neither empty nor
\* larger than the largest maximum a backend asked with, and the slots and
\* the prefetch are as above.
TypeOK ==
    LET Points == [src : Callbacks, n : 1 .. MaxConsumed + PrefetchLimit]
    IN  /\ accumulator \in Seq(Points)
        /\ \A i \in DOMAIN preparedFrames :
              preparedFrames[i] \in Seq(Points)
              /\ Len(preparedFrames[i]) \in 1 .. LargestFrame
        /\ Len(preparedFrames) <= DesiredReadyFrames
        /\ SlotsFollowSource /\ PrefetchBounded
        /\ preparedPointCount \in Nat /\ forceEmits \in 0 .. FallbackCount
        /\ activeSource \in {"None", "PointCallback", "FrameQueue"}
        /\ callback \in Callbacks \cup {NoCallback}
        /\ copied \in Callbacks \cup {NoCallback}
        /\ queue \in 0 .. MaxQueue
        /\ wpc \in {"idle", "fail", "queue", "copy", "call", "lock",
                   "prepare", "take"}

\* Only one content source is active: a request during which no switch began
\* takes its points from the active source, through the installed callback.
SourceExclusive ==
    out.fresh =>
        /\ out.kind \in {"queue", "blank"} => activeSource = "FrameQueue"
        /\ out.kind = "callback" =>
               activeSource = "PointCallback" /\ out.via = callback

\* What setPointCallback's reset of the framer leaves of the old callback: its
\* points survive only if a request was running during the reset, and they
\* all come out before the new callback's.
StalePointsFirst ==
    steps = <<>> /\ activeSource = "PointCallback" =>
        /\ ~overlapped => \A i \in DOMAIN Buffered : Buffered[i].src = callback
        /\ wpc = "idle" => \A i, j \in DOMAIN Buffered :
              i < j /\ Buffered[i].src = callback => Buffered[j].src = callback

\* Cutting the stream into frames loses nothing, repeats nothing and keeps the
\* order, and preparedPointCount, which is only ever added to and
\* subtracted from, counts what preparedFrames holds.
StreamConserved ==
    /\ preparedPointCount = Len(FlattenSeq(preparedFrames))
    /\ given + Len(Buffered) = totalPointsConsumed
    /\ \A i \in DOMAIN Buffered : Buffered[i].n = given + i

\* A call that switches the source returns: the worker it waits for (inside the
\* framer's mutex) finishes its frame and cannot begin another one.
SwitchReturns == (steps # <<>>) ~> (steps = <<>>)

=============================================================================
