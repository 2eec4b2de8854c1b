----------------------- MODULE FrameSchedulerProofs -----------------------
(***************************************************************************)
(* For any frames, requests, times and budgets: the queue and the fills    *)
(* stay within their bounds, the beam never jumps from a frame to the next *)
(* without blanks, and the queue implements FrameFeed.                     *)
(***************************************************************************)
EXTENDS FrameScheduler, SequenceTheorems, WellFoundedInduction, TLAPS

-----------------------------------------------------------------------------
(* The inductive invariant.                                                 *)

\* No point of the frame has been shown.
Untouched(f) == ~f.played /\ f.next = 0

\* A frame a part of which has been shown has been played, and only the front
\* frame can have been.
Queued ==
    /\ pendingFrames \in Seq(Frame) /\ frameQueue \in Seq(Frame)
    /\ \A i \in 1 .. Len(pendingFrames) : Untouched(pendingFrames[i])
    /\ \A i \in 2 .. Len(frameQueue) : Untouched(frameQueue[i])
    /\ frameQueue # <<>> =>
           /\ CurrentFrame.next <= LenOf(CurrentFrame)
           /\ CurrentFrame.played \/ CurrentFrame.next = 0

\* A frame accepted and not enqueued yet is the next one to count.
Accepted ==
    /\ sending \in Seq(Frame) /\ Len(sending) <= 1
    /\ sending # <<>> => Untouched(sending[1])
    /\ sent \in 0 .. MaxFrames
    /\ sending # <<>> => sent < MaxFrames
    /\ nominal \in 1 .. LongestFrame
    /\ transition \in [left : 0 .. TransitionLen, to : Places]

\* All frames at their full length: what counts against the budget, and what
\* the rest of the front frame may come back as.
Lengths(frames) == [i \in DOMAIN frames |-> LenOf(frames[i])]
Full(frames) == Total(Lengths(frames))
FullCount == Full(pendingFrames) + Full(frameQueue)
Budgeted ==
    /\ FullCount <= QueuedPointBudgetFor(LongestFrame) + 2 * LongestFrame
    /\ sending # <<>> => FullCount <= QueuedPointBudgetFor(LongestFrame) + LongestFrame

\* What a fill may return.
Fits(r, n) ==
    /\ r.kind = "points" => n >= r.min /\ (n <= r.max \/ n - r.min < r.max)
    /\ r.kind = "frame" => n <= r.max \/ n - r.max < r.max

\* What the worker knows at each place of a fill.
Filling ==
    /\ wpc \in {"idle", "skip", "blank", "points", "advance", "frame", "return"}
    /\ req \in Requests \cup {NoRequest} /\ lead \in 0 .. MaxLead /\ outLen \in Nat
    /\ wpc # "idle" => req \in Requests
    /\ wpc \in {"skip", "points", "advance", "frame"} => frameQueue # <<>>
    /\ wpc \in {"skip", "blank", "points", "advance", "frame"} => outLen < req.max
    /\ wpc \in {"points", "advance"} => req.kind = "points"
    /\ wpc = "frame" => req.kind = "frame"
    /\ wpc = "advance" => outLen < req.min /\ CurrentFrame.next = LenOf(CurrentFrame)
    /\ wpc = "return" => Fits(req, outLen)
    /\ ret \in [req : Requests \cup {NoRequest}, len : Nat] /\ Fits(ret.req, ret.len)

\* If the last point is a frame's, that frame is at the front, or it has given
\* way to one that begins where it ended and is about to be shown, or a blank
\* frame is about to cover it.
OnFront ==
    /\ frameQueue # <<>> /\ CurrentFrame.played /\ beam.id = CurrentFrame.id
    /\ CurrentFrame.next = LenOf(CurrentFrame) => beam.place = <<CurrentFrame.shape.last>>
Continuing ==
    /\ wpc \in {"points", "frame"} /\ frameQueue # <<>>
    /\ CurrentFrame.next = 0 /\ beam.place = <<CurrentFrame.shape.first>>
Covered == wpc = "blank" /\ req.kind = "frame"
OnBeam == beam.kind = "content" => OnFront \/ Continuing \/ Covered

IInv ==
    /\ Queued
    /\ Accepted
    /\ Budgeted
    /\ Filling
    /\ OnBeam

-----------------------------------------------------------------------------
(* Sums over a sequence.                                                    *)

\* What holds of 0 and passes from each number to the next one holds up to n.
LEMMA UpTo ==
    ASSUME NEW n \in Nat, NEW S, 0 \in S, \A k \in 0 .. n : k \in S /\ k # n => k + 1 \in S
    PROVE  \A k \in 0 .. n : k \in S
<1> DEFINE T == {k \in 0 .. n : k \notin S}
<1> SUFFICES ASSUME T # {} PROVE FALSE
  OBVIOUS
<1>1. T \subseteq Nat
  OBVIOUS
<1>2. \E x \in T : \A y \in T : ~ (<<y, x>> \in OpToRel(<, Nat))
  BY <1>1, NatLessThanWellFounded, WFMin, Zenon
<1>3. PICK x \in T : \A y \in T : ~ (<<y, x>> \in OpToRel(<, Nat))
  BY <1>2
<1>4. \A y \in T : ~(y < x)
  <2> HIDE DEF T
  <2> QED
    BY <1>1, <1>3 DEF OpToRel
<1>5. x # 0 /\ x - 1 \in 0 .. n /\ x - 1 # n /\ (x - 1) + 1 = x
  OBVIOUS
<1>6. x - 1 \notin T
  BY <1>4
<1> QED
  BY <1>5, <1>6

\* The partial sums of a sequence of naturals.
Sums(w, g) ==
    /\ g \in [0 .. Len(w) -> Nat] /\ g[0] = 0
    /\ \A i \in 1 .. Len(w) : g[i] = g[i - 1] + w[i]

\* They exist.
LEMMA SumsExist ==
    ASSUME NEW w \in Seq(Nat)
    PROVE  \E g : Sums(w, g)
<1> DEFINE n == Len(w)
           Upto(k, g) == /\ g \in [0 .. k -> Nat] /\ g[0] = 0
                         /\ \A i \in 1 .. k : g[i] = g[i - 1] + w[i]
           S == {k \in 0 .. n : \E g : Upto(k, g)}
<1>1. n \in Nat /\ \A i \in 1 .. n : w[i] \in Nat
  BY LenProperties, ElementOfSeq
<1> HIDE DEF n
<1>2. 0 \in S
  <2> DEFINE g == [i \in 0 .. 0 |-> 0]
  <2>1. Upto(0, g)
    BY <1>1
  <2> HIDE DEF g
  <2>2. (\E h : Upto(0, h)) /\ 0 \in 0 .. n
    BY <1>1, <2>1
  <2> QED
    BY <2>2, Zenon
<1>3. ASSUME NEW k \in 0 .. n, k \in S, k # n PROVE k + 1 \in S
  <2>1. PICK g : Upto(k, g)
    BY <1>3
  <2> DEFINE h == [i \in 0 .. k + 1 |-> IF i <= k THEN g[i] ELSE g[k] + w[k + 1]]
  <2>2. k + 1 \in 1 .. n /\ k \in Nat /\ k + 1 \in 0 .. n
    BY <1>1, <1>3
  <2>3. h \in [0 .. k + 1 -> Nat] /\ h[0] = 0
    BY <1>1, <2>1, <2>2
  <2>4. ASSUME NEW i \in 1 .. k + 1 PROVE h[i] = h[i - 1] + w[i]
    <3>1. CASE i <= k
      <4>1. h[i] = g[i] /\ h[i - 1] = g[i - 1] /\ i \in 1 .. k
        BY <2>2, <3>1
      <4> QED
        BY <2>1, <4>1
    <3>2. CASE i = k + 1
      <4>1. h[i] = g[k] + w[k + 1] /\ h[i - 1] = g[k]
        BY <2>2, <3>2
      <4> QED
        BY <3>2, <4>1
    <3> QED
      BY <2>2, <3>1, <3>2
  <2> HIDE DEF h
  <2>5. Upto(k + 1, h)
    BY <2>3, <2>4
  <2> QED
    BY <2>2, <2>5
<1> HIDE DEF S
<1>4. \A k \in 0 .. n : k \in S
  <2>1. \A k \in 0 .. n : k \in S /\ k # n => k + 1 \in S
    BY <1>3
  <2> QED
    BY <1>1, <1>2, <2>1, UpTo, Zenon
<1>5. n \in S
  BY <1>1, <1>4
<1>6. PICK g : Upto(n, g)
  BY <1>5 DEF S
<1> QED
  BY <1>6 DEF Sums, n

\* Total is the last of them.
LEMMA TotalIsLast ==
    ASSUME NEW w \in Seq(Nat)
    PROVE  \E g : Sums(w, g) /\ Total(w) = g[Len(w)]
<1> DEFINE n == Len(w)
           e(g) == [i \in 0 .. n |-> IF i = 0 THEN 0 ELSE g[i - 1] + w[i]]
           g == CHOOSE g : g = e(g)
<1>0. Total(w) = g[n]
  BY DEF Total
<1>1. n \in Nat /\ \A i \in 1 .. n : w[i] \in Nat
  BY LenProperties, ElementOfSeq
<1>2. PICK h : Sums(w, h)
  BY SumsExist
<1> HIDE DEF n
<1>3. h = e(h)
  <2>1. h = [i \in 0 .. n |-> h[i]]
    BY <1>2 DEF Sums, n
  <2>2. \A i \in 0 .. n : h[i] = IF i = 0 THEN 0 ELSE h[i - 1] + w[i]
    BY <1>1, <1>2 DEF Sums, n
  <2> QED
    BY <2>1, <2>2
<1>4. g = e(g)
  BY <1>3
<1> HIDE DEF g
<1>5. \A i \in 0 .. n : g[i] = IF i = 0 THEN 0 ELSE g[i - 1] + w[i]
  BY <1>4
<1>6. \A i \in 0 .. n : g[i] = h[i]
  <2> DEFINE S == {i \in 0 .. n : g[i] = h[i]}
  <2>1. 0 \in S
    BY <1>1, <1>2, <1>5 DEF Sums
  <2>2. ASSUME NEW k \in 0 .. n, k \in S, k # n PROVE k + 1 \in S
    <3>1. k + 1 \in 1 .. n /\ k + 1 \in 0 .. n /\ (k + 1) - 1 = k /\ k + 1 # 0
      BY <1>1, <2>2
    <3>2. g[k + 1] = g[k] + w[k + 1]
      BY <1>5, <3>1
    <3>3. h[k + 1] = h[k] + w[k + 1]
      BY <1>2, <3>1 DEF Sums, n
    <3> QED
      BY <2>2, <3>1, <3>2, <3>3
  <2> HIDE DEF S
  <2>3. \A k \in 0 .. n : k \in S /\ k # n => k + 1 \in S
    BY <2>2
  <2>4. \A k \in 0 .. n : k \in S
    BY <1>1, <2>1, <2>3, UpTo, Zenon
  <2> QED
    BY <2>4 DEF S
<1>7. g[n] = h[n] /\ n \in 0 .. n
  BY <1>1, <1>6
<1> QED
  BY <1>0, <1>2, <1>7, Zenon DEF n

\* Nothing and one number.
LEMMA TotalOne ==
    /\ Total(<<>>) = 0
    /\ \A x \in Nat : Total(<<x>>) = x
<1>1. Total(<<>>) = 0
  <2>1. <<>> \in Seq(Nat) /\ Len(<<>>) = 0
    OBVIOUS
  <2>2. PICK g : Sums(<<>>, g) /\ Total(<<>>) = g[Len(<<>>)]
    BY <2>1, TotalIsLast
  <2> QED
    BY <2>1, <2>2 DEF Sums
<1>2. ASSUME NEW x \in Nat PROVE Total(<<x>>) = x
  <2> DEFINE w == <<x>>
  <2>1. w \in Seq(Nat) /\ Len(w) = 1 /\ w[1] = x
    OBVIOUS
  <2> HIDE DEF w
  <2>2. PICK g : Sums(w, g) /\ Total(w) = g[Len(w)]
    BY <2>1, TotalIsLast
  <2>3. g[0] = 0 /\ g[1] = g[0] + x
    BY <2>1, <2>2 DEF Sums
  <2>4. Total(w) = x
    BY <2>1, <2>2, <2>3
  <2> QED
    BY <2>4 DEF w
<1> QED
  BY <1>1, <1>2

\* A total is a natural number, and one sequence after the other has the sum of
\* their totals.
LEMMA TotalJoin ==
    ASSUME NEW v \in Seq(Nat), NEW w \in Seq(Nat)
    PROVE  /\ Total(v) \in Nat /\ Total(w) \in Nat
           /\ Total(v \o w) = Total(v) + Total(w)
<1> DEFINE u == v \o w
           m == Len(v)
           n == Len(w)
<1>1. /\ u \in Seq(Nat) /\ m \in Nat /\ n \in Nat /\ Len(u) = m + n
      /\ \A i \in 1 .. m : u[i] = v[i] /\ v[i] \in Nat
      /\ \A i \in 1 .. n : u[m + i] = w[i] /\ w[i] \in Nat
  BY LenProperties, ElementOfSeq, ConcatProperties
<1> HIDE DEF u
<1>2. PICK f : Sums(v, f) /\ Total(v) = f[m]
  BY TotalIsLast
<1>3. PICK g : Sums(w, g) /\ Total(w) = g[n]
  BY TotalIsLast
<1>4. PICK h : Sums(u, h) /\ Total(u) = h[Len(u)]
  BY <1>1, TotalIsLast
<1>5. /\ f \in [0 .. m -> Nat] /\ f[0] = 0 /\ \A i \in 1 .. m : f[i] = f[i - 1] + v[i]
      /\ g \in [0 .. n -> Nat] /\ g[0] = 0 /\ \A i \in 1 .. n : g[i] = g[i - 1] + w[i]
      /\ h[0] = 0 /\ \A i \in 1 .. m + n : h[i] = h[i - 1] + u[i]
  BY <1>1, <1>2, <1>3, <1>4 DEF Sums
<1> HIDE DEF m, n
<1>6. \A k \in 0 .. m : h[k] = f[k]
  <2> DEFINE S == {k \in 0 .. m : h[k] = f[k]}
  <2>1. 0 \in S
    BY <1>1, <1>5
  <2>2. ASSUME NEW k \in 0 .. m, k \in S, k # m PROVE k + 1 \in S
    <3>1. /\ k + 1 \in 1 .. m /\ k + 1 \in 0 .. m /\ k + 1 \in 1 .. m + n
          /\ (k + 1) - 1 = k
      BY <1>1, <2>2
    <3>2. h[k + 1] = h[k] + u[k + 1] /\ f[k + 1] = f[k] + v[k + 1] /\ u[k + 1] = v[k + 1]
      BY <1>1, <1>5, <3>1
    <3> QED
      BY <2>2, <3>1, <3>2
  <2> HIDE DEF S
  <2>3. \A k \in 0 .. m : k \in S /\ k # m => k + 1 \in S
    BY <2>2
  <2>4. \A k \in 0 .. m : k \in S
    BY <1>1, <2>1, <2>3, UpTo, Zenon
  <2> QED
    BY <2>4 DEF S
<1>7. \A k \in 0 .. n : h[m + k] = f[m] + g[k]
  <2> DEFINE S == {k \in 0 .. n : h[m + k] = f[m] + g[k]}
  <2>0. m \in 0 .. m /\ f[m] \in Nat /\ m + 0 = m
    BY <1>1, <1>5
  <2>1. 0 \in S
    BY <1>1, <1>5, <1>6, <2>0
  <2>2. ASSUME NEW k \in 0 .. n, k \in S, k # n PROVE k + 1 \in S
    <3>1. /\ k + 1 \in 1 .. n /\ k + 1 \in 0 .. n /\ m + (k + 1) \in 1 .. m + n
          /\ (k + 1) - 1 = k /\ (m + (k + 1)) - 1 = m + k
      BY <1>1, <2>2
    <3>2. /\ h[m + (k + 1)] = h[m + k] + u[m + (k + 1)]
          /\ g[k + 1] = g[k] + w[k + 1] /\ u[m + (k + 1)] = w[k + 1]
          /\ w[k + 1] \in Nat /\ g[k] \in Nat
      BY <1>1, <1>5, <3>1
    <3>3. h[m + k] = f[m] + g[k]
      BY <2>2
    <3>4. h[m + (k + 1)] = f[m] + g[k + 1]
      BY <2>0, <3>2, <3>3
    <3> QED
      BY <3>1, <3>4
  <2> HIDE DEF S
  <2>3. \A k \in 0 .. n : k \in S /\ k # n => k + 1 \in S
    BY <2>2
  <2>4. \A k \in 0 .. n : k \in S
    BY <1>1, <2>1, <2>3, UpTo, Zenon
  <2> QED
    BY <2>4 DEF S
<1>8. h[m + n] = f[m] + g[n] /\ f[m] \in Nat /\ g[n] \in Nat
  BY <1>1, <1>5, <1>7
<1> QED
  BY <1>1, <1>2, <1>3, <1>4, <1>8 DEF u

-----------------------------------------------------------------------------
(* Frames in a queue.                                                       *)

\* A frame's parts.
LEMMA FrameFacts ==
    ASSUME NEW f \in Frame
    PROVE  /\ f.id \in 1 .. MaxFrames /\ f.shape \in Shapes /\ f.due \in 0 .. MaxDue
           /\ f.next \in Nat /\ f.played \in BOOLEAN /\ f.age \in 0 .. HoldTime
           /\ LenOf(f) \in 1 .. LongestFrame /\ LenOf(f) \in Nat /\ LenOf(f) # 0
           /\ f.shape.first \in Places /\ f.shape.last \in Places
<1>1. /\ f.id \in 1 .. MaxFrames /\ f.shape \in Shapes /\ f.due \in 0 .. MaxDue
      /\ f.next \in Nat /\ f.played \in BOOLEAN /\ f.age \in 0 .. HoldTime
  BY Zenon DEF Frame
<1>2. f.shape \in [len : 1 .. LongestFrame, first : Places, last : Places] /\ LongestFrame \in Nat
  BY <1>1, SchedulerAssumption
<1> QED
  BY <1>1, <1>2 DEF LenOf

\* The front of a queue and what is behind it.
LEMMA FrontFacts ==
    ASSUME NEW E, NEW q \in Seq(E)
    PROVE  /\ Len(q) \in Nat /\ \A i \in 1 .. Len(q) : q[i] \in E
           /\ q = <<>> <=> Len(q) = 0
           /\ q # <<>> =>
                /\ q[1] \in E /\ Len(q) >= 1
                /\ Tail(q) \in Seq(E) /\ Len(Tail(q)) = Len(q) - 1
                /\ \A i \in 1 .. Len(Tail(q)) : Tail(q)[i] = q[i + 1]
<1>1. Len(q) \in Nat /\ \A i \in 1 .. Len(q) : q[i] \in E
  BY LenProperties, ElementOfSeq
<1>2. q = <<>> <=> Len(q) = 0
  BY EmptySeq
<1>3. ASSUME q # <<>>
      PROVE  /\ q[1] \in E /\ Len(q) >= 1
             /\ Tail(q) \in Seq(E) /\ Len(Tail(q)) = Len(q) - 1
             /\ \A i \in 1 .. Len(Tail(q)) : Tail(q)[i] = q[i + 1]
  <2>1. Len(q) >= 1
    BY <1>1, <1>2, <1>3
  <2>2. q[1] \in E
    BY <1>1, <2>1
  <2>3. /\ Tail(q) \in Seq(E) /\ Len(Tail(q)) = Len(q) - 1
        /\ \A i \in 1 .. Len(Tail(q)) : Tail(q)[i] = q[i + 1]
    BY <1>3, HeadTailProperties
  <2> QED
    BY <2>1, <2>2, <2>3, Zenon
<1> QED
  BY <1>1, <1>2, <1>3, Zenon

\* One queue after another.
LEMMA JoinFacts ==
    ASSUME NEW E, NEW p \in Seq(E), NEW q \in Seq(E)
    PROVE  /\ p \o q \in Seq(E) /\ Len(p) \in Nat /\ Len(q) \in Nat
           /\ Len(p \o q) = Len(p) + Len(q)
           /\ \A i \in 1 .. Len(p) : (p \o q)[i] = p[i]
           /\ \A i \in 1 .. Len(q) : (p \o q)[Len(p) + i] = q[i]
  BY ConcatProperties, LenProperties

\* One more.
LEMMA AddFacts ==
    ASSUME NEW E, NEW q \in Seq(E), NEW e \in E
    PROVE  /\ Append(q, e) \in Seq(E) /\ Len(q) \in Nat /\ Len(Append(q, e)) = Len(q) + 1
           /\ \A i \in 1 .. Len(q) : Append(q, e)[i] = q[i]
           /\ Append(q, e)[Len(q) + 1] = e
  BY AppendProperties, LenProperties

\* The lengths of the frames of a queue.
LEMMA LengthsFacts ==
    ASSUME NEW q \in Seq(Frame)
    PROVE  /\ Lengths(q) \in Seq(Nat) /\ Len(Lengths(q)) = Len(q) /\ Len(q) \in Nat
           /\ \A i \in 1 .. Len(q) : Lengths(q)[i] = LenOf(q[i])
<1>1. /\ Len(q) \in Nat /\ DOMAIN q = 1 .. Len(q)
      /\ \A i \in 1 .. Len(q) : q[i] \in Frame
  BY LenProperties, ElementOfSeq
<1>2. \A i \in 1 .. Len(q) : LenOf(q[i]) \in Nat
  BY <1>1, FrameFacts
<1>3. Lengths(q) = [i \in 1 .. Len(q) |-> LenOf(q[i])]
  BY <1>1 DEF Lengths
<1> DEFINE e(i) == LenOf(q[i])
           n == Len(q)
<1> HIDE DEF e, n
<1>4. [i \in 1 .. n |-> e(i)] \in Seq(Nat) /\ Len([i \in 1 .. n |-> e(i)]) = n
  BY <1>1, <1>2, IsASeq DEF e, n
<1>5. \A i \in 1 .. n : [j \in 1 .. n |-> e(j)][i] = e(i)
  OBVIOUS
<1> QED
  BY <1>1, <1>3, <1>4, <1>5, Zenon DEF e, n

\* A queue whose frames have the same lengths holds as many points in full.
LEMMA FullSame ==
    ASSUME NEW p \in Seq(Frame), NEW q \in Seq(Frame), Len(p) = Len(q),
           \A i \in 1 .. Len(p) : LenOf(p[i]) = LenOf(q[i])
    PROVE  Full(p) = Full(q)
<1>1. Lengths(p) = Lengths(q)
  BY LengthsFacts, SeqEqual
<1> QED
  BY <1>1 DEF Full

\* Of one queue after another.
LEMMA FullJoin ==
    ASSUME NEW p \in Seq(Frame), NEW q \in Seq(Frame)
    PROVE  /\ Full(p) \in Nat /\ Full(q) \in Nat
           /\ Full(p \o q) = Full(p) + Full(q)
<1> DEFINE m == Len(p)
           n == Len(q)
           u == Lengths(p)
           v == Lengths(q)
           w == Lengths(p \o q)
<1>1. /\ p \o q \in Seq(Frame) /\ m \in Nat /\ n \in Nat /\ Len(p \o q) = m + n
      /\ \A i \in 1 .. m : (p \o q)[i] = p[i]
      /\ \A i \in 1 .. n : (p \o q)[m + i] = q[i]
  BY JoinFacts
<1>2. /\ u \in Seq(Nat) /\ Len(u) = m /\ \A i \in 1 .. m : u[i] = LenOf(p[i])
      /\ v \in Seq(Nat) /\ Len(v) = n /\ \A i \in 1 .. n : v[i] = LenOf(q[i])
  BY LengthsFacts
<1>3. w \in Seq(Nat) /\ Len(w) = m + n /\ \A i \in 1 .. m + n : w[i] = LenOf((p \o q)[i])
  BY <1>1, LengthsFacts
<1>4. /\ u \o v \in Seq(Nat) /\ Len(u \o v) = m + n
      /\ \A i \in 1 .. m : (u \o v)[i] = u[i]
      /\ \A i \in 1 .. n : (u \o v)[m + i] = v[i]
  <2> HIDE DEF m, n, u, v
  <2>0. u \in Seq(Nat) /\ v \in Seq(Nat)
    BY <1>2
  <2>1. /\ u \o v \in Seq(Nat) /\ Len(u \o v) = Len(u) + Len(v)
        /\ \A i \in 1 .. Len(u) : (u \o v)[i] = u[i]
        /\ \A i \in 1 .. Len(v) : (u \o v)[Len(u) + i] = v[i]
    BY <2>0, JoinFacts
  <2> QED
    BY <1>2, <2>1, Zenon
<1> HIDE DEF m, n, u, v, w
<1>5. ASSUME NEW i \in 1 .. m + n PROVE w[i] = (u \o v)[i]
  <2>1. CASE i <= m
    <3>1. i \in 1 .. m
      BY <1>1, <2>1
    <3>2. w[i] = LenOf(p[i]) /\ (u \o v)[i] = LenOf(p[i])
      BY <1>1, <1>2, <1>3, <1>4, <3>1, Zenon
    <3> QED
      BY <3>2
  <2>2. CASE ~(i <= m)
    <3> DEFINE j == i - m
    <3>1. j \in 1 .. n /\ m + j = i
      BY <1>1, <2>2
    <3> HIDE DEF j
    <3>2. w[m + j] = LenOf(q[j]) /\ (u \o v)[m + j] = LenOf(q[j])
      BY <1>1, <1>2, <1>3, <1>4, <3>1
    <3> QED
      BY <3>1, <3>2
  <2> QED
    BY <2>1, <2>2
<1>6. w = u \o v
  BY <1>3, <1>4, <1>5, SeqEqual
<1>7. Total(u) \in Nat /\ Total(v) \in Nat /\ Total(u \o v) = Total(u) + Total(v)
  BY <1>2, TotalJoin
<1> QED
  BY <1>6, <1>7, Zenon DEF Full, u, v, w

\* Of a single frame, and of none.
LEMMA FullOne ==
    /\ Full(<<>>) = 0
    /\ \A f \in Frame : Full(<<f>>) = LenOf(f)
<1>1. Full(<<>>) = 0
  <2>1. Lengths(<<>>) = <<>>
    BY DEF Lengths
  <2> QED
    BY <2>1, TotalOne DEF Full
<1>2. ASSUME NEW f \in Frame PROVE Full(<<f>>) = LenOf(f)
  <2>1. <<f>> \in Seq(Frame) /\ Len(<<f>>) = 1 /\ <<f>>[1] = f
    OBVIOUS
  <2>2. LenOf(f) \in Nat
    BY FrameFacts
  <2> DEFINE x == LenOf(f)
  <2> HIDE DEF x
  <2>3. <<x>> \in Seq(Nat) /\ Len(<<x>>) = 1 /\ <<x>>[1] = x
    BY <2>2 DEF x
  <2>4. Lengths(<<f>>) \in Seq(Nat) /\ Len(Lengths(<<f>>)) = 1 /\ Lengths(<<f>>)[1] = x
    <3>1. 1 \in 1 .. 1
      OBVIOUS
    <3> DEFINE q == <<f>>
    <3> HIDE DEF q
    <3>2. q \in Seq(Frame) /\ Len(q) = 1 /\ q[1] = f
      BY <2>1 DEF q
    <3>3. Lengths(q) \in Seq(Nat) /\ Len(Lengths(q)) = 1 /\ Lengths(q)[1] = LenOf(q[1])
      BY <3>1, <3>2, LengthsFacts, Zenon
    <3> QED
      BY <3>2, <3>3, Zenon DEF q, x
  <2>5. Lengths(<<f>>) = <<x>>
    BY <2>3, <2>4, SeqEqual
  <2> QED
    BY <2>2, <2>5, TotalOne DEF Full, x
<1> QED
  BY <1>1, <1>2

\* Of the front frame and the rest.
LEMMA FullFront ==
    ASSUME NEW q \in Seq(Frame), q # <<>>
    PROVE  /\ Full(Tail(q)) \in Nat /\ LenOf(q[1]) \in Nat
           /\ Full(q) = LenOf(q[1]) + Full(Tail(q))
<1> DEFINE t == Tail(q)
           f == q[1]
           n == Len(q)
<1>1. /\ f \in Frame /\ t \in Seq(Frame) /\ n \in Nat /\ n >= 1 /\ Len(t) = n - 1
      /\ \A i \in 1 .. Len(t) : t[i] = q[i + 1]
  BY FrontFacts
<1>2. <<f>> \in Seq(Frame) /\ Len(<<f>>) = 1 /\ <<f>>[1] = f
  BY <1>1
<1>3. /\ <<f>> \o t \in Seq(Frame) /\ Len(<<f>> \o t) = 1 + Len(t)
      /\ (<<f>> \o t)[1] = f /\ \A i \in 1 .. Len(t) : (<<f>> \o t)[1 + i] = t[i]
  BY <1>1, <1>2, JoinFacts
<1> DEFINE r == <<f>> \o t
<1>4. Len(r) = n /\ \A i \in 1 .. n : r[i] = q[i]
  <2> HIDE DEF t, n, f, r
  <2>1. Len(r) = n
    BY <1>1, <1>3 DEF r
  <2>2. ASSUME NEW i \in 1 .. n PROVE r[i] = q[i]
    <3>1. CASE i = 1
      BY <1>3, <3>1 DEF f, r
    <3>2. CASE i # 1
      <4>1. i - 1 \in 1 .. Len(t) /\ 1 + (i - 1) = i /\ (i - 1) + 1 = i
        BY <1>1, <3>2
      <4>2. r[1 + (i - 1)] = t[i - 1] /\ t[i - 1] = q[(i - 1) + 1]
        BY <1>1, <1>3, <4>1 DEF r
      <4> QED
        BY <4>1, <4>2
    <3> QED
      BY <3>1, <3>2
  <2> QED
    BY <2>1, <2>2
<1>5. r = q
  BY <1>3, <1>4, SeqEqual
<1>6. Full(<<f>>) = LenOf(f) /\ LenOf(f) \in Nat
  BY <1>1, FullOne, FrameFacts
<1>7. Full(t) \in Nat /\ Full(<<f>> \o t) = Full(<<f>>) + Full(t)
  BY <1>1, <1>2, FullJoin
<1> QED
  BY <1>5, <1>6, <1>7, Zenon

\* One frame more.
LEMMA FullAdd ==
    ASSUME NEW q \in Seq(Frame), NEW f \in Frame
    PROVE  Full(q) \in Nat /\ Full(Append(q, f)) = Full(q) + LenOf(f)
<1>1. <<f>> \in Seq(Frame)
  OBVIOUS
<1>2. Append(q, f) = q \o <<f>>
  OBVIOUS
<1> QED
  BY <1>1, <1>2, FullJoin, FullOne, Zenon

\* The points a queue has still to show: all of them, but for those of the front
\* frame that have been shown.
LEMMA RestFacts ==
    ASSUME NEW q \in Seq(Frame), \A i \in 2 .. Len(q) : Untouched(q[i]),
           q # <<>> => q[1].next <= LenOf(q[1])
    PROVE  /\ q = <<>> => Total(RemainingPoints(q)) = 0
           /\ q # <<>> => Total(RemainingPoints(q)) = Full(q) - q[1].next
<1> DEFINE w == RemainingPoints(q)
           n == Len(q)
<1>1. n \in Nat /\ DOMAIN q = 1 .. n /\ (q = <<>> <=> n = 0) /\ \A i \in 1 .. n : q[i] \in Frame
  BY LenProperties, FrontFacts
<1>2. CASE q = <<>>
  <2>1. w = <<>>
    BY <1>2 DEF RemainingPoints
  <2> QED
    BY <1>2, <2>1, TotalOne
<1>3. CASE q # <<>>
  <2> DEFINE t == Tail(q)
             x == LenOf(q[1]) - q[1].next
             u == Lengths(t)
  <2>1. /\ t \in Seq(Frame) /\ Len(t) = n - 1 /\ n >= 1 /\ q[1] \in Frame
        /\ \A i \in 1 .. n - 1 : t[i] = q[i + 1]
    BY <1>3, FrontFacts
  <2>2. x \in Nat /\ LenOf(q[1]) \in Nat /\ q[1].next \in Nat
    BY <1>3, <2>1, FrameFacts
  <2>3. u \in Seq(Nat) /\ Len(u) = n - 1 /\ \A i \in 1 .. n - 1 : u[i] = LenOf(t[i])
    BY <2>1, LengthsFacts
  <2>4. w = [i \in 1 .. n |-> LenOf(q[i]) - q[i].next]
    BY <1>1 DEF RemainingPoints
  <2>5. w[1] = x /\ \A i \in 1 .. n - 1 : w[i + 1] = LenOf(t[i])
    <3>1. 1 \in 1 .. n
      BY <1>1, <2>1
    <3>2. w[1] = x
      BY <2>4, <3>1
    <3>3. ASSUME NEW i \in 1 .. n - 1 PROVE w[i + 1] = LenOf(t[i])
      <4>1. i + 1 \in 2 .. n /\ i + 1 \in 1 .. n
        BY <1>1
      <4>2. q[i + 1].next = 0 /\ q[i + 1] \in Frame /\ t[i] = q[i + 1]
        BY <1>1, <2>1, <4>1 DEF Untouched
      <4>3. w[i + 1] = LenOf(q[i + 1]) - q[i + 1].next
        BY <2>4, <4>1, Zenon
      <4>4. LenOf(q[i + 1]) \in Nat
        BY <4>2, FrameFacts
      <4> QED
        BY <4>2, <4>3, <4>4
    <3> QED
      BY <3>2, <3>3
  <2>6. w \in Seq(Nat) /\ Len(w) = n
    <3>1. ASSUME NEW i \in 1 .. n PROVE w[i] \in Nat
      <4>1. CASE i = 1
        BY <2>2, <2>5, <4>1
      <4>2. CASE i # 1
        <5>1. i - 1 \in 1 .. n - 1 /\ (i - 1) + 1 = i
          BY <1>1, <4>2
        <5>2. w[(i - 1) + 1] = LenOf(t[i - 1]) /\ t[i - 1] \in Frame
          BY <2>1, <2>5, <5>1, ElementOfSeq
        <5> QED
          BY <5>1, <5>2, FrameFacts
      <4> QED
        BY <4>1, <4>2
    <3> DEFINE e(i) == LenOf(q[i]) - q[i].next
    <3>2. w = [i \in 1 .. n |-> e(i)]
      BY <2>4
    <3> HIDE DEF w, n
    <3>3. \A i \in 1 .. n : e(i) \in Nat
      BY <3>1, <3>2
    <3> HIDE DEF e
    <3>4. [i \in 1 .. n |-> e(i)] \in Seq(Nat) /\ Len([i \in 1 .. n |-> e(i)]) = n
      BY <1>1, <3>3, IsASeq
    <3> QED
      BY <3>2, <3>4
  <2> HIDE DEF w, n, x, u
  <2>7. <<x>> \in Seq(Nat) /\ Len(<<x>>) = 1 /\ <<x>>[1] = x
    BY <2>2
  <2>8. /\ <<x>> \o u \in Seq(Nat) /\ Len(<<x>> \o u) = 1 + Len(u)
        /\ \A i \in 1 .. 1 : (<<x>> \o u)[i] = <<x>>[i]
        /\ \A i \in 1 .. Len(u) : (<<x>> \o u)[1 + i] = u[i]
    <3> DEFINE v == <<x>>
    <3> HIDE DEF v
    <3>0. v \in Seq(Nat) /\ u \in Seq(Nat)
      BY <2>3, <2>7 DEF v
    <3>1. /\ v \o u \in Seq(Nat) /\ Len(v \o u) = Len(v) + Len(u)
          /\ \A i \in 1 .. Len(v) : (v \o u)[i] = v[i]
          /\ \A i \in 1 .. Len(u) : (v \o u)[Len(v) + i] = u[i]
      BY <3>0, JoinFacts
    <3> QED
      BY <2>7, <3>1, Zenon DEF v
  <2> DEFINE r == <<x>> \o u
  <2>9. r \in Seq(Nat) /\ Len(r) = n /\ r[1] = x /\ \A i \in 1 .. n - 1 : r[i + 1] = LenOf(t[i])
    <3>1. \A i \in 1 .. n - 1 : 1 + i = i + 1
      BY <1>1
    <3>2. Len(u) = n - 1 /\ 1 + (n - 1) = n /\ 1 \in 1 .. 1
      BY <1>1, <2>3
    <3> QED
      BY <2>3, <2>7, <2>8, <3>1, <3>2, Zenon
  <2> HIDE DEF r, t
  <2>10. \A i \in 1 .. n : w[i] = r[i]
    <3> SUFFICES ASSUME NEW i \in 1 .. n PROVE w[i] = r[i]
      OBVIOUS
    <3>1. CASE i = 1
      BY <2>5, <2>9, <3>1
    <3>2. CASE i # 1
      <4>1. i - 1 \in 1 .. n - 1 /\ (i - 1) + 1 = i
        BY <1>1, <3>2
      <4>2. w[(i - 1) + 1] = r[(i - 1) + 1]
        BY <2>5, <2>9, <4>1, Zenon
      <4> QED
        BY <4>1, <4>2
    <3> QED
      BY <3>1, <3>2
  <2>11. w = r
    BY <2>6, <2>9, <2>10, SeqEqual
  <2>12. Total(r) = Total(<<x>>) + Total(u) /\ Total(<<x>>) = x /\ Total(u) \in Nat
    BY <2>2, <2>3, <2>7, TotalJoin, TotalOne DEF r
  <2>13. Full(q) = LenOf(q[1]) + Total(u)
    BY <1>3, FullFront DEF Full, u, t
  <2>14. Total(w) = Full(q) - q[1].next
    BY <2>2, <2>11, <2>12, <2>13 DEF x
  <2> QED
    BY <1>3, <2>14 DEF w
<1> QED
  BY <1>2, <1>3

-----------------------------------------------------------------------------
(* What steps do to the queues.                                             *)

\* The counts are naturals, and the points queued are all points but those of
\* the front frame that have been shown.
LEMMA CountFacts ==
    ASSUME Queued
    PROVE  /\ FullCount \in Nat /\ QueuedPointCount \in Int
           /\ QueuedPointCount <= FullCount
           /\ FullCount <= QueuedPointCount + LongestFrame
<1> DEFINE p == pendingFrames
           q == frameQueue
<1>1. p \in Seq(Frame) /\ q \in Seq(Frame) /\ \A i \in 2 .. Len(q) : Untouched(q[i])
  BY DEF Queued
<1>2. Full(p) \in Nat /\ Full(q) \in Nat
  BY <1>1, FullJoin
<1>3. Total(RemainingPoints(p)) = Full(p)
  <2>1. \A i \in 1 .. Len(p) : Untouched(p[i])
    BY DEF Queued
  <2>2. Len(p) \in Nat /\ (p = <<>> <=> Len(p) = 0) /\ (p # <<>> => p[1] \in Frame)
    BY <1>1, FrontFacts
  <2>3. p # <<>> => p[1].next = 0 /\ p[1].next <= LenOf(p[1])
    <3> SUFFICES ASSUME p # <<>> PROVE p[1].next = 0 /\ p[1].next <= LenOf(p[1])
      OBVIOUS
    <3>1. 1 \in 1 .. Len(p) /\ LenOf(p[1]) \in Nat
      BY <2>2, FrameFacts
    <3> QED
      BY <2>1, <3>1 DEF Untouched
  <2>4. \A i \in 2 .. Len(p) : Untouched(p[i])
    BY <2>1, <2>2
  <2>5. /\ p = <<>> => Total(RemainingPoints(p)) = 0
        /\ p # <<>> => Total(RemainingPoints(p)) = Full(p) - p[1].next
    BY <1>1, <2>3, <2>4, RestFacts
  <2> QED
    BY <1>2, <2>3, <2>5, FullOne
<1>4. /\ Total(RemainingPoints(q)) \in Int /\ Total(RemainingPoints(q)) <= Full(q)
      /\ Full(q) <= Total(RemainingPoints(q)) + LongestFrame
  <2>1. q # <<>> => q[1].next <= LenOf(q[1])
    BY DEF Queued, CurrentFrame
  <2>2. /\ q = <<>> => Total(RemainingPoints(q)) = 0
        /\ q # <<>> => Total(RemainingPoints(q)) = Full(q) - q[1].next
    BY <1>1, <2>1, RestFacts
  <2>3. q # <<>> => q[1].next \in Nat /\ q[1].next <= LongestFrame
    <3> SUFFICES ASSUME q # <<>> PROVE q[1].next \in Nat /\ q[1].next <= LongestFrame
      OBVIOUS
    <3>1. q[1] \in Frame
      BY <1>1, FrontFacts
    <3>2. q[1].next \in Nat /\ LenOf(q[1]) \in 1 .. LongestFrame
      BY <3>1, FrameFacts
    <3> QED
      BY <2>1, <3>2, SchedulerAssumption
  <2> QED
    BY <1>2, <2>2, <2>3, FullOne, SchedulerAssumption
<1> DEFINE a == Full(p)
           b == Full(q)
           c == Total(RemainingPoints(q))
<1>5. FullCount = a + b /\ QueuedPointCount = a + c
  BY <1>3 DEF FullCount, QueuedPointCount
<1> HIDE DEF a, b, c
<1>6. a \in Nat /\ b \in Nat /\ c \in Int /\ c <= b /\ b <= c + LongestFrame
  BY <1>2, <1>4 DEF a, b, c
<1> QED
  BY <1>5, <1>6, SchedulerAssumption

\* The front frame goes.
LEMMA FrontGoes ==
    ASSUME Queued, frameQueue # <<>>, frameQueue' = Tail(frameQueue),
           pendingFrames' = pendingFrames
    PROVE  /\ Queued' /\ FullCount' <= FullCount
           /\ frameQueue' # <<>> <=> Len(frameQueue) > 1
           /\ Len(frameQueue) > 1 => CurrentFrame' = frameQueue[2] /\ Untouched(frameQueue[2])
<1> DEFINE p == pendingFrames
           q == frameQueue
           t == Tail(q)
           n == Len(q)
<1>1. /\ p \in Seq(Frame) /\ q \in Seq(Frame) /\ \A i \in 2 .. n : Untouched(q[i])
      /\ \A i \in 1 .. Len(p) : Untouched(p[i])
  BY DEF Queued
<1>2. /\ n \in Nat /\ n >= 1 /\ t \in Seq(Frame) /\ Len(t) = n - 1
      /\ \A i \in 1 .. Len(t) : t[i] = q[i + 1]
  BY <1>1, FrontFacts
<1>3. t = <<>> <=> Len(t) = 0
  BY <1>2, FrontFacts
<1> HIDE DEF t, n
<1>4. \A i \in 1 .. n - 1 : Untouched(t[i])
  <2> SUFFICES ASSUME NEW i \in 1 .. n - 1 PROVE Untouched(t[i])
    OBVIOUS
  <2>1. i + 1 \in 2 .. n
    BY <1>2
  <2>2. t[i] = q[i + 1]
    BY <1>2
  <2> QED
    BY <1>1, <2>1, <2>2, Zenon
<1>5. t # <<>> <=> n > 1
  BY <1>2, <1>3
<1>6. n > 1 => 1 \in 1 .. n - 1 /\ 1 + 1 = 2
  BY <1>2
<1>7. n > 1 => t[1] = q[2] /\ Untouched(q[2])
  BY <1>2, <1>4, <1>6
<1>8. \A i \in 2 .. Len(t) : Untouched(t[i])
  BY <1>2, <1>4
<1>9. t # <<>> => t[1].next = 0 /\ t[1].next <= LenOf(t[1])
  <2> SUFFICES ASSUME t # <<>> PROVE t[1].next = 0 /\ t[1].next <= LenOf(t[1])
    OBVIOUS
  <2>1. LenOf(t[1]) \in Nat
    BY <1>2, FrontFacts, FrameFacts
  <2>2. t[1].next = 0
    BY <1>5, <1>7, Zenon DEF Untouched
  <2> QED
    BY <2>1, <2>2
<1>10. frameQueue' = t /\ pendingFrames' = p
  BY DEF t
<1>11. Queued'
  BY <1>1, <1>2, <1>8, <1>9, <1>10 DEF Queued, CurrentFrame, Untouched
<1>12. FullCount' <= FullCount
  <2>1. FullCount = Full(p) + Full(q) /\ FullCount' = Full(p) + Full(t)
    BY <1>10, Zenon DEF FullCount, Full, Lengths, LenOf
  <2>2. Full(p) \in Nat /\ Full(t) \in Nat
    BY <1>1, <1>2, FullJoin
  <2>3. LenOf(q[1]) \in Nat /\ Full(q) = LenOf(q[1]) + Full(t)
    BY <1>1, FullFront DEF t
  <2> QED
    BY <2>1, <2>2, <2>3
<1> QED
  BY <1>5, <1>7, <1>10, <1>11, <1>12 DEF CurrentFrame, n

\* The front frame advances or starts again.
LEMMA FrontBecomes ==
    ASSUME Queued, frameQueue # <<>>, NEW f \in Frame,
           LenOf(f) = LenOf(CurrentFrame), f.next <= LenOf(f), f.played \/ f.next = 0,
           \/ frameQueue' = <<f>> \o Tail(frameQueue)
           \/ frameQueue' = [frameQueue EXCEPT ![1] = f],
           pendingFrames' = pendingFrames
    PROVE  /\ Queued' /\ FullCount' = FullCount
           /\ frameQueue' # <<>> /\ CurrentFrame' = f /\ Tail(frameQueue') = Tail(frameQueue)
<1> DEFINE p == pendingFrames
           q == frameQueue
           r == frameQueue'
           n == Len(q)
<1>1. /\ p \in Seq(Frame) /\ q \in Seq(Frame) /\ \A i \in 2 .. n : Untouched(q[i])
      /\ \A i \in 1 .. Len(p) : Untouched(p[i])
  BY DEF Queued
<1>2. /\ n \in Nat /\ n >= 1 /\ Tail(q) \in Seq(Frame) /\ Len(Tail(q)) = n - 1
      /\ \A i \in 1 .. n - 1 : Tail(q)[i] = q[i + 1]
  BY <1>1, FrontFacts
<1>3. /\ r \in Seq(Frame) /\ Len(r) = n /\ r[1] = f
      /\ \A i \in 2 .. n : r[i] = q[i]
  <2>1. CASE r = <<f>> \o Tail(q)
    <3> DEFINE t == Tail(q)
               s == <<f>>
    <3>1. s \in Seq(Frame) /\ Len(s) = 1 /\ s[1] = f
      OBVIOUS
    <3> HIDE DEF s, t
    <3>t. t \in Seq(Frame)
      BY <1>2 DEF t
    <3>2. /\ s \o t \in Seq(Frame) /\ Len(s \o t) = Len(s) + Len(t)
          /\ \A i \in 1 .. Len(s) : (s \o t)[i] = s[i]
          /\ \A i \in 1 .. Len(t) : (s \o t)[Len(s) + i] = t[i]
      <4>1. s \in Seq(Frame)
        BY <3>1
      <4> QED
        BY <4>1, <3>t, JoinFacts
    <3>3. r = s \o t
      BY <2>1 DEF s, t
    <3> HIDE DEF n, r
    <3>4. r \in Seq(Frame) /\ Len(r) = n /\ r[1] = f
      BY <1>2, <3>1, <3>2, <3>3 DEF t
    <3>5. ASSUME NEW i \in 2 .. n PROVE r[i] = q[i]
      <4>1. i - 1 \in 1 .. n - 1 /\ 1 + (i - 1) = i /\ (i - 1) + 1 = i
        BY <1>2
      <4>2. Len(t) = n - 1 /\ t[i - 1] = q[(i - 1) + 1]
        BY <1>2, <4>1 DEF t
      <4>3. r[1 + (i - 1)] = t[i - 1]
        BY <3>1, <3>2, <3>3, <4>1, <4>2
      <4> QED
        BY <4>1, <4>2, <4>3
    <3> QED
      BY <3>4, <3>5
  <2>2. CASE r = [q EXCEPT ![1] = f]
    <3>1. 1 \in 1 .. n
      BY <1>2
    <3>2. /\ r \in Seq(Frame) /\ Len(r) = n
          /\ \A j \in 1 .. n : r[j] = IF j = 1 THEN f ELSE q[j]
      BY <1>1, <2>2, <3>1, ExceptSeq
    <3> HIDE DEF r, n
    <3> QED
      BY <1>2, <3>1, <3>2
  <2> QED
    BY <2>1, <2>2
<1>4. r # <<>> /\ Tail(r) \in Seq(Frame) /\ Len(Tail(r)) = n - 1
      /\ \A i \in 1 .. n - 1 : Tail(r)[i] = r[i + 1]
  <2> HIDE DEF r, n
  <2>1. r # <<>>
    BY <1>2, <1>3
  <2> QED
    BY <1>3, <2>1, FrontFacts
<1> HIDE DEF n
<1>5. Tail(r) = Tail(q)
  <2> DEFINE t == Tail(q)
             u == Tail(r)
  <2>1. \A i \in 1 .. n - 1 : u[i] = t[i]
    <3> SUFFICES ASSUME NEW i \in 1 .. n - 1 PROVE u[i] = t[i]
      OBVIOUS
    <3>1. i + 1 \in 2 .. n
      BY <1>2
    <3> QED
      BY <1>2, <1>3, <1>4, <3>1, Zenon
  <2>2. u \in Seq(Frame) /\ t \in Seq(Frame) /\ Len(u) = n - 1 /\ Len(t) = n - 1
    BY <1>2, <1>4
  <2> HIDE DEF u, t
  <2>3. u = t
    BY <2>1, <2>2, SeqEqual
  <2> QED
    BY <2>3 DEF u, t
<1>6. Queued'
  <2>1. \A i \in 2 .. Len(r) : Untouched(r[i])
    BY <1>1, <1>3, Zenon
  <2>2. r[1].next <= LenOf(r[1]) /\ (r[1].played \/ r[1].next = 0)
    BY <1>3, Zenon
  <2>3. /\ p \in Seq(Frame) /\ r \in Seq(Frame)
        /\ \A i \in 1 .. Len(p) : Untouched(p[i])
    BY <1>1, <1>3
  <2>4. pendingFrames' = p
    OBVIOUS
  <2> QED
    BY <2>1, <2>2, <2>3, <2>4, Zenon DEF Queued, CurrentFrame, Untouched, LenOf
<1>7. FullCount' = FullCount
  <2>1. FullCount = Full(p) + Full(q) /\ FullCount' = Full(p) + Full(r)
    BY Zenon DEF FullCount, Full, Lengths, LenOf
  <2>2. \A i \in 1 .. n : LenOf(r[i]) = LenOf(q[i])
    <3>1. LenOf(r[1]) = LenOf(q[1])
      BY <1>3 DEF CurrentFrame
    <3>2. \A i \in 1 .. n : i = 1 \/ i \in 2 .. n
      BY <1>2
    <3> QED
      BY <1>3, <3>1, <3>2, Zenon
  <2>3. Full(r) = Full(q)
    <3>1. Len(r) = Len(q) /\ \A i \in 1 .. Len(r) : LenOf(r[i]) = LenOf(q[i])
      BY <1>3, <2>2 DEF n
    <3> QED
      BY <1>1, <1>3, <3>1, FullSame, Zenon
  <2> QED
    BY <2>1, <2>3
<1> QED
  BY <1>3, <1>4, <1>5, <1>6, <1>7, Zenon DEF CurrentFrame

\* A frame is enqueued.
LEMMA QueueGrows ==
    ASSUME Queued, NEW f \in Frame, Untouched(f),
           pendingFrames' = Append(pendingFrames, f), frameQueue' = frameQueue
    PROVE  /\ Queued' /\ FullCount' = FullCount + LenOf(f) /\ CurrentFrame' = CurrentFrame
<1> DEFINE p == pendingFrames
           q == frameQueue
           n == Len(p)
<1>1. p \in Seq(Frame) /\ q \in Seq(Frame) /\ \A i \in 1 .. n : Untouched(p[i])
  BY DEF Queued
<1>2. /\ p' \in Seq(Frame) /\ n \in Nat /\ Len(p') = n + 1
      /\ \A i \in 1 .. n : p'[i] = p[i]
      /\ p'[n + 1] = f
  BY <1>1, AddFacts
<1> HIDE DEF n
<1>3. \A i \in 1 .. Len(p') : Untouched(p'[i])
  <2> SUFFICES ASSUME NEW i \in 1 .. Len(p') PROVE Untouched(p'[i])
    OBVIOUS
  <2>1. i \in 1 .. n \/ i = n + 1
    BY <1>2
  <2> QED
    BY <1>1, <1>2, <2>1, Zenon
<1>4. Queued'
  BY <1>2, <1>3, Zenon DEF Queued, CurrentFrame, Untouched, LenOf
<1>5. FullCount' = FullCount + LenOf(f)
  <2>1. FullCount = Full(p) + Full(q) /\ FullCount' = Full(p') + Full(q)
    BY Zenon DEF FullCount, Full, Lengths, LenOf
  <2>2. Full(p) \in Nat /\ Full(p') = Full(p) + LenOf(f) /\ Full(q) \in Nat /\ LenOf(f) \in Nat
    BY <1>1, FullAdd, FullJoin, FrameFacts
  <2> QED
    BY <2>1, <2>2
<1> QED
  BY <1>4, <1>5, Zenon DEF CurrentFrame

\* Pending frames join the queue.
LEMMA QueuesJoin ==
    ASSUME Queued, frameQueue' = frameQueue \o pendingFrames, pendingFrames' = <<>>
    PROVE  /\ Queued' /\ FullCount' = FullCount
           /\ frameQueue # <<>> => frameQueue' # <<>> /\ CurrentFrame' = CurrentFrame
           /\ frameQueue = <<>> => frameQueue' = pendingFrames
           /\ frameQueue = <<>> /\ frameQueue' # <<>> => Untouched(CurrentFrame')
<1> DEFINE p == pendingFrames
           q == frameQueue
           r == q \o p
           m == Len(q)
           n == Len(p)
<1>1. /\ p \in Seq(Frame) /\ q \in Seq(Frame)
      /\ \A i \in 1 .. n : Untouched(p[i])
      /\ \A i \in 2 .. m : Untouched(q[i])
  BY DEF Queued
<1>2. /\ r \in Seq(Frame) /\ m \in Nat /\ n \in Nat /\ Len(r) = m + n
      /\ \A i \in 1 .. m : r[i] = q[i]
      /\ \A i \in 1 .. n : r[m + i] = p[i]
  BY <1>1, JoinFacts
<1>3. (q = <<>> <=> m = 0) /\ (p = <<>> <=> n = 0) /\ (r = <<>> <=> Len(r) = 0)
  BY <1>1, <1>2, FrontFacts
<1> HIDE DEF m, n, r
<1>4. \A i \in 1 .. m + n : i \in 1 .. m \/ (i - m \in 1 .. n /\ m + (i - m) = i)
  BY <1>2
<1>5. q # <<>> => r # <<>> /\ r[1] = q[1]
  BY <1>2, <1>3
<1>6. q = <<>> => r = p
  BY <1>1, ConcatEmptySeq DEF r
<1>7. q = <<>> /\ r # <<>> => Untouched(r[1])
  <2> SUFFICES ASSUME q = <<>>, r # <<>> PROVE Untouched(r[1])
    OBVIOUS
  <2>1. 1 \in 1 .. n
    BY <1>2, <1>3, <1>6
  <2> QED
    BY <1>1, <1>6, <2>1
<1>8. \A i \in 2 .. Len(r) : Untouched(r[i])
  <2> SUFFICES ASSUME NEW i \in 2 .. m + n PROVE Untouched(r[i])
    BY <1>2
  <2>1. CASE i <= m
    <3>1. i \in 1 .. m /\ i \in 2 .. m
      BY <1>2, <2>1
    <3> QED
      BY <1>1, <1>2, <3>1, Zenon
  <2>2. CASE ~(i <= m)
    <3>1. i - m \in 1 .. n /\ m + (i - m) = i
      BY <1>2, <2>2
    <3>2. r[m + (i - m)] = p[i - m] /\ Untouched(p[i - m])
      BY <1>1, <1>2, <3>1, Zenon
    <3> QED
      BY <3>1, <3>2, Zenon
  <2> QED
    BY <2>1, <2>2
<1>9. frameQueue' = r /\ pendingFrames' = <<>>
  BY DEF r
<1>10. r # <<>> => r[1].next <= LenOf(r[1]) /\ (r[1].played \/ r[1].next = 0)
  <2>1. q # <<>> => q[1].next <= LenOf(q[1]) /\ (q[1].played \/ q[1].next = 0)
    BY DEF Queued, CurrentFrame
  <2>2. r # <<>> => LenOf(r[1]) \in Nat
    BY <1>2, FrontFacts, FrameFacts
  <2>3. q = <<>> /\ r # <<>> => r[1].next = 0
    BY <1>7, Zenon DEF Untouched
  <2>4. q = <<>> /\ r # <<>> => r[1].next <= LenOf(r[1])
    BY <2>2, <2>3
  <2> QED
    BY <1>5, <2>1, <2>3, <2>4, Zenon
<1>11. Queued'
  <2>1. <<>> \in Seq(Frame) /\ \A i \in 1 .. Len(<<>>) : FALSE
    OBVIOUS
  <2> QED
    BY <1>2, <1>8, <1>9, <1>10, <2>1, Zenon DEF Queued, CurrentFrame, Untouched, LenOf
<1>12. FullCount' = FullCount
  <2>1. FullCount = Full(p) + Full(q) /\ FullCount' = Full(<<>>) + Full(r)
    BY <1>9, Zenon DEF FullCount, Full, Lengths, LenOf
  <2>2. Full(p) \in Nat /\ Full(q) \in Nat /\ Full(r) = Full(q) + Full(p)
    BY <1>1, FullJoin DEF r
  <2> QED
    BY <2>1, <2>2, FullOne
<1> QED
  BY <1>5, <1>6, <1>7, <1>9, <1>11, <1>12, Zenon DEF CurrentFrame, Untouched

\* The queues are cleared.
LEMMA QueuesEmptied ==
    ASSUME frameQueue' = <<>>, pendingFrames' = <<>>
    PROVE  Queued' /\ FullCount' = 0
<1>1. <<>> \in Seq(Frame) /\ Len(<<>>) = 0 /\ 1 .. 0 = {} /\ 2 .. 0 = {}
  OBVIOUS
<1>2. Queued'
  BY <1>1 DEF Queued
<1>3. FullCount' = Full(<<>>) + Full(<<>>)
  BY Zenon DEF FullCount, Full, Lengths, LenOf
<1> QED
  BY <1>2, <1>3, FullOne

\* A frame as time passes.
LEMMA LaterFacts ==
    ASSUME NEW f \in Frame
    PROVE  /\ Later(f) \in Frame /\ Later(f).id = f.id /\ Later(f).shape = f.shape
           /\ Later(f).next = f.next /\ Later(f).played = f.played
           /\ LenOf(Later(f)) = LenOf(f)
<1> DEFINE d == Greater(f.due - 1, 0)
           a == IF f.played THEN Lesser(f.age + 1, HoldTime) ELSE f.age
           g == [f EXCEPT !.due = d, !.age = a]
<1>1. Later(f) = g
  BY DEF Later
<1>2. f.due \in 0 .. MaxDue /\ f.age \in 0 .. HoldTime
  BY FrameFacts
<1>3. d \in 0 .. MaxDue
  BY <1>2, SchedulerAssumption DEF Greater
<1>4. a \in 0 .. HoldTime
  BY <1>2, SchedulerAssumption DEF Lesser
<1> HIDE DEF d, a
<1>5. g \in Frame /\ g.id = f.id /\ g.shape = f.shape /\ g.next = f.next
  BY <1>3, <1>4 DEF Frame
<1>6. g.played = f.played
  BY Zenon DEF Frame
<1> QED
  BY <1>1, <1>5, <1>6, Zenon DEF LenOf

\* A queue as time passes.
LEMMA AgedFacts ==
    ASSUME NEW q \in Seq(Frame)
    PROVE  LET r == [i \in DOMAIN q |-> Later(q[i])]
           IN  /\ r \in Seq(Frame) /\ Len(r) = Len(q) /\ Full(r) = Full(q)
               /\ \A i \in 1 .. Len(q) : r[i] = Later(q[i])
               /\ r = <<>> <=> q = <<>>
               /\ \A i \in 1 .. Len(q) : Untouched(q[i]) => Untouched(r[i])
<1> DEFINE n == Len(q)
           r == [i \in DOMAIN q |-> Later(q[i])]
           e(i) == Later(q[i])
<1>1. n \in Nat /\ DOMAIN q = 1 .. n /\ \A i \in 1 .. n : q[i] \in Frame
  BY LenProperties, ElementOfSeq
<1>2. \A i \in 1 .. n : e(i) \in Frame /\ LenOf(e(i)) = LenOf(q[i])
  BY <1>1, LaterFacts, Zenon
<1>3. r = [i \in 1 .. n |-> e(i)]
  BY <1>1
<1>4. \A i \in 1 .. n : Untouched(q[i]) => Untouched(e(i))
  BY <1>1, LaterFacts, Zenon DEF Untouched
<1> HIDE DEF n, r, e
<1>5. [i \in 1 .. n |-> e(i)] \in Seq(Frame) /\ Len([i \in 1 .. n |-> e(i)]) = n
  BY <1>1, <1>2, IsASeq
<1>6. \A i \in 1 .. n : r[i] = e(i)
  BY <1>3
<1>7. r \in Seq(Frame) /\ Len(r) = n
  BY <1>3, <1>5
<1>8. r = <<>> <=> q = <<>>
  BY <1>7, FrontFacts DEF n
<1>9. Full(r) = Full(q)
  <2>1. Len(r) = Len(q) /\ \A i \in 1 .. Len(r) : LenOf(r[i]) = LenOf(q[i])
    BY <1>2, <1>6, <1>7, Zenon DEF n
  <2> QED
    BY <1>7, <2>1, FullSame
<1>10. \A i \in 1 .. n : Untouched(q[i]) => Untouched(r[i])
  BY <1>4, <1>6, Zenon
<1> QED
  BY <1>6, <1>7, <1>8, <1>9, <1>10, Zenon DEF n, r, e

\* Time passes.
LEMMA QueuesAge ==
    ASSUME Queued, Tick
    PROVE  /\ Queued' /\ FullCount' = FullCount
           /\ frameQueue' # <<>> <=> frameQueue # <<>>
           /\ frameQueue # <<>> => CurrentFrame' = Later(CurrentFrame) /\ CurrentFrame \in Frame
<1> DEFINE p == pendingFrames
           q == frameQueue
           n == Len(q)
<1>1. /\ p \in Seq(Frame) /\ q \in Seq(Frame)
      /\ \A i \in 1 .. Len(p) : Untouched(p[i])
      /\ \A i \in 2 .. n : Untouched(q[i])
  BY DEF Queued
<1>2. /\ p' \in Seq(Frame) /\ Len(p') = Len(p) /\ Full(p') = Full(p)
      /\ \A i \in 1 .. Len(p) : Untouched(p[i]) => Untouched(p'[i])
  BY <1>1, AgedFacts, Zenon DEF Tick
<1>3. /\ q' \in Seq(Frame) /\ Len(q') = n /\ Full(q') = Full(q)
      /\ \A i \in 1 .. n : Untouched(q[i]) => Untouched(q'[i])
      /\ q' = <<>> <=> q = <<>>
      /\ \A i \in 1 .. n : q'[i] = Later(q[i])
  BY <1>1, AgedFacts, Zenon DEF Tick
<1>4. n \in Nat /\ (q # <<>> => n >= 1 /\ q[1] \in Frame)
  BY <1>1, FrontFacts
<1> HIDE DEF n
<1>5. q # <<>> => 1 \in 1 .. n
  BY <1>4
<1>6. q # <<>> => q'[1] = Later(q[1])
  BY <1>3, <1>5, Zenon
<1>7. \A i \in 2 .. n : Untouched(q'[i])
  <2>1. \A i \in 2 .. n : i \in 1 .. n
    BY <1>4
  <2> QED
    BY <1>1, <1>3, <2>1, Zenon
<1>8. \A i \in 1 .. Len(p') : Untouched(p'[i])
  BY <1>1, <1>2, Zenon
<1>9. q # <<>> => q'[1].next <= LenOf(q'[1]) /\ (q'[1].played \/ q'[1].next = 0)
  <2>1. q # <<>> => q[1].next <= LenOf(q[1]) /\ (q[1].played \/ q[1].next = 0)
    BY Zenon DEF Queued, CurrentFrame
  <2>2. q # <<>> => /\ Later(q[1]).next = q[1].next /\ Later(q[1]).played = q[1].played
                    /\ LenOf(Later(q[1])) = LenOf(q[1])
    BY <1>4, LaterFacts, Zenon
  <2> QED
    BY <1>6, <2>1, <2>2, Zenon
<1>10. Queued'
  BY <1>2, <1>3, <1>7, <1>8, <1>9, Zenon DEF Queued, CurrentFrame, Untouched, LenOf
<1>11. FullCount' = FullCount
  BY <1>2, <1>3, Zenon DEF FullCount, Full, Lengths, LenOf
<1> QED
  BY <1>3, <1>4, <1>6, <1>10, <1>11, Zenon DEF CurrentFrame

-----------------------------------------------------------------------------
(* What steps do to the fill.                                               *)

\* A request's parts.
LEMMA RequestFacts ==
    ASSUME NEW r \in Requests
    PROVE  /\ r.kind \in {"points", "frame"} /\ r.min \in Nat /\ r.max \in Nat /\ r.min <= r.max
           /\ r.blank \in Nat /\ r.blank # 0
<1>1. r \in Request /\ r.min <= r.max
  BY SchedulerAssumption
<1> QED
  BY <1>1 DEF Request

\* The queues are left alone.
LEMMA QueuesSame ==
    ASSUME Queued, frameQueue' = frameQueue, pendingFrames' = pendingFrames
    PROVE  Queued' /\ FullCount' = FullCount /\ CurrentFrame' = CurrentFrame
<1>1. Queued'
  BY Zenon DEF Queued, CurrentFrame, Untouched, LenOf
<1>2. FullCount' = FullCount
  BY Zenon DEF FullCount, Full, Lengths, LenOf
<1> QED
  BY <1>1, <1>2, Zenon DEF CurrentFrame

\* The front frame and the request at each place of a fill.
LEMMA PlaceFacts ==
    ASSUME IInv
    PROVE  /\ Queued /\ Accepted /\ Budgeted /\ Filling /\ OnBeam
           /\ frameQueue # <<>> =>
                /\ CurrentFrame \in Frame /\ CurrentFrame.next \in Nat
                /\ LenOf(CurrentFrame) \in Nat /\ LenOf(CurrentFrame) # 0
                /\ CurrentFrame.next <= LenOf(CurrentFrame)
                /\ CurrentFrame.played \/ CurrentFrame.next = 0
           /\ wpc # "idle" =>
                /\ req \in Requests
                /\ req.kind \in {"points", "frame"} /\ req.min \in Nat /\ req.max \in Nat
                /\ req.min <= req.max /\ req.blank \in Nat /\ req.blank # 0
           /\ outLen \in Nat
<1>1. Queued /\ Accepted /\ Budgeted /\ Filling /\ OnBeam
  BY Zenon DEF IInv
<1>2. ASSUME frameQueue # <<>>
      PROVE  /\ CurrentFrame \in Frame /\ CurrentFrame.next \in Nat
             /\ LenOf(CurrentFrame) \in Nat /\ LenOf(CurrentFrame) # 0
             /\ CurrentFrame.next <= LenOf(CurrentFrame)
             /\ CurrentFrame.played \/ CurrentFrame.next = 0
  <2>1. frameQueue \in Seq(Frame)
    BY <1>1, Zenon DEF Queued
  <2>2. CurrentFrame \in Frame
    BY <1>2, <2>1, FrontFacts, Zenon DEF CurrentFrame
  <2>3. CurrentFrame.next \in Nat /\ LenOf(CurrentFrame) \in Nat /\ LenOf(CurrentFrame) # 0
    BY <2>2, FrameFacts, Zenon
  <2> QED
    BY <1>1, <1>2, <2>2, <2>3, Zenon DEF Queued
<1>3. wpc # "idle" => req \in Requests
  BY <1>1, Zenon DEF Filling
<1>4. outLen \in Nat
  BY <1>1, Zenon DEF Filling
<1> QED
  BY <1>1, <1>2, <1>3, <1>4, RequestFacts, Zenon

\* No step of a fill accepts a frame, so none can break the budget.
LEMMA FillAccepts ==
    ASSUME IInv, UnchangedSend, Queued', FullCount' <= FullCount,
           transition' \in [left : 0 .. TransitionLen, to : Places]
    PROVE  Accepted' /\ Budgeted'
<1>1. nominal' = nominal /\ sending' = sending /\ sent' = sent
  BY DEF UnchangedSend
<1>2. Accepted'
  BY <1>1, PlaceFacts, Zenon DEF Accepted, Untouched
<1>3. FullCount \in Nat /\ FullCount' \in Nat
  <2>1. FullCount \in Nat
    BY CountFacts, PlaceFacts, Zenon
  <2>2. FullCount' = Full(pendingFrames') + Full(frameQueue')
    BY Zenon DEF FullCount, Full, Lengths, LenOf
  <2>3. pendingFrames' \in Seq(Frame) /\ frameQueue' \in Seq(Frame)
    BY Zenon DEF Queued
  <2>4. Full(pendingFrames') \in Nat /\ Full(frameQueue') \in Nat
    BY <2>3, FullJoin, Zenon
  <2> QED
    BY <2>1, <2>2, <2>4
<1> DEFINE B == QueuedPointBudgetFor(LongestFrame)
<1>4. B \in Nat /\ LongestFrame \in Nat
  BY SchedulerAssumption DEF QueuedPointBudgetFor, Greater
<1>5. FullCount <= B + 2 * LongestFrame /\ (sending # <<>> => FullCount <= B + LongestFrame)
  BY PlaceFacts, Zenon DEF Budgeted
<1>6. B' = B
  BY Zenon DEF QueuedPointBudgetFor, Greater
<1> HIDE DEF B
<1>7. FullCount' <= B + 2 * LongestFrame /\ (sending # <<>> => FullCount' <= B + LongestFrame)
  BY <1>3, <1>4, <1>5
<1> QED
  BY <1>1, <1>2, <1>6, <1>7, Zenon DEF Budgeted, B

\* A transition is generated between two ends, and what fits is handed over.
LEMMA TravelFacts ==
    ASSUME NEW from \in Places, NEW to \in Places, NEW after, Travel(from, to, after),
           outLen \in Nat, req.max \in Nat, outLen < req.max
    PROVE  /\ transition' \in [left : 0 .. TransitionLen, to : Places]
           /\ outLen' \in Nat /\ outLen' >= outLen
           /\ \/ wpc' = "return" /\ outLen' = req.max /\ beam'.kind = "transition"
              \/ wpc' = after /\ outLen' < req.max
           /\ \/ from = to /\ beam' = beam /\ wpc' = after /\ outLen' = outLen
              \/ beam'.kind = "transition"
<1>0. TransitionLen \in Nat \ {0}
  BY SchedulerAssumption
<1>1. CASE from = to
  BY <1>0, <1>1 DEF Travel, Jump
<1>2. CASE from # to
  <2> DEFINE d == Lesser(TransitionLen, req.max - outLen)
  <2>1. /\ transition' = [left |-> TransitionLen - d, to |-> to]
        /\ outLen' = outLen + d
        /\ beam' = IF d > 0 THEN TransitionPoint(TransitionLen - d, to) ELSE beam
        /\ wpc' = IF outLen + d = req.max THEN "return" ELSE after
    BY <1>2 DEF Travel, Jump
  <2>2. d \in 1 .. TransitionLen /\ d <= req.max - outLen
    BY <1>0 DEF Lesser
  <2> HIDE DEF d
  <2>3. beam'.kind = "transition"
    BY <2>1, <2>2 DEF TransitionPoint
  <2> QED
    BY <1>0, <2>1, <2>2, <2>3
<1> QED
  BY <1>1, <1>2

\* A frame of which some points have been shown is still a frame.
LEMMA ShownFacts ==
    ASSUME NEW c \in Frame, NEW k \in Nat
    PROVE  LET f == [c EXCEPT !.next = @ + k, !.played = TRUE]
           IN  /\ f \in Frame /\ f.id = c.id /\ f.shape = c.shape
               /\ f.next = c.next + k
<1> DEFINE m == c.next + k
           f == [c EXCEPT !.next = m, !.played = TRUE]
<1>1. m \in Nat
  BY FrameFacts
<1> HIDE DEF m
<1>2. f \in Frame /\ f.id = c.id /\ f.shape = c.shape /\ f.next = m
  BY <1>1 DEF Frame
<1> QED
  BY <1>2 DEF m

\* The next points of the front frame are shown.
LEMMA ShowFacts ==
    ASSUME IInv, frameQueue # <<>>, NEW n \in Nat, Show(n), pendingFrames' = pendingFrames,
           CurrentFrame.next + n <= LenOf(CurrentFrame)
    PROVE  /\ Queued' /\ FullCount' = FullCount /\ outLen' = outLen + n
           /\ frameQueue' # <<>> /\ Tail(frameQueue') = Tail(frameQueue)
           /\ CurrentFrame' \in Frame /\ CurrentFrame'.id = CurrentFrame.id
           /\ CurrentFrame'.shape = CurrentFrame.shape
           /\ CurrentFrame'.next = CurrentFrame.next + n /\ CurrentFrame'.played
           /\ n = 0 => beam' = beam
           /\ n > 0 => beam'.kind = "content" /\ OnFront'
<1> DEFINE c == CurrentFrame
           f == [c EXCEPT !.next = @ + n, !.played = TRUE]
<1>1. c \in Frame /\ c.next \in Nat /\ LenOf(c) \in Nat
  BY PlaceFacts, Zenon
<1>2. f \in Frame /\ f.id = c.id /\ f.shape = c.shape /\ f.next = c.next + n
  BY <1>1, ShownFacts
<1>3. f.played
  BY <1>1, Zenon DEF Frame
<1>4. /\ frameQueue' = <<f>> \o Tail(frameQueue) /\ outLen' = outLen + n
      /\ beam' = IF n > 0 THEN ContentPoint(f, f.next) ELSE beam
  BY Zenon DEF Show
<1> HIDE DEF f
<1>5. LenOf(f) = LenOf(c) /\ f.next <= LenOf(f)
  BY <1>2 DEF LenOf
<1>6. /\ Queued' /\ FullCount' = FullCount
      /\ frameQueue' # <<>> /\ CurrentFrame' = f /\ Tail(frameQueue') = Tail(frameQueue)
  BY <1>2, <1>3, <1>4, <1>5, FrontBecomes, PlaceFacts, Zenon
<1>7. n = 0 => beam' = beam
  BY <1>4
<1>8. n > 0 => beam' = ContentPoint(f, f.next)
  BY <1>4
<1>9. /\ ContentPoint(f, f.next).kind = "content" /\ ContentPoint(f, f.next).id = f.id
      /\ f.next = LenOf(f) => ContentPoint(f, f.next).place = <<f.shape.last>>
  BY DEF ContentPoint
<1>10. n > 0 => beam'.kind = "content" /\ beam'.id = f.id
                /\ (f.next = LenOf(f) => beam'.place = <<f.shape.last>>)
  BY <1>8, <1>9, Zenon
<1>11. n > 0 => OnFront'
  <2>1. LenOf(CurrentFrame)' = LenOf(f) /\ CurrentFrame' = f
    BY <1>6, Zenon DEF LenOf
  <2> QED
    BY <1>3, <1>6, <1>10, <2>1, Zenon DEF OnFront
<1> QED
  BY <1>2, <1>3, <1>4, <1>6, <1>7, <1>10, <1>11, Zenon

-----------------------------------------------------------------------------
(* The application and the clock.                                           *)

\* Between two fills nothing but the queues and the beam matters.
LEMMA IdleFills ==
    ASSUME Filling, wpc = "idle", wpc' = wpc, req' = req, lead' = lead, outLen' = outLen,
           ret' = ret
    PROVE  Filling'
  BY Zenon DEF Filling, Fits

\* The beam stays where it was if the front frame does.
LEMMA BeamStays ==
    ASSUME OnBeam, beam' = beam, wpc' = wpc, req' = req, frameQueue # <<>> => frameQueue' # <<>>,
           frameQueue # <<>> =>
               /\ CurrentFrame'.id = CurrentFrame.id /\ CurrentFrame'.next = CurrentFrame.next
               /\ CurrentFrame'.shape = CurrentFrame.shape
               /\ CurrentFrame'.played = CurrentFrame.played
    PROVE  OnBeam'
<1>1. frameQueue # <<>> => LenOf(CurrentFrame)' = LenOf(CurrentFrame)
  BY Zenon DEF LenOf
<1>2. OnFront => OnFront'
  BY <1>1, Zenon DEF OnFront
<1>3. Continuing => Continuing'
  BY Zenon DEF Continuing
<1>4. Covered => Covered'
  BY Zenon DEF Covered
<1> QED
  BY <1>2, <1>3, <1>4, Zenon DEF OnBeam

\* A frame just made has a number of its own and has not been shown.
LEMMA NewFrameFacts ==
    ASSUME IInv, sent < MaxFrames, NEW shape \in Shapes, NEW due \in 0 .. MaxDue
    PROVE  NewFrame(shape, due) \in Frame /\ Untouched(NewFrame(shape, due))
<1>1. sent + 1 \in 1 .. MaxFrames /\ 0 \in 0 .. HoldTime
  BY SchedulerAssumption, PlaceFacts DEF Accepted
<1> DEFINE k == sent + 1
<1> HIDE DEF k
<1>2. [id |-> k, shape |-> shape, due |-> due, next |-> 0,
       played |-> FALSE, age |-> 0] \in Frame
  BY <1>1 DEF Frame, k
<1>3. NewFrame(shape, due) = [id |-> k, shape |-> shape, due |-> due, next |-> 0,
                              played |-> FALSE, age |-> 0]
  BY DEF NewFrame, k
<1>4. NewFrame(shape, due).next = 0
  BY DEF NewFrame
<1>5. ~NewFrame(shape, due).played
  BY DEF NewFrame
<1> QED
  BY <1>2, <1>3, <1>4, <1>5, Zenon DEF Untouched

\* A frame is accepted only while all frames at full length are within the
\* budget and the front frame.
LEMMA ReadyFacts ==
    ASSUME IInv, QueuedPointCount <= QueuedPointBudget
    PROVE  /\ FullCount \in Nat /\ QueuedPointBudgetFor(LongestFrame) \in Nat
           /\ LongestFrame \in Nat
           /\ FullCount <= QueuedPointBudgetFor(LongestFrame) + LongestFrame
<1>1. /\ FullCount \in Nat /\ QueuedPointCount \in Int
      /\ FullCount <= QueuedPointCount + LongestFrame
  BY CountFacts, PlaceFacts, Zenon
<1>2. LatencyPoints \in Nat /\ LongestFrame \in Nat
  BY SchedulerAssumption
<1>3. nominal \in Nat /\ nominal <= LongestFrame
  BY <1>2, PlaceFacts DEF Accepted
<1>4. /\ QueuedPointBudgetFor(LongestFrame) \in Nat /\ QueuedPointBudget \in Nat
      /\ QueuedPointBudget <= QueuedPointBudgetFor(LongestFrame)
  BY <1>2, <1>3 DEF QueuedPointBudget, QueuedPointBudgetFor, Greater
<1> QED
  BY <1>1, <1>2, <1>4

\* The check of sendFrame accepts a frame that is within the budget.
LEMMA KeptBySendFrameCheck ==
    ASSUME IInv, NEW shape \in Shapes, NEW due \in 0 .. MaxDue, SendFrameCheck(shape, due)
    PROVE  IInv'
<1> DEFINE f == NewFrame(shape, due)
<1>1. /\ wpc = "idle" /\ sending = <<>> /\ sent < MaxFrames /\ sending' = <<f>>
      /\ QueuedPointCount <= QueuedPointBudget
      /\ pendingFrames' = pendingFrames /\ frameQueue' = frameQueue /\ transition' = transition
      /\ nominal' = nominal /\ sent' = sent
      /\ wpc' = wpc /\ req' = req /\ lead' = lead /\ outLen' = outLen /\ beam' = beam
      /\ ret' = ret
  BY Zenon DEF SendFrameCheck, UnchangedFill, queues
<1>2. f \in Frame /\ Untouched(f)
  BY <1>1, NewFrameFacts, Zenon
<1> HIDE DEF f
<1>3. Queued' /\ FullCount' = FullCount /\ CurrentFrame' = CurrentFrame
  BY <1>1, PlaceFacts, QueuesSame, Zenon
<1>4. sending' \in Seq(Frame) /\ Len(sending') = 1 /\ sending'[1] = f
  BY <1>1, <1>2
<1>5. Accepted'
  <2>1. Untouched(sending[1])'
    BY <1>2, <1>4, Zenon DEF Untouched
  <2>2. Len(sending') <= 1
    BY <1>4
  <2> QED
    BY <1>1, <1>4, <2>1, <2>2, PlaceFacts, Zenon DEF Accepted
<1>6. Budgeted'
  BY <1>1, <1>3, ReadyFacts DEF Budgeted
<1>7. Filling'
  BY <1>1, PlaceFacts, IdleFills, Zenon
<1>8. OnBeam'
  BY <1>1, <1>3, PlaceFacts, BeamStays, Zenon
<1> QED
  BY <1>3, <1>5, <1>6, <1>7, <1>8, Zenon DEF IInv

\* A frame that was accepted joins the pending ones.
LEMMA EnqueueFacts ==
    ASSUME IInv, wpc = "idle", NEW f \in Frame, Untouched(f), sent < MaxFrames,
           EnqueueFrame(f), sending' = <<>>, UNCHANGED <<frameQueue, transition>>,
           UnchangedFill,
           FullCount <= QueuedPointBudgetFor(LongestFrame) + LongestFrame
    PROVE  IInv'
<1>1. /\ pendingFrames' = Append(pendingFrames, f) /\ frameQueue' = frameQueue
      /\ transition' = transition /\ nominal' = LenOf(f) /\ sent' = sent + 1
      /\ wpc' = wpc /\ req' = req /\ lead' = lead /\ outLen' = outLen /\ beam' = beam
      /\ ret' = ret
  BY Zenon DEF EnqueueFrame, UnchangedFill
<1>2. Queued' /\ FullCount' = FullCount + LenOf(f) /\ CurrentFrame' = CurrentFrame
  BY <1>1, PlaceFacts, QueueGrows, Zenon
<1>3. LenOf(f) \in 1 .. LongestFrame
  BY FrameFacts, Zenon
<1>4. Accepted'
  <2>1. sent' \in 0 .. MaxFrames
    BY <1>1, PlaceFacts, SchedulerAssumption DEF Accepted
  <2>2. sending' \in Seq(Frame) /\ Len(sending') <= 1
    BY EmptySeq
  <2> QED
    BY <1>1, <1>3, <2>1, <2>2, PlaceFacts, Zenon DEF Accepted
<1>5. Budgeted'
  <2>1. FullCount \in Nat /\ LongestFrame \in Nat
    BY CountFacts, PlaceFacts, SchedulerAssumption, Zenon
  <2>2. QueuedPointBudgetFor(LongestFrame) \in Nat
    BY <2>1, SchedulerAssumption DEF QueuedPointBudgetFor, Greater
  <2> DEFINE B == QueuedPointBudgetFor(LongestFrame)
  <2> HIDE DEF B
  <2>3. FullCount + LenOf(f) <= B + 2 * LongestFrame
    BY <1>3, <2>1, <2>2 DEF B
  <2> QED
    BY <1>2, <2>3, Zenon DEF Budgeted, B
<1>6. Filling'
  BY <1>1, PlaceFacts, IdleFills, Zenon
<1>7. OnBeam'
  BY <1>1, <1>2, PlaceFacts, BeamStays, Zenon
<1> QED
  BY <1>2, <1>4, <1>5, <1>6, <1>7, Zenon DEF IInv

\* sendFrame enqueues the frame it accepted: the budget held at the check, and
\* nothing was accepted in between.
LEMMA KeptBySendFrameEnqueue ==
    ASSUME IInv, SendFrameEnqueue
    PROVE  IInv'
<1> DEFINE f == sending[1]
<1>1. /\ wpc = "idle" /\ sending # <<>> /\ EnqueueFrame(f) /\ sending' = <<>>
      /\ UNCHANGED <<frameQueue, transition>> /\ UnchangedFill
  BY Zenon DEF SendFrameEnqueue
<1>2. sending \in Seq(Frame) /\ Untouched(f) /\ sent < MaxFrames
  BY <1>1, PlaceFacts, Zenon DEF Accepted
<1>3. f \in Frame
  BY <1>1, <1>2, FrontFacts, Zenon
<1>4. FullCount <= QueuedPointBudgetFor(LongestFrame) + LongestFrame
  BY <1>1, PlaceFacts, Zenon DEF Budgeted
<1> HIDE DEF f
<1> QED
  BY <1>1, <1>2, <1>3, <1>4, EnqueueFacts, Zenon

\* trySendFrame checks and enqueues at once.
LEMMA KeptByTrySendFrame ==
    ASSUME IInv, NEW shape \in Shapes, NEW due \in 0 .. MaxDue, TrySendFrame(shape, due)
    PROVE  IInv'
<1> DEFINE f == NewFrame(shape, due)
<1>1. /\ wpc = "idle" /\ sending = <<>> /\ sent < MaxFrames /\ EnqueueFrame(f)
      /\ QueuedPointCount <= QueuedPointBudget /\ sending' = <<>>
      /\ UNCHANGED <<frameQueue, transition>> /\ UnchangedFill
  BY Zenon DEF TrySendFrame
<1>2. f \in Frame /\ Untouched(f)
  BY <1>1, NewFrameFacts, Zenon
<1>3. FullCount <= QueuedPointBudgetFor(LongestFrame) + LongestFrame
  BY <1>1, ReadyFacts, Zenon
<1> HIDE DEF f
<1> QED
  BY <1>1, <1>2, <1>3, EnqueueFacts, Zenon

\* A reset empties the queues.
LEMMA KeptByReset ==
    ASSUME IInv, Reset
    PROVE  IInv'
<1>1. /\ wpc = "idle" /\ sending = <<>> /\ sending' = sending /\ nominal' = 1
      /\ pendingFrames' = <<>> /\ frameQueue' = <<>> /\ sent' = sent
      /\ transition' = [transition EXCEPT !.left = 0] /\ beam' = BlankPoint
      /\ wpc' = wpc /\ req' = req /\ lead' = lead /\ outLen' = outLen /\ ret' = ret
  BY Zenon DEF Reset
<1>2. Queued' /\ FullCount' = 0
  BY <1>1, QueuesEmptied, Zenon
<1>3. Accepted'
  <2>1. transition' \in [left : 0 .. TransitionLen, to : Places]
    BY <1>1, PlaceFacts, SchedulerAssumption DEF Accepted
  <2>2. nominal' \in 1 .. LongestFrame
    BY <1>1, SchedulerAssumption
  <2> QED
    BY <1>1, <2>1, <2>2, PlaceFacts, Zenon DEF Accepted
<1>4. Budgeted'
  <2>1. LongestFrame \in Nat /\ QueuedPointBudgetFor(LongestFrame) \in Nat
    BY SchedulerAssumption DEF QueuedPointBudgetFor, Greater
  <2> QED
    BY <1>1, <1>2, <2>1 DEF Budgeted
<1>5. Filling'
  BY <1>1, PlaceFacts, IdleFills, Zenon
<1>6. OnBeam'
  BY <1>1 DEF OnBeam, BlankPoint
<1> QED
  BY <1>2, <1>3, <1>4, <1>5, <1>6, Zenon DEF IInv

\* Time passes between two fills.
LEMMA KeptByTick ==
    ASSUME IInv, Tick
    PROVE  IInv'
<1>1. /\ wpc = "idle" /\ sending' = [i \in DOMAIN sending |-> Later(sending[i])]
      /\ transition' = transition /\ nominal' = nominal /\ sent' = sent
      /\ wpc' = wpc /\ req' = req /\ lead' = lead /\ outLen' = outLen /\ beam' = beam
      /\ ret' = ret
  BY Zenon DEF Tick, UnchangedFill
<1>2. /\ Queued' /\ FullCount' = FullCount
      /\ frameQueue' # <<>> <=> frameQueue # <<>>
      /\ frameQueue # <<>> => CurrentFrame' = Later(CurrentFrame) /\ CurrentFrame \in Frame
  BY PlaceFacts, QueuesAge, Zenon
<1>3. sending \in Seq(Frame) /\ Len(sending) <= 1 /\ (sending # <<>> => Untouched(sending[1]))
  BY PlaceFacts, Zenon DEF Accepted
<1>4. /\ sending' \in Seq(Frame) /\ Len(sending') = Len(sending)
      /\ sending' = <<>> <=> sending = <<>>
      /\ \A i \in 1 .. Len(sending) : Untouched(sending[i]) => Untouched(sending'[i])
  BY <1>1, <1>3, AgedFacts, Zenon
<1>5. Accepted'
  <2>1. sending # <<>> => 1 \in 1 .. Len(sending)
    BY <1>3, FrontFacts
  <2>2. sending' # <<>> => Untouched(sending'[1])
    BY <1>3, <1>4, <2>1, Zenon
  <2> QED
    BY <1>1, <1>3, <1>4, <2>2, PlaceFacts, Zenon DEF Accepted, Untouched
<1>6. Budgeted'
  BY <1>2, <1>4, PlaceFacts, Zenon DEF Budgeted, QueuedPointBudgetFor
<1>7. Filling'
  BY <1>1, PlaceFacts, IdleFills, Zenon
<1>8. OnBeam'
  <2>1. frameQueue # <<>> =>
            /\ CurrentFrame'.id = CurrentFrame.id /\ CurrentFrame'.next = CurrentFrame.next
            /\ CurrentFrame'.shape = CurrentFrame.shape
            /\ CurrentFrame'.played = CurrentFrame.played
    BY <1>2, LaterFacts, Zenon
  <2> QED
    BY <1>1, <1>2, <2>1, PlaceFacts, BeamStays, Zenon
<1> QED
  BY <1>2, <1>5, <1>6, <1>7, <1>8, Zenon DEF IInv

-----------------------------------------------------------------------------
(* Both fills.                                                              *)

\* What has to hold where a step of a fill leads to.
GoesOn ==
    \/ wpc' = "return" /\ Fits(req, outLen)'
    \/ wpc' = "blank" /\ outLen' < req'.max
    \/ wpc' = "skip" /\ frameQueue' # <<>> /\ outLen' < req'.max
    \/ wpc' = req'.kind /\ frameQueue' # <<>> /\ outLen' < req'.max
    \/ /\ wpc' = "advance" /\ frameQueue' # <<>> /\ outLen' < req'.max /\ req'.kind = "points"
       /\ outLen' < req'.min /\ CurrentFrame'.next = LenOf(CurrentFrame')

\* A fill that goes on is in order.
LEMMA FillGoesOn ==
    ASSUME req' \in Requests, lead' \in 0 .. MaxLead, outLen' \in Nat, GoesOn,
           ret' \in [req : Requests \cup {NoRequest}, len : Nat], Fits(ret.req, ret.len)'
    PROVE  Filling'
<1>1. CASE wpc' = "return" /\ Fits(req, outLen)'
  BY <1>1 DEF Filling
<1>2. CASE wpc' = "blank" /\ outLen' < req'.max
  BY <1>2 DEF Filling
<1>3. CASE wpc' = "skip" /\ frameQueue' # <<>> /\ outLen' < req'.max
  BY <1>3 DEF Filling
<1>4. CASE wpc' = req'.kind /\ frameQueue' # <<>> /\ outLen' < req'.max
  <2>1. req'.kind \in {"points", "frame"}
    BY RequestFacts, Zenon
  <2> QED
    BY <1>4, <2>1 DEF Filling
<1>5. CASE /\ wpc' = "advance" /\ frameQueue' # <<>> /\ outLen' < req'.max
           /\ req'.kind = "points"
           /\ outLen' < req'.min /\ CurrentFrame'.next = LenOf(CurrentFrame')
  <2>1. (CurrentFrame.next = LenOf(CurrentFrame))'
    BY <1>5, Zenon DEF LenOf
  <2> QED
    BY <1>5, <2>1 DEF Filling
<1> QED
  BY <1>1, <1>2, <1>3, <1>4, <1>5, Zenon DEF GoesOn

\* A step of a fill keeps the request and leaves the application's side alone.
LEMMA FillStepFacts ==
    ASSUME IInv, wpc # "idle", Queued', FullCount' <= FullCount, OnBeam', outLen' \in Nat,
           transition' \in [left : 0 .. TransitionLen, to : Places], GoesOn,
           UnchangedSend, req' = req, lead' = lead, ret' = ret
    PROVE  IInv'
<1>1. Accepted' /\ Budgeted'
  BY FillAccepts, Zenon
<1>2. Filling'
  <2>1. /\ req \in Requests /\ lead \in 0 .. MaxLead
        /\ ret \in [req : Requests \cup {NoRequest}, len : Nat] /\ Fits(ret.req, ret.len)
    BY PlaceFacts, Zenon DEF Filling
  <2>2. Fits(ret.req, ret.len)'
    BY <2>1, Zenon DEF Fits
  <2> QED
    BY <2>1, <2>2, FillGoesOn, Zenon
<1> QED
  BY <1>1, <1>2, Zenon DEF IInv

\* A fill begins with what is left of a transition.
LEMMA KeptByBeginFill ==
    ASSUME IInv, NEW r \in Requests, NEW ahead \in 0 .. MaxLead, BeginFill(r, ahead)
    PROVE  IInv'
<1> DEFINE d == Lesser(transition.left, r.max)
           left == transition.left - d
<1>1. /\ wpc = "idle" /\ frameQueue' = frameQueue \o pendingFrames /\ pendingFrames' = <<>>
      /\ req' = r /\ lead' = ahead /\ transition' = [transition EXCEPT !.left = left]
      /\ outLen' = d /\ ret' = NoReturn /\ UnchangedSend
      /\ beam' = IF d > 0 THEN TransitionPoint(left, transition.to) ELSE beam
      /\ wpc' = IF d = r.max THEN "return" ELSE IF frameQueue' = <<>> THEN "blank" ELSE "skip"
  BY Zenon DEF BeginFill
<1>2. transition \in [left : 0 .. TransitionLen, to : Places]
  BY PlaceFacts, Zenon DEF Accepted
<1>3. /\ r.kind \in {"points", "frame"} /\ r.min \in Nat /\ r.max \in Nat /\ r.min <= r.max
  BY RequestFacts, Zenon
<1>4. d \in Nat /\ d <= r.max /\ left \in 0 .. TransitionLen
  BY <1>2, <1>3, SchedulerAssumption DEF Lesser
<1> HIDE DEF d, left
<1>5. transition' \in [left : 0 .. TransitionLen, to : Places]
  BY <1>1, <1>2, <1>4
<1>6. /\ Queued' /\ FullCount' = FullCount
      /\ frameQueue # <<>> => frameQueue' # <<>> /\ CurrentFrame' = CurrentFrame
  BY <1>1, PlaceFacts, QueuesJoin, Zenon
<1>7. Accepted' /\ Budgeted'
  <2>1. FullCount' <= FullCount
    BY <1>6, PlaceFacts, CountFacts
  <2> QED
    BY <1>1, <1>5, <1>6, <2>1, FillAccepts, Zenon
<1>8. Filling'
  <2>1. GoesOn
    <3>1. CASE d = r.max
      BY <1>1, <1>3, <1>4, <3>1 DEF GoesOn, Fits
    <3>2. CASE d # r.max
      BY <1>1, <1>3, <1>4, <3>2 DEF GoesOn
    <3> QED
      BY <3>1, <3>2
  <2>2. ret' \in [req : Requests \cup {NoRequest}, len : Nat]
    BY <1>1 DEF NoReturn
  <2>3. Fits(ret.req, ret.len)'
    BY <1>1 DEF NoReturn, NoRequest, Fits
  <2> QED
    BY <1>1, <1>4, <2>1, <2>2, <2>3, FillGoesOn, Zenon
<1>9. OnBeam'
  <2>1. CASE d > 0
    BY <1>1, <2>1 DEF OnBeam, TransitionPoint
  <2>2. CASE ~(d > 0)
    <3>1. beam' = beam
      BY <1>1, <2>2, Zenon
    <3>2. SUFFICES ASSUME beam.kind = "content" PROVE OnFront'
      BY <3>1, Zenon DEF OnBeam
    <3>3. OnFront
      BY <1>1, <3>2, PlaceFacts DEF OnBeam, Continuing, Covered
    <3> QED
      BY <1>6, <3>1, <3>3, Zenon DEF OnFront, LenOf
  <2> QED
    BY <2>1, <2>2
<1> QED
  BY <1>6, <1>7, <1>8, <1>9, Zenon DEF IInv

\* Where no frame is about to be shown or covered, a frame's point is the front
\* frame's.
LEMMA BeamAtFront ==
    ASSUME IInv, wpc \notin {"points", "frame", "blank"}, beam.kind = "content"
    PROVE  OnFront
  BY PlaceFacts DEF OnBeam, Continuing, Covered

\* It stays so.
LEMMA FrontStays ==
    ASSUME OnFront, frameQueue' = frameQueue, beam' = beam
    PROVE  OnFront'
<1>1. CurrentFrame' = CurrentFrame
  BY Zenon DEF CurrentFrame
<1> QED
  BY <1>1, Zenon DEF OnFront, LenOf

\* The transition waiting to be handed over.
LEMMA TransitionFacts ==
    ASSUME IInv, transition' = transition
    PROVE  transition' \in [left : 0 .. TransitionLen, to : Places]
  BY PlaceFacts, Zenon DEF Accepted

\* What the places of a fill share.
LEMMA RoomFacts ==
    ASSUME IInv, wpc \in {"skip", "points", "advance", "frame"}
    PROVE  frameQueue # <<>> /\ outLen < req.max /\ wpc # "idle" /\ req.max \in Nat
  BY PlaceFacts DEF Filling

\* A front frame nobody has seen is skipped: the beam is not on it.
LEMMA KeptBySkipStale ==
    ASSUME IInv, SkipStale
    PROVE  IInv'
<1>1. /\ wpc = "skip" /\ Len(frameQueue) > 1 /\ ~CurrentFrame.played
      /\ frameQueue' = Tail(frameQueue) /\ pendingFrames' = pendingFrames
      /\ transition' = transition /\ UnchangedSend
      /\ wpc' = wpc /\ req' = req /\ lead' = lead /\ outLen' = outLen /\ beam' = beam
      /\ ret' = ret
  BY Zenon DEF SkipStale, StaleFront, UnchangedFill
<1>2. frameQueue # <<>> /\ outLen < req.max /\ wpc # "idle"
  BY <1>1, RoomFacts
<1>3. Queued' /\ FullCount' <= FullCount /\ frameQueue' # <<>>
  BY <1>1, <1>2, PlaceFacts, FrontGoes, Zenon
<1>4. OnBeam'
  <2>1. beam.kind # "content"
    BY <1>1, BeamAtFront DEF OnFront
  <2> QED
    BY <1>1, <2>1, Zenon DEF OnBeam
<1>5. GoesOn
  BY <1>1, <1>2, <1>3, Zenon DEF GoesOn
<1> QED
  BY <1>1, <1>2, <1>3, <1>4, <1>5, PlaceFacts, TransitionFacts, FillStepFacts, Zenon

\* The scheduled time is checked: a frame that is not due has not been begun.
LEMMA KeptByGate ==
    ASSUME IInv, Gate
    PROVE  IInv'
<1>1. /\ wpc = "skip" /\ wpc' = (IF FrontNotDue THEN "blank" ELSE req.kind)
      /\ frameQueue' = frameQueue /\ pendingFrames' = pendingFrames
      /\ transition' = transition /\ UnchangedSend
      /\ req' = req /\ lead' = lead /\ outLen' = outLen /\ beam' = beam
      /\ ret' = ret
  BY Zenon DEF Gate
<1>2. frameQueue # <<>> /\ outLen < req.max /\ wpc # "idle"
  BY <1>1, RoomFacts
<1>3. Queued' /\ FullCount' = FullCount /\ FullCount \in Nat
  BY <1>1, PlaceFacts, QueuesSame, CountFacts, Zenon
<1>4. FullCount' <= FullCount
  BY <1>3
<1>5. OnBeam'
  <2>1. beam.kind = "content" => OnFront
    BY <1>1, BeamAtFront
  <2> QED
    BY <1>1, <2>1, FrontStays, Zenon DEF OnBeam
<1>6. GoesOn
  BY <1>1, <1>2, Zenon DEF GoesOn
<1> QED
  BY <1>1, <1>2, <1>3, <1>4, <1>5, <1>6, PlaceFacts, TransitionFacts, FillStepFacts, Zenon

\* Blank points fill the request, or a blank frame replaces what was drained.
LEMMA KeptByBlank ==
    ASSUME IInv, Blank
    PROVE  IInv'
<1>1. /\ wpc = "blank" /\ wpc' = "return"
      /\ outLen' = IF req.kind = "points" THEN outLen + req.min ELSE Lesser(req.blank, req.max)
      /\ beam' = IF req.kind = "points" /\ req.min = 0 THEN beam ELSE BlankPoint
      /\ frameQueue' = frameQueue /\ pendingFrames' = pendingFrames
      /\ transition' = transition /\ UnchangedSend
      /\ req' = req /\ lead' = lead /\ ret' = ret
  BY Zenon DEF Blank
<1>2. outLen < req.max /\ wpc # "idle"
  BY <1>1, PlaceFacts DEF Filling
<1>3. Queued' /\ FullCount' = FullCount /\ FullCount \in Nat
  BY <1>1, PlaceFacts, QueuesSame, CountFacts, Zenon
<1>4. FullCount' <= FullCount
  BY <1>3
<1>5. /\ req.kind \in {"points", "frame"} /\ req.min \in Nat /\ req.max \in Nat
      /\ req.min <= req.max /\ req.blank \in Nat /\ outLen \in Nat
  BY <1>2, PlaceFacts, Zenon
<1>6. outLen' \in Nat
  BY <1>1, <1>5 DEF Lesser
<1>7. OnBeam'
  <2>1. CASE req.kind = "points" /\ req.min = 0
    <3>1. beam' = beam
      BY <1>1, <2>1, Zenon
    <3>2. beam.kind = "content" => OnFront
      BY <1>1, <2>1, PlaceFacts DEF OnBeam, Continuing, Covered
    <3> QED
      BY <1>1, <3>1, <3>2, FrontStays, Zenon DEF OnBeam
  <2>2. CASE ~(req.kind = "points" /\ req.min = 0)
    BY <1>1, <2>2 DEF OnBeam, BlankPoint
  <2> QED
    BY <2>1, <2>2
<1>8. GoesOn
  <2>1. Fits(req, outLen)'
    BY <1>1, <1>2, <1>5 DEF Fits, Lesser
  <2> QED
    BY <1>1, <2>1, Zenon DEF GoesOn
<1> QED
  BY <1>1, <1>2, <1>3, <1>4, <1>6, <1>7, <1>8, TransitionFacts, FillStepFacts, Zenon

\* The fill returns what it has.
LEMMA KeptByReturn ==
    ASSUME IInv, Return
    PROVE  IInv'
<1>1. /\ wpc = "return" /\ wpc' = "idle" /\ ret' = [req |-> req, len |-> outLen]
      /\ frameQueue' = frameQueue /\ pendingFrames' = pendingFrames
      /\ transition' = transition /\ UnchangedSend
      /\ req' = NoRequest /\ lead' = 0 /\ outLen' = 0 /\ beam' = beam
  BY Zenon DEF Return
<1>2. Queued' /\ FullCount' = FullCount /\ FullCount \in Nat
  BY <1>1, PlaceFacts, QueuesSame, CountFacts, Zenon
<1>3. FullCount' <= FullCount
  BY <1>2
<1>4. Accepted' /\ Budgeted'
  BY <1>1, <1>2, <1>3, TransitionFacts, FillAccepts, Zenon
<1>5. Filling'
  <2>1. req \in Requests /\ outLen \in Nat /\ Fits(req, outLen)
    BY <1>1, PlaceFacts DEF Filling
  <2>2. ret'.req = req /\ ret'.len = outLen
    BY <1>1
  <2>3. ret' \in [req : Requests \cup {NoRequest}, len : Nat]
    BY <1>1, <2>1
  <2>4. Fits(ret.req, ret.len)'
    BY <2>1, <2>2, Zenon DEF Fits
  <2>5. 0 \in 0 .. MaxLead
    BY SchedulerAssumption
  <2> QED
    BY <1>1, <2>3, <2>4, <2>5 DEF Filling
<1>6. OnBeam'
  <2>1. beam.kind = "content" => OnFront
    BY <1>1, BeamAtFront
  <2> QED
    BY <1>1, <2>1, FrontStays, Zenon DEF OnBeam
<1> QED
  BY <1>2, <1>4, <1>5, <1>6, Zenon DEF IInv

-----------------------------------------------------------------------------
(* The loops of the two fills.                                              *)

\* Points of the front frame are copied, up to its end or the request's.
LEMMA KeptByCopyPoints ==
    ASSUME IInv, CopyPoints
    PROVE  IInv'
<1> DEFINE n == Lesser(LenOf(CurrentFrame) - CurrentFrame.next, req.max - outLen)
<1>1. /\ wpc = "points" /\ Show(n)
      /\ wpc' = IF \/ outLen' >= req.min /\ CurrentFrame.next + n >= LenOf(CurrentFrame)
                   \/ outLen' = req.max
                THEN "return" ELSE "advance"
      /\ pendingFrames' = pendingFrames /\ transition' = transition /\ UnchangedSend
      /\ req' = req /\ lead' = lead /\ ret' = ret
  BY Zenon DEF CopyPoints
<1>2. frameQueue # <<>> /\ outLen < req.max /\ wpc # "idle" /\ req.kind = "points"
  BY <1>1, RoomFacts, PlaceFacts DEF Filling
<1>3. /\ CurrentFrame \in Frame /\ CurrentFrame.next \in Nat
      /\ LenOf(CurrentFrame) \in Nat /\ LenOf(CurrentFrame) # 0
      /\ CurrentFrame.next <= LenOf(CurrentFrame)
      /\ CurrentFrame.played \/ CurrentFrame.next = 0
      /\ req.min \in Nat /\ req.max \in Nat /\ req.min <= req.max /\ outLen \in Nat
  BY <1>2, PlaceFacts, Zenon
<1>4. /\ n \in Nat /\ CurrentFrame.next + n <= LenOf(CurrentFrame) /\ outLen + n <= req.max
      /\ CurrentFrame.next + n = LenOf(CurrentFrame) \/ outLen + n = req.max
      /\ n = 0 => CurrentFrame.next = LenOf(CurrentFrame)
  BY <1>2, <1>3 DEF Lesser
<1> HIDE DEF n
<1>5. /\ Queued' /\ FullCount' = FullCount /\ outLen' = outLen + n
      /\ frameQueue' # <<>>
      /\ CurrentFrame' \in Frame /\ CurrentFrame'.id = CurrentFrame.id
      /\ CurrentFrame'.shape = CurrentFrame.shape
      /\ CurrentFrame'.next = CurrentFrame.next + n /\ CurrentFrame'.played
      /\ n = 0 => beam' = beam
      /\ n > 0 => beam'.kind = "content" /\ OnFront'
  BY <1>1, <1>2, <1>4, ShowFacts, Zenon
<1>6. FullCount' <= FullCount /\ outLen' \in Nat /\ LenOf(CurrentFrame') = LenOf(CurrentFrame)
  BY <1>3, <1>4, <1>5, PlaceFacts, CountFacts DEF LenOf
<1>7. OnBeam'
  <2>1. CASE n > 0
    BY <1>5, <2>1, Zenon DEF OnBeam
  <2>2. CASE n = 0
    <3>1. beam' = beam /\ CurrentFrame'.next = CurrentFrame.next
      BY <1>3, <1>5, <2>2
    <3>2. beam.kind = "content" => OnFront
      BY <1>1, <1>3, <1>4, <2>2, PlaceFacts DEF OnBeam, Continuing, Covered
    <3> QED
      BY <1>5, <3>1, <3>2, Zenon DEF OnBeam, OnFront, LenOf
  <2> QED
    BY <1>4, <2>1, <2>2
<1>8. GoesOn
  <2> DEFINE done == \/ outLen' >= req.min /\ CurrentFrame.next + n >= LenOf(CurrentFrame)
                     \/ outLen' = req.max
  <2>1. CASE done
    <3>1. Fits(req, outLen)'
      BY <1>1, <1>2, <1>3, <1>4, <1>5, <2>1 DEF Fits
    <3> QED
      BY <1>1, <2>1, <3>1, Zenon DEF GoesOn
  <2>2. CASE ~done
    <3>1. /\ outLen' < req'.max /\ outLen' < req'.min
          /\ CurrentFrame'.next = LenOf(CurrentFrame')
      BY <1>1, <1>3, <1>4, <1>5, <1>6, <2>2
    <3>2. wpc' = "advance"
      BY <1>1, <2>2, Zenon
    <3> QED
      BY <1>1, <1>2, <1>5, <3>1, <3>2, Zenon DEF GoesOn
  <2> QED
    BY <2>1, <2>2, Zenon
<1> QED
  BY <1>1, <1>2, <1>5, <1>6, <1>7, <1>8, TransitionFacts, FillStepFacts, Zenon

\* At the end of a frame the beam is where the frame ends.
LEMMA BeamAtEnd ==
    ASSUME IInv, wpc \in {"points", "advance", "frame"},
           CurrentFrame.next = LenOf(CurrentFrame), beam.kind = "content"
    PROVE  OnFront /\ beam.place = <<CurrentFrame.shape.last>>
<1>1. frameQueue # <<>>
  BY RoomFacts
<1>2. CurrentFrame.next # 0
  BY <1>1, PlaceFacts
<1>3. ~Continuing /\ ~Covered
  BY <1>2 DEF Continuing, Covered
<1> QED
  BY <1>3, PlaceFacts, Zenon DEF OnBeam, OnFront

\* The next frame takes over, after a transition if the beam has to jump.
LEMMA NextTakesOver ==
    ASSUME IInv, wpc \in {"advance", "frame"}, Len(frameQueue) > 1,
           CurrentFrame.next = LenOf(CurrentFrame), frameQueue' = Tail(frameQueue),
           Travel(CurrentFrame.shape.last, frameQueue[2].shape.first, req.kind),
           UNCHANGED <<pendingFrames, req, lead, ret>>, UnchangedSend
    PROVE  IInv'
<1>1. frameQueue # <<>> /\ outLen < req.max /\ wpc # "idle" /\ req.max \in Nat
  BY RoomFacts
<1>2. /\ req.kind \in {"points", "frame"} /\ req.min \in Nat /\ req.min <= req.max
      /\ outLen \in Nat
  BY <1>1, PlaceFacts, Zenon
<1>3. /\ Queued' /\ FullCount' <= FullCount /\ frameQueue' # <<>>
      /\ CurrentFrame' = frameQueue[2] /\ Untouched(frameQueue[2])
  BY <1>1, PlaceFacts, FrontGoes, Zenon
<1>4. CurrentFrame.shape.last \in Places /\ frameQueue[2].shape.first \in Places
  <2>1. frameQueue \in Seq(Frame) /\ CurrentFrame \in Frame
    BY <1>1, PlaceFacts, Zenon DEF Queued
  <2>2. frameQueue[2] \in Frame
    BY <2>1, ElementOfSeq
  <2> QED
    BY <2>1, <2>2, FrameFacts, Zenon
<1>5. /\ transition' \in [left : 0 .. TransitionLen, to : Places]
      /\ outLen' \in Nat
      /\ \/ wpc' = "return" /\ outLen' = req.max /\ beam'.kind = "transition"
         \/ wpc' = req.kind /\ outLen' < req.max
      /\ \/ /\ CurrentFrame.shape.last = frameQueue[2].shape.first
            /\ beam' = beam /\ wpc' = req.kind /\ outLen' = outLen
         \/ beam'.kind = "transition"
  BY <1>1, <1>2, <1>4, TravelFacts, Zenon
<1>6. OnBeam'
  <2>1. CASE beam'.kind = "transition"
    BY <2>1 DEF OnBeam
  <2>2. CASE /\ CurrentFrame.shape.last = frameQueue[2].shape.first
             /\ beam' = beam /\ wpc' = req.kind
    <3>1. beam.kind = "content" => beam.place = <<CurrentFrame.shape.last>>
      BY BeamAtEnd
    <3>2. beam.kind = "content" => Continuing'
      BY <1>2, <1>3, <2>2, <3>1 DEF Continuing, Untouched
    <3> QED
      BY <2>2, <3>2, Zenon DEF OnBeam
  <2> QED
    BY <1>5, <2>1, <2>2, Zenon
<1>7. GoesOn
  <2>1. CASE wpc' = "return" /\ outLen' = req.max
    <3>1. Fits(req, outLen)'
      BY <1>1, <1>2, <2>1 DEF Fits
    <3> QED
      BY <2>1, <3>1, Zenon DEF GoesOn
  <2>2. CASE wpc' = req.kind /\ outLen' < req.max
    BY <1>3, <2>2, Zenon DEF GoesOn
  <2> QED
    BY <1>5, <2>1, <2>2, Zenon
<1> QED
  BY <1>1, <1>3, <1>5, <1>6, <1>7, FillStepFacts, Zenon

\* fillPoints passes on to the next frame.
LEMMA KeptByAdvanceToNext ==
    ASSUME IInv, AdvanceToNext
    PROVE  IInv'
<1>1. /\ wpc = "advance" /\ Len(frameQueue) > 1 /\ frameQueue' = Tail(frameQueue)
      /\ Travel(CurrentFrame.shape.last, frameQueue[2].shape.first, "points")
      /\ UNCHANGED <<pendingFrames, req, lead, ret>> /\ UnchangedSend
  BY Zenon DEF AdvanceToNext, NextFrameIsDue
<1>2. CurrentFrame.next = LenOf(CurrentFrame) /\ req.kind = "points"
  BY <1>1, PlaceFacts DEF Filling
<1> QED
  BY <1>1, <1>2, NextTakesOver, Zenon

\* fillFrame passes on to the next frame.
LEMMA KeptByFrameAdvance ==
    ASSUME IInv, FrameAdvance
    PROVE  IInv'
<1>1. /\ wpc = "frame" /\ Len(frameQueue) > 1 /\ frameQueue' = Tail(frameQueue)
      /\ Travel(CurrentFrame.shape.last, frameQueue[2].shape.first, "frame")
      /\ UNCHANGED <<pendingFrames, req, lead, ret>> /\ UnchangedSend
      /\ FrontAtEnd
  BY Zenon DEF FrameAdvance, NextFrameWanted
<1>2. CurrentFrame.next = LenOf(CurrentFrame) /\ req.kind = "frame"
  BY <1>1, RoomFacts, PlaceFacts DEF Filling, FrontAtEnd
<1> QED
  BY <1>1, <1>2, NextTakesOver, Zenon

\* A frame held long enough gives way to blanks, up to the minimum.
LEMMA KeptByExpireFrame ==
    ASSUME IInv, ExpireFrame
    PROVE  IInv'
<1>1. /\ wpc = "advance" /\ frameQueue' = Tail(frameQueue)
      /\ outLen' = Greater(outLen, req.min)
      /\ beam' = (IF req.min > outLen THEN BlankPoint ELSE beam) /\ wpc' = "return"
      /\ pendingFrames' = pendingFrames /\ transition' = transition /\ UnchangedSend
      /\ req' = req /\ lead' = lead /\ ret' = ret
  BY Zenon DEF ExpireFrame
<1>2. frameQueue # <<>> /\ wpc # "idle" /\ outLen < req.min /\ req.kind = "points"
  BY <1>1, RoomFacts, PlaceFacts DEF Filling
<1>3. req.min \in Nat /\ req.max \in Nat /\ req.min <= req.max /\ outLen \in Nat
  BY <1>2, PlaceFacts, Zenon
<1>4. Queued' /\ FullCount' <= FullCount
  BY <1>1, <1>2, PlaceFacts, FrontGoes, Zenon
<1>5. outLen' = req.min /\ beam' = BlankPoint
  BY <1>1, <1>2, <1>3 DEF Greater
<1>6. OnBeam'
  BY <1>5 DEF OnBeam, BlankPoint
<1>7. GoesOn
  <2>1. Fits(req, outLen)'
    BY <1>1, <1>2, <1>3, <1>5 DEF Fits
  <2> QED
    BY <1>1, <2>1, Zenon DEF GoesOn
<1> QED
  BY <1>1, <1>2, <1>3, <1>4, <1>5, <1>6, <1>7, TransitionFacts, FillStepFacts, Zenon

\* The front frame is taken back to its beginning.
LEMMA FrontRestarts ==
    ASSUME IInv, frameQueue # <<>>, frameQueue' = [frameQueue EXCEPT ![1].next = 0],
           pendingFrames' = pendingFrames
    PROVE  /\ Queued' /\ FullCount' <= FullCount /\ frameQueue' # <<>>
           /\ Tail(frameQueue') = Tail(frameQueue)
           /\ CurrentFrame'.id = CurrentFrame.id /\ CurrentFrame'.shape = CurrentFrame.shape
           /\ CurrentFrame'.played = CurrentFrame.played
           /\ CurrentFrame'.next = 0 /\ LenOf(CurrentFrame') # 0
<1> DEFINE c == CurrentFrame
           f == [c EXCEPT !.next = 0]
<1>1. c \in Frame /\ LenOf(c) \in Nat /\ LenOf(c) # 0
  BY PlaceFacts, Zenon
<1>2. frameQueue' = [frameQueue EXCEPT ![1] = f]
  BY DEF CurrentFrame
<1> HIDE DEF c
<1>3. f \in Frame /\ f.id = c.id /\ f.shape = c.shape /\ f.next = 0
  BY <1>1 DEF Frame
<1>4. f.played = c.played
  BY <1>1, Zenon DEF Frame
<1> HIDE DEF f
<1>5. LenOf(f) = LenOf(c) /\ f.next <= LenOf(f)
  BY <1>1, <1>3 DEF LenOf
<1>6. /\ Queued' /\ FullCount' = FullCount
      /\ frameQueue' # <<>> /\ CurrentFrame' = f /\ Tail(frameQueue') = Tail(frameQueue)
  BY <1>2, <1>3, <1>5, FrontBecomes, PlaceFacts, Zenon DEF c
<1>7. FullCount' <= FullCount
  BY <1>6, PlaceFacts, CountFacts
<1> QED
  BY <1>1, <1>3, <1>4, <1>5, <1>6, <1>7, Zenon DEF c

\* The beam goes on with the same frame from its beginning.
LEMMA FrontAgain ==
    ASSUME OnFront, beam' = beam, frameQueue' # <<>>,
           CurrentFrame'.id = CurrentFrame.id, CurrentFrame'.played = CurrentFrame.played,
           CurrentFrame'.next = 0, LenOf(CurrentFrame') # 0
    PROVE  OnFront'
  BY Zenon DEF OnFront, LenOf

\* fillPoints shows the front frame again.
LEMMA KeptByLoopFrame ==
    ASSUME IInv, LoopFrame
    PROVE  IInv'
<1>1. /\ wpc = "advance" /\ frameQueue' = [frameQueue EXCEPT ![1].next = 0]
      /\ Travel(CurrentFrame.shape.last, CurrentFrame.shape.first, "points")
      /\ pendingFrames' = pendingFrames /\ UnchangedSend
      /\ req' = req /\ lead' = lead /\ ret' = ret
  BY Zenon DEF LoopFrame
<1>2. frameQueue # <<>> /\ outLen < req.max /\ wpc # "idle" /\ req.kind = "points"
  BY <1>1, RoomFacts, PlaceFacts DEF Filling
<1>3. /\ req.min \in Nat /\ req.max \in Nat /\ req.min <= req.max /\ outLen \in Nat
      /\ CurrentFrame \in Frame
  BY <1>2, PlaceFacts, Zenon
<1>4. /\ Queued' /\ FullCount' <= FullCount /\ frameQueue' # <<>>
      /\ CurrentFrame'.id = CurrentFrame.id
      /\ CurrentFrame'.played = CurrentFrame.played
      /\ CurrentFrame'.next = 0 /\ LenOf(CurrentFrame') # 0
  BY <1>1, <1>2, FrontRestarts, Zenon
<1>5. CurrentFrame.shape.last \in Places /\ CurrentFrame.shape.first \in Places
  BY <1>3, FrameFacts, Zenon
<1>6. /\ transition' \in [left : 0 .. TransitionLen, to : Places]
      /\ outLen' \in Nat
      /\ \/ wpc' = "return" /\ outLen' = req.max /\ beam'.kind = "transition"
         \/ wpc' = "points" /\ outLen' < req.max
      /\ \/ beam' = beam
         \/ beam'.kind = "transition"
  BY <1>1, <1>2, <1>3, <1>5, TravelFacts, Zenon
<1>7. OnBeam'
  <2>1. CASE beam'.kind = "transition"
    BY <2>1 DEF OnBeam
  <2>2. CASE beam' = beam
    <3>1. beam.kind = "content" => OnFront
      BY <1>1, BeamAtFront
    <3> QED
      BY <1>4, <2>2, <3>1, FrontAgain, Zenon DEF OnBeam
  <2> QED
    BY <1>6, <2>1, <2>2, Zenon
<1>8. GoesOn
  <2>1. CASE wpc' = "return" /\ outLen' = req.max
    <3>1. Fits(req, outLen)'
      BY <1>1, <1>2, <1>3, <2>1 DEF Fits
    <3> QED
      BY <2>1, <3>1, Zenon DEF GoesOn
  <2>2. CASE wpc' = "points" /\ outLen' < req.max
    BY <1>1, <1>2, <1>4, <2>2, Zenon DEF GoesOn
  <2> QED
    BY <1>6, <2>1, <2>2, Zenon
<1> QED
  BY <1>1, <1>2, <1>4, <1>6, <1>7, <1>8, FillStepFacts, Zenon

\* A frame held long enough gives way to a blank frame.
LEMMA KeptByFrameExpire ==
    ASSUME IInv, FrameExpire
    PROVE  IInv'
<1>1. /\ wpc = "frame" /\ frameQueue' = Tail(frameQueue) /\ wpc' = "blank"
      /\ pendingFrames' = pendingFrames /\ transition' = transition /\ UnchangedSend
      /\ req' = req /\ lead' = lead /\ ret' = ret /\ outLen' = outLen /\ beam' = beam
  BY Zenon DEF FrameExpire
<1>2. frameQueue # <<>> /\ wpc # "idle" /\ outLen < req.max /\ req.kind = "frame"
  BY <1>1, RoomFacts, PlaceFacts DEF Filling
<1>3. Queued' /\ FullCount' <= FullCount
  BY <1>1, <1>2, PlaceFacts, FrontGoes, Zenon
<1>4. OnBeam'
  BY <1>1, <1>2, Zenon DEF OnBeam, Covered
<1>5. GoesOn
  BY <1>1, <1>2, Zenon DEF GoesOn
<1> QED
  BY <1>1, <1>2, <1>3, <1>4, <1>5, PlaceFacts, TransitionFacts, FillStepFacts, Zenon

\* Nothing is handed over to a transport that repeats by itself.
LEMMA KeptByFrameIdle ==
    ASSUME IInv, FrameIdle
    PROVE  IInv'
<1>1. /\ wpc = "frame" /\ FrontAtEnd /\ wpc' = "return"
      /\ frameQueue' = frameQueue /\ pendingFrames' = pendingFrames
      /\ transition' = transition /\ UnchangedSend
      /\ req' = req /\ lead' = lead /\ ret' = ret /\ outLen' = outLen /\ beam' = beam
  BY Zenon DEF FrameIdle
<1>2. frameQueue # <<>> /\ wpc # "idle" /\ outLen < req.max /\ req.kind = "frame"
  BY <1>1, RoomFacts, PlaceFacts DEF Filling
<1>3. outLen \in Nat /\ req.max \in Nat /\ CurrentFrame.next = LenOf(CurrentFrame)
  BY <1>1, <1>2, PlaceFacts DEF FrontAtEnd
<1>4. Queued' /\ FullCount' = FullCount /\ FullCount \in Nat
  BY <1>1, PlaceFacts, QueuesSame, CountFacts, Zenon
<1>5. FullCount' <= FullCount
  BY <1>4
<1>6. OnBeam'
  <2>1. beam.kind = "content" => OnFront
    BY <1>1, <1>3, BeamAtEnd
  <2> QED
    BY <1>1, <2>1, FrontStays, Zenon DEF OnBeam
<1>7. GoesOn
  <2>1. Fits(req, outLen)'
    BY <1>1, <1>2, <1>3 DEF Fits
  <2> QED
    BY <1>1, <2>1, Zenon DEF GoesOn
<1> QED
  BY <1>1, <1>2, <1>3, <1>4, <1>5, <1>6, <1>7, TransitionFacts, FillStepFacts, Zenon

\* fillFrame shows the front frame again.
LEMMA KeptByFrameRepeat ==
    ASSUME IInv, FrameRepeat
    PROVE  IInv'
<1>1. /\ wpc = "frame" /\ FrontAtEnd
      /\ frameQueue' = [frameQueue EXCEPT ![1].next = 0] /\ pendingFrames' = pendingFrames
      /\ transition' = transition /\ UnchangedSend /\ wpc' = wpc
      /\ req' = req /\ lead' = lead /\ ret' = ret /\ outLen' = outLen /\ beam' = beam
  BY Zenon DEF FrameRepeat, UnchangedFill
<1>2. frameQueue # <<>> /\ wpc # "idle" /\ outLen < req.max /\ req.kind = "frame"
  BY <1>1, RoomFacts, PlaceFacts DEF Filling
<1>3. outLen \in Nat /\ CurrentFrame.next = LenOf(CurrentFrame)
  BY <1>1, <1>2, PlaceFacts DEF FrontAtEnd
<1>4. /\ Queued' /\ FullCount' <= FullCount /\ frameQueue' # <<>>
      /\ CurrentFrame'.id = CurrentFrame.id
      /\ CurrentFrame'.played = CurrentFrame.played
      /\ CurrentFrame'.next = 0 /\ LenOf(CurrentFrame') # 0
  BY <1>1, <1>2, FrontRestarts, Zenon
<1>5. OnBeam'
  <2>1. beam.kind = "content" => OnFront
    BY <1>1, <1>3, BeamAtEnd
  <2> QED
    BY <1>1, <1>4, <2>1, FrontAgain, Zenon DEF OnBeam
<1>6. GoesOn
  BY <1>1, <1>2, <1>4, Zenon DEF GoesOn
<1> QED
  BY <1>1, <1>2, <1>3, <1>4, <1>5, <1>6, TransitionFacts, FillStepFacts, Zenon

\* The rest of the front frame, at most the maximum, completes a fill.
LEMMA KeptByFrameCopy ==
    ASSUME IInv, FrameCopy
    PROVE  IInv'
<1> DEFINE n == Lesser(LenOf(CurrentFrame) - CurrentFrame.next, req.max)
<1>1. /\ wpc = "frame" /\ ~FrontAtEnd /\ Show(n) /\ wpc' = "return"
      /\ pendingFrames' = pendingFrames /\ transition' = transition /\ UnchangedSend
      /\ req' = req /\ lead' = lead /\ ret' = ret
  BY Zenon DEF FrameCopy
<1>2. frameQueue # <<>> /\ outLen < req.max /\ wpc # "idle" /\ req.kind = "frame"
  BY <1>1, RoomFacts, PlaceFacts DEF Filling
<1>3. /\ CurrentFrame.next \in Nat /\ LenOf(CurrentFrame) \in Nat
      /\ CurrentFrame.next <= LenOf(CurrentFrame)
      /\ req.max \in Nat /\ outLen \in Nat
  BY <1>2, PlaceFacts, Zenon
<1>4. /\ n \in Nat /\ n > 0 /\ CurrentFrame.next + n <= LenOf(CurrentFrame) /\ n <= req.max
  BY <1>1, <1>2, <1>3 DEF Lesser, FrontAtEnd
<1> HIDE DEF n
<1>5. /\ Queued' /\ FullCount' = FullCount /\ outLen' = outLen + n /\ OnFront'
  BY <1>1, <1>2, <1>4, ShowFacts, Zenon
<1>6. FullCount' <= FullCount /\ outLen' \in Nat
  BY <1>3, <1>4, <1>5, PlaceFacts, CountFacts
<1>7. GoesOn
  <2>1. Fits(req, outLen)'
    BY <1>1, <1>2, <1>3, <1>4, <1>5 DEF Fits
  <2> QED
    BY <1>1, <2>1, Zenon DEF GoesOn
<1> QED
  BY <1>1, <1>2, <1>5, <1>6, <1>7, TransitionFacts, FillStepFacts, Zenon DEF OnBeam

-----------------------------------------------------------------------------
(* The theorems.                                                            *)

\* The queue is empty and no fill runs.
LEMMA InitIInv == Init => IInv
<1> SUFFICES ASSUME Init PROVE IInv
  OBVIOUS
<1>1. LongestFrame \in Nat \ {0} /\ QueuedPointBudgetFor(LongestFrame) \in Nat
  BY SchedulerAssumption DEF QueuedPointBudgetFor, Greater
<1>2. /\ pendingFrames = <<>> /\ frameQueue = <<>> /\ sending = <<>> /\ nominal = 1
      /\ sent = 0 /\ wpc = "idle" /\ req = NoRequest /\ lead = 0 /\ outLen = 0
      /\ beam = BlankPoint /\ ret = NoReturn /\ transition \in [left : {0}, to : Places]
  BY DEF Init
<1>3. Queued
  BY <1>2, EmptySeq DEF Queued
<1>4. Accepted
  BY <1>1, <1>2, EmptySeq, SchedulerAssumption DEF Accepted
<1>5. Budgeted
  <2>1. FullCount = 0
    BY <1>2, FullOne DEF FullCount
  <2> QED
    BY <1>1, <1>2, <2>1 DEF Budgeted
<1>6. Filling
  BY <1>2, SchedulerAssumption DEF Filling, NoReturn, NoRequest, Fits
<1>7. OnBeam
  BY <1>2 DEF OnBeam, BlankPoint
<1> QED
  BY <1>3, <1>4, <1>5, <1>6, <1>7 DEF IInv

\* A step that changes nothing.
LEMMA KeptByStuttering ==
    ASSUME IInv, UNCHANGED vars
    PROVE  IInv'
<1>1. /\ frameQueue' = frameQueue /\ pendingFrames' = pendingFrames
      /\ transition' = transition /\ UnchangedSend /\ wpc' = wpc
      /\ req' = req /\ lead' = lead /\ ret' = ret /\ outLen' = outLen /\ beam' = beam
  BY Zenon DEF vars, queues, UnchangedSend
<1>2. Queued' /\ FullCount' = FullCount /\ FullCount \in Nat /\ CurrentFrame' = CurrentFrame
  BY <1>1, PlaceFacts, QueuesSame, CountFacts, Zenon
<1>3. FullCount' <= FullCount
  BY <1>2
<1>4. Accepted' /\ Budgeted'
  BY <1>1, <1>2, <1>3, TransitionFacts, FillAccepts, Zenon
<1>5. Filling'
  BY <1>1, <1>2, PlaceFacts, Zenon DEF Filling, Fits, LenOf
<1>6. OnBeam'
  BY <1>1, <1>2, PlaceFacts, BeamStays, Zenon
<1> QED
  BY <1>2, <1>4, <1>5, <1>6, Zenon DEF IInv

\* Every step keeps the invariant.
LEMMA NextIInv == IInv /\ [Next]_vars => IInv'
<1> SUFFICES ASSUME IInv, [Next]_vars PROVE IInv'
  OBVIOUS
<1>1. CASE Application
  BY <1>1, KeptBySendFrameCheck, KeptBySendFrameEnqueue, KeptByTrySendFrame, KeptByReset, Zenon
     DEF Application
<1>2. CASE Tick
  BY <1>2, KeptByTick, Zenon
<1>3. CASE Fill(Requests)
  BY <1>3, KeptByBeginFill, Zenon DEF Fill
<1>4. CASE FillStep
  BY <1>4, KeptBySkipStale, KeptByGate, KeptByBlank, KeptByReturn, KeptByCopyPoints,
     KeptByAdvanceToNext, KeptByExpireFrame, KeptByLoopFrame, KeptByFrameAdvance,
     KeptByFrameExpire, KeptByFrameIdle, KeptByFrameRepeat, KeptByFrameCopy, Zenon
     DEF FillStep
<1>5. CASE UNCHANGED vars
  BY <1>5, KeptByStuttering, Zenon
<1> QED
  BY <1>1, <1>2, <1>3, <1>4, <1>5, Zenon DEF Next

\* The invariant holds throughout.
LEMMA Inductive == Spec => []IInv
<1>1. Init => IInv
  BY InitIInv
<1>2. IInv /\ [Next]_vars => IInv'
  BY NextIInv
<1> QED
  BY <1>1, <1>2, PTL DEF Spec

\* Every variable keeps its type, a fill returns at least what was asked for and
\* overshoots by less than it may, the queue never holds more than the largest
\* budget and two frames, and no frame is begun before the one ahead of it.
THEOREM TypeCorrect == Spec => []TypeOK
<1>1. ASSUME IInv PROVE TypeOK
  <2>0. Queued /\ Accepted /\ Budgeted /\ Filling
    BY <1>1 DEF IInv
  <2>1. FillBounded
    <3>1. Fits(ret.req, ret.len)
      BY <2>0 DEF Filling
    <3> QED
      BY <3>1, Zenon DEF FillBounded, Fits
  <2>2. QueueBounded
    <3>1. FullCount \in Nat /\ QueuedPointCount \in Int /\ QueuedPointCount <= FullCount
      BY <2>0, CountFacts
    <3>2. LongestFrame \in Nat /\ QueuedPointBudgetFor(LongestFrame) \in Nat
      BY SchedulerAssumption DEF QueuedPointBudgetFor, Greater
    <3>3. FullCount <= QueuedPointBudgetFor(LongestFrame) + 2 * LongestFrame
      BY <2>0 DEF Budgeted
    <3> QED
      BY <3>1, <3>2, <3>3 DEF QueueBounded
  <2>3. ASSUME NEW i \in DOMAIN frameQueue
        PROVE  /\ frameQueue[i].next <= LenOf(frameQueue[i])
               /\ frameQueue[i].played => i = 1
    <3>1. frameQueue \in Seq(Frame)
      BY <2>0 DEF Queued
    <3>2. i \in 1 .. Len(frameQueue) /\ Len(frameQueue) \in Nat /\ frameQueue # <<>>
      BY <2>3, <3>1
    <3>3. CASE i = 1
      BY <2>0, <3>2, <3>3, Zenon DEF Queued, CurrentFrame
    <3>4. CASE i # 1
      <4>1. i \in 2 .. Len(frameQueue)
        BY <3>2, <3>4
      <4>2. Untouched(frameQueue[i]) /\ frameQueue[i] \in Frame
        BY <2>0, <3>1, <3>2, <4>1, ElementOfSeq, Zenon DEF Queued
      <4>3. frameQueue[i].next = 0 /\ ~frameQueue[i].played
        BY <4>2, Zenon DEF Untouched
      <4>4. frameQueue[i].next <= LenOf(frameQueue[i])
        BY <4>2, <4>3, FrameFacts
      <4> QED
        BY <4>3, <4>4, Zenon
    <3> QED
      BY <3>3, <3>4
  <2>4. nominal \in Nat \ {0}
    BY <2>0, SchedulerAssumption DEF Accepted
  <2> QED
    BY <2>0, <2>1, <2>2, <2>3, <2>4, Zenon DEF TypeOK, Queued, Accepted, Filling
<1> QED
  BY <1>1, Inductive, PTL

\* Travelling leaves the beam alone or puts it on a transition.
LEMMA TravelShowsNoFrame ==
    ASSUME NEW from, NEW to, NEW after, Travel(from, to, after)
    PROVE  beam' = beam \/ beam'.kind # "content"
  BY DEF Travel, TransitionPoint

\* Only the two copies put a frame's points out.
LEMMA OnlyCopiesShow ==
    ASSUME Next
    PROVE  beam' = beam \/ beam'.kind # "content" \/ CopyPoints \/ FrameCopy
<1>1. CASE Application
  BY <1>1 DEF Application, SendFrameCheck, SendFrameEnqueue, TrySendFrame, Reset, UnchangedFill,
     BlankPoint
<1>2. CASE Tick
  BY <1>2 DEF Tick, UnchangedFill
<1>3. CASE Fill(Requests)
  BY <1>3 DEF Fill, BeginFill, TransitionPoint
<1>4. CASE SkipStale \/ Gate \/ Blank \/ Return
  BY <1>4 DEF SkipStale, Gate, Blank, Return, UnchangedFill, BlankPoint
<1>5. CASE ExpireFrame \/ FrameExpire \/ FrameIdle \/ FrameRepeat
  BY <1>5 DEF ExpireFrame, FrameExpire, FrameIdle, FrameRepeat, UnchangedFill, BlankPoint
<1>6. CASE AdvanceToNext \/ LoopFrame \/ FrameAdvance
  BY <1>6, TravelShowsNoFrame, Zenon DEF AdvanceToNext, LoopFrame, FrameAdvance
<1> QED
  BY <1>1, <1>2, <1>3, <1>4, <1>5, <1>6, Zenon DEF Next, FillStep

\* What a copy shows is the front frame: more of it, or the first of it where the
\* frame before it ended.
LEMMA CopyContinues ==
    ASSUME IInv, wpc \in {"points", "frame"}, NEW n \in Nat, Show(n),
           pendingFrames' = pendingFrames,
           CurrentFrame.next + n <= LenOf(CurrentFrame),
           beam.kind = "content", beam'.kind = "content", beam.id # beam'.id
    PROVE  \E i \in DOMAIN frameQueue' :
               /\ frameQueue'[i].id = beam'.id
               /\ beam.place = <<frameQueue'[i].shape.first>>
<1>1. frameQueue # <<>>
  BY RoomFacts
<1>2. /\ Queued' /\ frameQueue' # <<>> /\ CurrentFrame'.id = CurrentFrame.id
      /\ CurrentFrame'.shape = CurrentFrame.shape
      /\ n = 0 => beam' = beam
      /\ n > 0 => OnFront'
  BY <1>1, ShowFacts, Zenon
<1>3. OnFront'
  BY <1>2
<1>4. beam'.id = CurrentFrame'.id
  BY <1>3, Zenon DEF OnFront
<1>5. beam.place = <<CurrentFrame.shape.first>>
  BY <1>2, <1>4, PlaceFacts DEF OnBeam, OnFront, Continuing, Covered
<1>6. 1 \in DOMAIN frameQueue'
  <2>1. frameQueue' \in Seq(Frame)
    BY <1>2, Zenon DEF Queued
  <2> QED
    BY <1>2, <2>1
<1>7. CurrentFrame' = frameQueue'[1]
  BY Zenon DEF CurrentFrame
<1> QED
  BY <1>2, <1>4, <1>5, <1>6, <1>7, Zenon

\* The beam never jumps from one frame to the next without blanks.
THEOREM NoBareJump == Spec => TransitionBetweenFrames
<1> DEFINE Travelled ==
        /\ beam.kind = "content" /\ beam'.kind = "content"
        /\ beam.id # beam'.id
        => \E i \in DOMAIN frameQueue' :
               /\ frameQueue'[i].id = beam'.id
               /\ beam.place = <<frameQueue'[i].shape.first>>
<1>1. ASSUME IInv, Next PROVE Travelled
  <2> SUFFICES ASSUME beam.kind = "content", beam'.kind = "content", beam.id # beam'.id
               PROVE  Travelled
    BY Zenon
  <2>1. CopyPoints \/ FrameCopy
    BY <1>1, OnlyCopiesShow
  <2>2. CASE CopyPoints
    <3> DEFINE n == Lesser(LenOf(CurrentFrame) - CurrentFrame.next, req.max - outLen)
    <3>1. wpc = "points" /\ Show(n) /\ pendingFrames' = pendingFrames
      BY <2>2, Zenon DEF CopyPoints
    <3>2. n \in Nat /\ CurrentFrame.next + n <= LenOf(CurrentFrame)
      BY <1>1, <3>1, RoomFacts, PlaceFacts DEF Lesser
    <3> HIDE DEF n
    <3> QED
      BY <1>1, <3>1, <3>2, CopyContinues
  <2>3. CASE FrameCopy
    <3> DEFINE n == Lesser(LenOf(CurrentFrame) - CurrentFrame.next, req.max)
    <3>1. wpc = "frame" /\ Show(n) /\ pendingFrames' = pendingFrames
      BY <2>3, Zenon DEF FrameCopy
    <3>2. n \in Nat /\ CurrentFrame.next + n <= LenOf(CurrentFrame)
      BY <1>1, <3>1, RoomFacts, PlaceFacts DEF Lesser
    <3> HIDE DEF n
    <3> QED
      BY <1>1, <3>1, <3>2, CopyContinues
  <2> QED
    BY <2>1, <2>2, <2>3
<1>2. IInv /\ [Next]_vars => [Travelled]_vars
  BY <1>1
<1> QED
  BY <1>2, Inductive, PTL DEF Spec, TransitionBetweenFrames

-----------------------------------------------------------------------------
(* The refinement of FrameFeed: what an application sees of the queues.     *)

\* A frame as the application knows it.
Tag(f) == <<f.id, LenOf(f)>>

\* It is one of those that can be sent, as long as the frame is.
LEMMA TagFacts ==
    ASSUME NEW f \in Frame
    PROVE  Tag(f) \in SentFrames /\ SentLength(Tag(f)) = LenOf(f)
<1>1. f.id \in 1 .. MaxFrames /\ f.shape \in Shapes
  BY FrameFacts
<1>2. LenOf(f) \in {s.len : s \in Shapes}
  BY <1>1 DEF LenOf
<1> QED
  BY <1>1, <1>2 DEF Tag, SentFrames, SentLength

\* A queue as the application knows it.
LEMMA SentFacts ==
    ASSUME NEW q \in Seq(Frame)
    PROVE  /\ Sent(q) \in Seq(SentFrames) /\ Len(Sent(q)) = Len(q) /\ Len(q) \in Nat
           /\ \A i \in 1 .. Len(q) : Sent(q)[i] = Tag(q[i])
<1>1. /\ Len(q) \in Nat /\ DOMAIN q = 1 .. Len(q)
      /\ \A i \in 1 .. Len(q) : q[i] \in Frame
  BY LenProperties, ElementOfSeq
<1>2. \A i \in 1 .. Len(q) : Tag(q[i]) \in SentFrames
  BY <1>1, TagFacts
<1>3. Sent(q) = [i \in 1 .. Len(q) |-> Tag(q[i])]
  BY <1>1 DEF Sent, Tag
<1> DEFINE e(i) == Tag(q[i])
           n == Len(q)
<1> HIDE DEF e, n
<1>4. [i \in 1 .. n |-> e(i)] \in Seq(SentFrames) /\ Len([i \in 1 .. n |-> e(i)]) = n
  BY <1>1, <1>2, IsASeq DEF e, n
<1>5. \A i \in 1 .. n : [j \in 1 .. n |-> e(j)][i] = e(i)
  OBVIOUS
<1> QED
  BY <1>1, <1>3, <1>4, <1>5, Zenon DEF e, n

\* Queues of the same frames.
LEMMA SentSame ==
    ASSUME NEW p \in Seq(Frame), NEW q \in Seq(Frame), Len(p) = Len(q),
           \A i \in 1 .. Len(p) : Tag(p[i]) = Tag(q[i])
    PROVE  Sent(p) = Sent(q)
<1>1. /\ Sent(p) \in Seq(SentFrames) /\ Sent(q) \in Seq(SentFrames)
      /\ Len(Sent(p)) = Len(p) /\ Len(Sent(q)) = Len(p)
      /\ \A i \in 1 .. Len(p) : Sent(p)[i] = Sent(q)[i]
  BY SentFacts
<1> QED
  BY <1>1, SeqEqual

\* One queue after another.
LEMMA SentJoin ==
    ASSUME NEW p \in Seq(Frame), NEW q \in Seq(Frame)
    PROVE  Sent(p \o q) = Sent(p) \o Sent(q)
<1> DEFINE m == Len(p)
           n == Len(q)
           u == Sent(p)
           v == Sent(q)
           w == Sent(p \o q)
<1>1. /\ p \o q \in Seq(Frame) /\ m \in Nat /\ n \in Nat /\ Len(p \o q) = m + n
      /\ \A i \in 1 .. m : (p \o q)[i] = p[i]
      /\ \A i \in 1 .. n : (p \o q)[m + i] = q[i]
  BY JoinFacts
<1>2. /\ u \in Seq(SentFrames) /\ Len(u) = m /\ \A i \in 1 .. m : u[i] = Tag(p[i])
      /\ v \in Seq(SentFrames) /\ Len(v) = n /\ \A i \in 1 .. n : v[i] = Tag(q[i])
  BY SentFacts
<1>3. /\ w \in Seq(SentFrames) /\ Len(w) = m + n
      /\ \A i \in 1 .. m + n : w[i] = Tag((p \o q)[i])
  BY <1>1, SentFacts
<1>4. /\ u \o v \in Seq(SentFrames) /\ Len(u \o v) = m + n
      /\ \A i \in 1 .. m : (u \o v)[i] = u[i]
      /\ \A i \in 1 .. n : (u \o v)[m + i] = v[i]
  <2> HIDE DEF m, n, u, v
  <2>0. u \in Seq(SentFrames) /\ v \in Seq(SentFrames)
    BY <1>2
  <2>1. /\ u \o v \in Seq(SentFrames) /\ Len(u \o v) = Len(u) + Len(v)
        /\ \A i \in 1 .. Len(u) : (u \o v)[i] = u[i]
        /\ \A i \in 1 .. Len(v) : (u \o v)[Len(u) + i] = v[i]
    BY <2>0, JoinFacts
  <2> QED
    BY <1>2, <2>1, Zenon
<1> HIDE DEF m, n, u, v, w
<1>5. ASSUME NEW i \in 1 .. m + n PROVE w[i] = (u \o v)[i]
  <2>1. CASE i <= m
    <3>1. i \in 1 .. m
      BY <1>1, <2>1
    <3>2. w[i] = Tag(p[i]) /\ (u \o v)[i] = Tag(p[i])
      BY <1>1, <1>2, <1>3, <1>4, <3>1, Zenon
    <3> QED
      BY <3>2
  <2>2. CASE ~(i <= m)
    <3> DEFINE j == i - m
    <3>1. j \in 1 .. n /\ m + j = i
      BY <1>1, <2>2
    <3> HIDE DEF j
    <3>2. w[m + j] = Tag(q[j]) /\ (u \o v)[m + j] = Tag(q[j])
      BY <1>1, <1>2, <1>3, <1>4, <3>1
    <3> QED
      BY <3>1, <3>2
  <2> QED
    BY <2>1, <2>2
<1>6. w = u \o v
  BY <1>3, <1>4, <1>5, SeqEqual
<1> QED
  BY <1>6, Zenon DEF u, v, w

\* The front frame, the rest, and one frame more.
LEMMA SentFront ==
    ASSUME NEW q \in Seq(Frame), q # <<>>
    PROVE  /\ Sent(q) # <<>> /\ Sent(q)[1] = Tag(q[1])
           /\ Sent(Tail(q)) = Tail(Sent(q))
<1> DEFINE t == Tail(q)
           s == Sent(q)
           n == Len(q)
<1>1. /\ t \in Seq(Frame) /\ n \in Nat /\ n >= 1 /\ Len(t) = n - 1
      /\ \A i \in 1 .. Len(t) : t[i] = q[i + 1]
  BY FrontFacts
<1>2. s \in Seq(SentFrames) /\ Len(s) = n /\ \A i \in 1 .. n : s[i] = Tag(q[i])
  BY SentFacts
<1>3. Sent(t) \in Seq(SentFrames) /\ Len(Sent(t)) = n - 1
      /\ \A i \in 1 .. n - 1 : Sent(t)[i] = Tag(t[i])
  BY <1>1, SentFacts
<1> HIDE DEF t, s, n
<1>4. s # <<>>
  BY <1>1, <1>2
<1>5. /\ Tail(s) \in Seq(SentFrames) /\ Len(Tail(s)) = n - 1
      /\ \A i \in 1 .. n - 1 : Tail(s)[i] = s[i + 1]
  BY <1>2, <1>4, FrontFacts
<1>6. ASSUME NEW i \in 1 .. n - 1 PROVE Sent(t)[i] = Tail(s)[i]
  <2>1. i + 1 \in 1 .. n /\ i \in 1 .. Len(t)
    BY <1>1
  <2> QED
    BY <1>1, <1>2, <1>3, <1>5, <2>1
<1>7. Sent(t) = Tail(s)
  BY <1>3, <1>5, <1>6, SeqEqual
<1>8. s[1] = Tag(q[1])
  BY <1>1, <1>2
<1> QED
  BY <1>4, <1>7, <1>8, Zenon DEF t, s

\* The front of two queues joined.
LEMMA JoinFront ==
    ASSUME NEW E, NEW p \in Seq(E), NEW q \in Seq(E), p # <<>>
    PROVE  /\ p \o q # <<>> /\ (p \o q)[1] = p[1] /\ Tail(p \o q) = Tail(p) \o q
<1> DEFINE t == Tail(p)
           r == p \o q
<1>1. t \in Seq(E) /\ Len(t) = Len(p) - 1 /\ Len(p) \in Nat /\ Len(p) >= 1
      /\ \A i \in 1 .. Len(t) : t[i] = p[i + 1]
  BY FrontFacts
<1>2. /\ r \in Seq(E) /\ Len(q) \in Nat /\ Len(r) = Len(p) + Len(q)
      /\ \A i \in 1 .. Len(p) : r[i] = p[i]
      /\ \A i \in 1 .. Len(q) : r[Len(p) + i] = q[i]
  BY JoinFacts
<1> HIDE DEF t, r
<1>3. /\ t \o q \in Seq(E) /\ Len(t \o q) = Len(t) + Len(q)
      /\ \A i \in 1 .. Len(t) : (t \o q)[i] = t[i]
      /\ \A i \in 1 .. Len(q) : (t \o q)[Len(t) + i] = q[i]
  <2>1. t \in Seq(E)
    BY <1>1
  <2> QED
    BY <2>1, JoinFacts
<1>4. r # <<>> /\ r[1] = p[1]
  BY <1>1, <1>2
<1>5. /\ Tail(r) \in Seq(E) /\ Len(Tail(r)) = Len(r) - 1
      /\ \A i \in 1 .. Len(Tail(r)) : Tail(r)[i] = r[i + 1]
  BY <1>2, <1>4, FrontFacts
<1>6. Len(Tail(r)) = Len(t) + Len(q)
  BY <1>1, <1>2, <1>5
<1>7. ASSUME NEW i \in 1 .. Len(t) + Len(q) PROVE Tail(r)[i] = (t \o q)[i]
  <2>0. Tail(r)[i] = r[i + 1]
    BY <1>5, <1>6
  <2>1. CASE i <= Len(t)
    <3>1. i \in 1 .. Len(t) /\ i + 1 \in 1 .. Len(p)
      BY <1>1, <2>1
    <3> QED
      BY <1>1, <1>2, <1>3, <2>0, <3>1, Zenon
  <2>2. CASE ~(i <= Len(t))
    <3> DEFINE j == i - Len(t)
    <3>1. j \in 1 .. Len(q) /\ Len(t) + j = i /\ Len(p) + j = i + 1
      BY <1>1, <1>2, <2>2
    <3> HIDE DEF j
    <3>2. r[Len(p) + j] = q[j] /\ (t \o q)[Len(t) + j] = q[j]
      BY <1>2, <1>3, <3>1, Zenon
    <3> QED
      BY <2>0, <3>1, <3>2, Zenon
  <2> QED
    BY <2>1, <2>2
<1>8. Tail(r) = t \o q
  BY <1>3, <1>5, <1>6, <1>7, SeqEqual
<1> QED
  BY <1>4, <1>8, Zenon DEF t, r

\* What is waiting and what is being shown, in terms of the two queues.
LEMMA SeenQueues ==
    ASSUME NEW q \in Seq(Frame), NEW p \in Seq(Frame), NEW b \in BOOLEAN, b => q # <<>>
    PROVE  /\ Sent((IF b THEN Tail(q) ELSE q) \o p)
                  = (IF b THEN Tail(Sent(q)) ELSE Sent(q)) \o Sent(p)
           /\ Sent(IF b THEN <<q[1]>> ELSE <<>>) = IF b THEN <<Sent(q)[1]>> ELSE <<>>
<1>1. CASE b
  <2>1. q # <<>> /\ Tail(q) \in Seq(Frame) /\ q[1] \in Frame
    BY <1>1, FrontFacts
  <2>2. Sent(q)[1] = Tag(q[1]) /\ Sent(Tail(q)) = Tail(Sent(q))
    BY <2>1, SentFront, Zenon
  <2>3. Sent(Tail(q) \o p) = Sent(Tail(q)) \o Sent(p)
    BY <2>1, SentJoin, Zenon
  <2>4. Sent(<<q[1]>>) = <<Tag(q[1])>>
    BY <2>1 DEF Sent, Tag
  <2> QED
    BY <1>1, <2>2, <2>3, <2>4, Zenon
<1>2. CASE ~b
  <2>1. Sent(<<>>) = <<>>
    BY DEF Sent
  <2> QED
    BY <1>2, <2>1, SentJoin, Zenon
<1> QED
  BY <1>1, <1>2

\* What FrameFeed's variables stand for.
Seen ==
    /\ Sent(Unseen) = (IF Playing THEN Tail(Sent(frameQueue)) ELSE Sent(frameQueue))
                      \o Sent(pendingFrames)
    /\ Sent(Shown) = IF Playing THEN <<Sent(frameQueue)[1]>> ELSE <<>>
    /\ Sent(frameQueue) \in Seq(SentFrames) /\ Sent(pendingFrames) \in Seq(SentFrames)
    /\ Len(Sent(frameQueue)) = Len(frameQueue)
    /\ frameQueue # <<>> =>
         /\ Sent(frameQueue) # <<>> /\ Sent(frameQueue)[1] = Tag(CurrentFrame)
         /\ Tail(Sent(frameQueue)) = Sent(Tail(frameQueue))

\* They do.
LEMMA SeenNow == Queued => Seen
<1> SUFFICES ASSUME Queued PROVE Seen
  OBVIOUS
<1>1. frameQueue \in Seq(Frame) /\ pendingFrames \in Seq(Frame)
  BY DEF Queued
<1>2. /\ Sent(frameQueue) \in Seq(SentFrames) /\ Sent(pendingFrames) \in Seq(SentFrames)
      /\ Len(Sent(frameQueue)) = Len(frameQueue)
  BY <1>1, SentFacts
<1>3. frameQueue # <<>> =>
         /\ Sent(frameQueue) # <<>> /\ Sent(frameQueue)[1] = Tag(CurrentFrame)
         /\ Tail(Sent(frameQueue)) = Sent(Tail(frameQueue))
  BY <1>1, SentFront, Zenon DEF CurrentFrame
<1>4. (Playing = TRUE \/ Playing = FALSE) /\ (Playing => frameQueue # <<>>)
  BY Zenon DEF Playing
<1>5. /\ Sent((IF Playing THEN Tail(frameQueue) ELSE frameQueue) \o pendingFrames)
            = (IF Playing THEN Tail(Sent(frameQueue)) ELSE Sent(frameQueue))
              \o Sent(pendingFrames)
      /\ Sent(IF Playing THEN <<frameQueue[1]>> ELSE <<>>)
            = IF Playing THEN <<Sent(frameQueue)[1]>> ELSE <<>>
  BY <1>1, <1>4, SeenQueues, Zenon
<1> QED
  BY <1>2, <1>3, <1>5, Zenon DEF Seen, Unseen, Shown, CurrentFrame

\* Also after a step.
LEMMA SeenNext == Queued' => Seen'
  BY SeenNow, PTL

\* A step that leaves the frames as they are is none of FrameFeed's.
LEMMA SeenSame ==
    ASSUME Queued, Queued', Sent(frameQueue)' = Sent(frameQueue),
           Sent(pendingFrames)' = Sent(pendingFrames), Playing' <=> Playing,
           Playing => CurrentFrame'.next = CurrentFrame.next
    PROVE  UNCHANGED Feed!feed
<1>1. Seen /\ Seen'
  BY SeenNow, SeenNext
<1>2. Sent(Unseen)' = Sent(Unseen) /\ Sent(Shown)' = Sent(Shown)
  BY <1>1, Zenon DEF Seen
<1>3. (IF Playing THEN CurrentFrame.next ELSE 0)' = IF Playing THEN CurrentFrame.next ELSE 0
  BY Zenon
<1> QED
  BY <1>2, <1>3, Zenon DEF Feed!feed

\* The frame that plays does so in both states, or in neither.
LEMMA PlayingSame ==
    ASSUME frameQueue' # <<>> <=> frameQueue # <<>>,
           frameQueue # <<>> => CurrentFrame'.played = CurrentFrame.played
    PROVE  Playing' <=> Playing
  BY Zenon DEF Playing

\* The same queues are the same frames.
LEMMA QueuesSameSeen ==
    ASSUME Queued, frameQueue' = frameQueue, pendingFrames' = pendingFrames
    PROVE  UNCHANGED Feed!feed
<1>1. Queued' /\ CurrentFrame' = CurrentFrame
  BY QueuesSame, Zenon
<1>2. Playing' <=> Playing
  BY <1>1, PlayingSame, Zenon
<1>3. Sent(frameQueue)' = Sent(frameQueue) /\ Sent(pendingFrames)' = Sent(pendingFrames)
  BY Zenon DEF Sent, LenOf
<1> QED
  BY <1>1, <1>2, <1>3, SeenSame, Zenon

\* A frame that joins the pending ones is sent.
LEMMA EnqueueSends ==
    ASSUME Queued, NEW f \in Frame, Untouched(f),
           pendingFrames' = Append(pendingFrames, f), frameQueue' = frameQueue
    PROVE  Feed!Next
<1> DEFINE g == Tag(f)
           u == IF Playing THEN Tail(Sent(frameQueue)) ELSE Sent(frameQueue)
           v == Sent(pendingFrames)
<1>1. Queued' /\ CurrentFrame' = CurrentFrame
  BY QueueGrows, Zenon
<1>2. Seen /\ Seen'
  BY <1>1, SeenNow, SeenNext
<1>3. Playing' <=> Playing
  BY <1>1, PlayingSame, Zenon
<1>4. Sent(frameQueue)' = Sent(frameQueue)
  BY Zenon DEF Sent, LenOf
<1>5. Sent(pendingFrames)' = v \o <<g>>
  <2>1. pendingFrames \in Seq(Frame) /\ <<f>> \in Seq(Frame)
    BY DEF Queued
  <2>2. Append(pendingFrames, f) = pendingFrames \o <<f>>
    BY <2>1
  <2>3. Sent(<<f>>) = <<g>>
    BY DEF Sent, Tag
  <2>4. Sent(pendingFrames \o <<f>>) = v \o <<g>>
    BY <2>1, <2>3, SentJoin, Zenon
  <2>5. Sent(pendingFrames') = v \o <<g>>
    BY <2>2, <2>4, Zenon
  <2> QED
    BY <2>5, Zenon DEF Sent, LenOf
<1>6. g \in SentFrames
  BY TagFacts
<1>7. u \in Seq(SentFrames) /\ v \in Seq(SentFrames)
  <2>1. Playing => frameQueue # <<>>
    BY DEF Playing
  <2>2. Playing => Tail(Sent(frameQueue)) \in Seq(SentFrames)
    BY <1>2, <2>1, FrontFacts, Zenon DEF Seen
  <2> QED
    BY <1>2, <2>2, Zenon DEF Seen
<1>8. Sent(Unseen) = u \o v
  BY <1>2, Zenon DEF Seen
<1>9. Sent(Unseen)' = u \o (v \o <<g>>)
  BY <1>2, <1>3, <1>4, <1>5, Zenon DEF Seen
<1> HIDE DEF u, v, g
<1>10. u \o (v \o <<g>>) = Append(u \o v, g)
  <2>1. <<g>> \in Seq(SentFrames) /\ u \o v \in Seq(SentFrames)
    BY <1>6, <1>7, JoinFacts
  <2> DEFINE h == <<g>>
             w == u \o v
  <2>2. h \in Seq(SentFrames) /\ w \in Seq(SentFrames)
    BY <2>1
  <2> HIDE DEF h
  <2>3. (u \o v) \o h = u \o (v \o h)
    BY <1>7, <2>2, ConcatAssociative
  <2> HIDE DEF w
  <2>4. Append(w, g) = w \o <<g>>
    BY <1>6, <2>2
  <2> QED
    BY <2>3, <2>4, Zenon DEF h, w
<1>11. Sent(Unseen)' = Append(Sent(Unseen), g)
  BY <1>8, <1>9, <1>10, Zenon
<1>12. Sent(Shown)' = Sent(Shown)
  BY <1>2, <1>3, <1>4, Zenon DEF Seen
<1>13. (IF Playing THEN CurrentFrame.next ELSE 0)' = IF Playing THEN CurrentFrame.next ELSE 0
  BY <1>1, <1>3, Zenon
<1>14. Feed!Send(g)
  BY <1>11, <1>12, <1>13, Zenon DEF Feed!Send
<1> QED
  BY <1>6, <1>14, Zenon DEF Feed!Next

\* A reset clears the feed.
LEMMA ResetClears ==
    ASSUME Reset
    PROVE  Feed!Next
<1>1. frameQueue' = <<>> /\ pendingFrames' = <<>>
  BY Zenon DEF Reset
<1>2. Queued'
  BY <1>1, QueuesEmptied, Zenon
<1>3. ~Playing'
  BY <1>1, Zenon DEF Playing
<1>4. Unseen' = <<>> /\ Shown' = <<>>
  BY <1>1, <1>3 DEF Unseen, Shown
<1>5. Sent(Unseen)' = <<>> /\ Sent(Shown)' = <<>>
  BY <1>4 DEF Sent
<1>6. (IF Playing THEN CurrentFrame.next ELSE 0)' = 0
  BY <1>3, Zenon
<1>7. Feed!Clear
  BY <1>5, <1>6, Zenon DEF Feed!Clear
<1> QED
  BY <1>7, Zenon DEF Feed!Next

\* Time does not change what an application sees.
LEMMA TickUnseen ==
    ASSUME Queued, Tick
    PROVE  UNCHANGED Feed!feed
<1>1. /\ pendingFrames' = [i \in DOMAIN pendingFrames |-> Later(pendingFrames[i])]
      /\ frameQueue' = [i \in DOMAIN frameQueue |-> Later(frameQueue[i])]
      /\ pendingFrames \in Seq(Frame) /\ frameQueue \in Seq(Frame)
  BY Zenon DEF Tick, Queued
<1>2. ASSUME NEW q \in Seq(Frame), NEW r, r = [i \in DOMAIN q |-> Later(q[i])]
      PROVE  Sent(r) = Sent(q)
  <2>1. r \in Seq(Frame) /\ Len(r) = Len(q) /\ \A i \in 1 .. Len(q) : r[i] = Later(q[i])
    BY <1>2, AgedFacts, Zenon
  <2>2. ASSUME NEW i \in 1 .. Len(q) PROVE Tag(r[i]) = Tag(q[i])
    <3>1. q[i] \in Frame
      BY ElementOfSeq, Zenon
    <3> QED
      BY <2>1, <3>1, LaterFacts, Zenon DEF Tag
  <2> QED
    BY <2>1, <2>2, SentSame, Zenon
<1>3. Sent(frameQueue') = Sent(frameQueue) /\ Sent(pendingFrames') = Sent(pendingFrames)
  BY <1>1, <1>2, Zenon
<1>4. Sent(frameQueue)' = Sent(frameQueue) /\ Sent(pendingFrames)' = Sent(pendingFrames)
  BY <1>3, Zenon DEF Sent, LenOf
<1>5. /\ Queued'
      /\ frameQueue' # <<>> <=> frameQueue # <<>>
      /\ frameQueue # <<>> => CurrentFrame' = Later(CurrentFrame) /\ CurrentFrame \in Frame
  BY QueuesAge, Zenon
<1>6. frameQueue # <<>> =>
         CurrentFrame'.next = CurrentFrame.next /\ CurrentFrame'.played = CurrentFrame.played
  BY <1>5, LaterFacts, Zenon
<1>7. Playing' <=> Playing
  BY <1>5, <1>6, PlayingSame, Zenon
<1> QED
  BY <1>4, <1>5, <1>6, <1>7, SeenSame, Zenon DEF Playing

\* Taking the pending frames over changes nothing an application sees.
LEMMA JoinUnseen ==
    ASSUME Queued, frameQueue' = frameQueue \o pendingFrames, pendingFrames' = <<>>
    PROVE  UNCHANGED Feed!feed
<1> DEFINE u == Sent(frameQueue)
           v == Sent(pendingFrames)
<1>1. /\ Queued'
      /\ frameQueue # <<>> => frameQueue' # <<>> /\ CurrentFrame' = CurrentFrame
      /\ frameQueue = <<>> /\ frameQueue' # <<>> => Untouched(CurrentFrame')
  BY QueuesJoin, Zenon
<1>2. Seen /\ Seen'
  BY <1>1, SeenNow, SeenNext
<1>3. Playing' <=> Playing
  BY <1>1, Zenon DEF Playing, Untouched
<1>4. Sent(frameQueue)' = u \o v
  <2>1. frameQueue \in Seq(Frame) /\ pendingFrames \in Seq(Frame)
    BY DEF Queued
  <2>2. Sent(frameQueue') = u \o v
    BY <2>1, SentJoin, Zenon
  <2> QED
    BY <2>2, Zenon DEF Sent, LenOf
<1>5. Sent(pendingFrames)' = <<>>
  BY DEF Sent
<1>6. u \in Seq(SentFrames) /\ v \in Seq(SentFrames) /\ (Playing => u # <<>>)
  BY <1>2, Zenon DEF Seen, Playing
<1>7. /\ Sent(Unseen) = (IF Playing THEN Tail(u) ELSE u) \o v
      /\ Sent(Shown) = IF Playing THEN <<u[1]>> ELSE <<>>
  BY <1>2, Zenon DEF Seen
<1>8. /\ Sent(Unseen)' = (IF Playing THEN Tail(u \o v) ELSE u \o v) \o <<>>
      /\ Sent(Shown)' = IF Playing THEN <<(u \o v)[1]>> ELSE <<>>
  BY <1>2, <1>3, <1>4, <1>5, Zenon DEF Seen
<1> HIDE DEF u, v
<1>9. u \o v \in Seq(SentFrames)
  BY <1>6, JoinFacts
<1>10. Playing => (u \o v)[1] = u[1] /\ Tail(u \o v) = Tail(u) \o v /\ u \o v # <<>>
  BY <1>6, JoinFront
<1>11. Playing => Tail(u \o v) \in Seq(SentFrames)
  <2> DEFINE w == u \o v
  <2>1. w \in Seq(SentFrames) /\ (Playing => w # <<>>)
    BY <1>9, <1>10
  <2> HIDE DEF w
  <2>2. Playing => Tail(w) \in Seq(SentFrames)
    BY <2>1, FrontFacts, Zenon
  <2> QED
    BY <2>2 DEF w
<1>12. ASSUME NEW s \in Seq(SentFrames) PROVE s \o <<>> = s
  BY ConcatEmptySeq, Zenon
<1>13. Sent(Unseen)' = Sent(Unseen) /\ Sent(Shown)' = Sent(Shown)
  <2>1. CASE Playing
    BY <1>7, <1>8, <1>10, <1>11, <1>12, <2>1, Zenon
  <2>2. CASE ~Playing
    BY <1>7, <1>8, <1>9, <1>12, <2>2, Zenon
  <2> QED
    BY <2>1, <2>2
<1>14. (IF Playing THEN CurrentFrame.next ELSE 0)' = IF Playing THEN CurrentFrame.next ELSE 0
  BY <1>1, <1>3, Zenon DEF Playing
<1> QED
  BY <1>13, <1>14, Zenon DEF Feed!feed

\* A frame nobody has seen is dropped for one that waits behind it.
LEMMA SkipDrops ==
    ASSUME IInv, SkipStale
    PROVE  Feed!Next
<1> DEFINE u == Sent(frameQueue)
           v == Sent(pendingFrames)
<1>1. /\ Len(frameQueue) > 1 /\ ~CurrentFrame.played /\ frameQueue' = Tail(frameQueue)
      /\ pendingFrames' = pendingFrames /\ wpc = "skip"
  BY Zenon DEF SkipStale, StaleFront
<1>2. frameQueue # <<>> /\ Queued
  BY <1>1, RoomFacts, PlaceFacts
<1>3. /\ Queued' /\ frameQueue' # <<>> /\ CurrentFrame' = frameQueue[2]
      /\ Untouched(frameQueue[2])
  BY <1>1, <1>2, FrontGoes, Zenon
<1>4. Seen /\ Seen'
  BY <1>2, <1>3, SeenNow, SeenNext
<1>5. ~Playing /\ ~Playing'
  BY <1>1, <1>3, Zenon DEF Playing, Untouched
<1>6. Sent(frameQueue)' = Tail(u) /\ Sent(pendingFrames)' = v
  <2>1. Sent(frameQueue') = Tail(u)
    BY <1>1, <1>2, <1>4, Zenon DEF Seen
  <2> QED
    BY <1>1, <2>1, Zenon DEF Sent, LenOf
<1>7. u \in Seq(SentFrames) /\ v \in Seq(SentFrames) /\ u # <<>> /\ Len(u) > 1
  BY <1>1, <1>2, <1>4, Zenon DEF Seen
<1>8. Sent(Unseen) = u \o v /\ Sent(Shown) = <<>>
  BY <1>4, <1>5, Zenon DEF Seen
<1>9. Sent(Unseen)' = Tail(u) \o v /\ Sent(Shown)' = <<>>
  BY <1>4, <1>5, <1>6, Zenon DEF Seen
<1> HIDE DEF u, v
<1>10. Len(u \o v) > 1 /\ Tail(u \o v) = Tail(u) \o v
  <2>1. Tail(u \o v) = Tail(u) \o v
    BY <1>7, JoinFront
  <2>2. Len(u \o v) = Len(u) + Len(v) /\ Len(u) \in Nat /\ Len(v) \in Nat
    BY <1>7, JoinFacts
  <2> QED
    BY <1>7, <2>1, <2>2
<1>11. (IF Playing THEN CurrentFrame.next ELSE 0)' = IF Playing THEN CurrentFrame.next ELSE 0
  BY <1>5, Zenon
<1>12. Feed!Drop
  BY <1>8, <1>9, <1>10, <1>11, Zenon DEF Feed!Drop
<1> QED
  BY <1>12, Zenon DEF Feed!Next

\* At its end the frame being shown ends: it gives way, or has been held long
\* enough.
LEMMA FrontEnds ==
    ASSUME IInv, wpc \in {"advance", "frame"}, CurrentFrame.next = LenOf(CurrentFrame),
           frameQueue' = Tail(frameQueue), pendingFrames' = pendingFrames
    PROVE  Feed!Next
<1> DEFINE u == Sent(frameQueue)
           v == Sent(pendingFrames)
<1>1. frameQueue # <<>> /\ Queued
  BY RoomFacts, PlaceFacts
<1>2. CurrentFrame \in Frame /\ CurrentFrame.played
  BY <1>1, PlaceFacts
<1>3. /\ Queued'
      /\ frameQueue' # <<>> <=> Len(frameQueue) > 1
      /\ Len(frameQueue) > 1 => CurrentFrame' = frameQueue[2] /\ Untouched(frameQueue[2])
  BY <1>1, FrontGoes, Zenon
<1>4. Seen /\ Seen'
  BY <1>1, <1>3, SeenNow, SeenNext
<1>5. Playing /\ ~Playing'
  BY <1>1, <1>2, <1>3, Zenon DEF Playing, Untouched
<1>6. Sent(frameQueue)' = Tail(u) /\ Sent(pendingFrames)' = v
  <2>1. Sent(frameQueue') = Tail(u)
    BY <1>1, <1>4, Zenon DEF Seen
  <2> QED
    BY <2>1, Zenon DEF Sent, LenOf
<1>7. Sent(Unseen)' = Sent(Unseen) /\ Sent(Shown)' = <<>>
  BY <1>4, <1>5, <1>6, Zenon DEF Seen
<1>8. Sent(Shown) = <<Tag(CurrentFrame)>>
  BY <1>1, <1>4, <1>5, Zenon DEF Seen
<1>9. Sent(Shown) # <<>> /\ SentLength(Sent(Shown)[1]) = LenOf(CurrentFrame)
  BY <1>2, <1>8, TagFacts
<1>10. (IF Playing THEN CurrentFrame.next ELSE 0) = LenOf(CurrentFrame)
  BY <1>5, Zenon
<1>11. (IF Playing THEN CurrentFrame.next ELSE 0)' = 0
  BY <1>5, Zenon
<1>12. Feed!End
  BY <1>7, <1>9, <1>10, <1>11, Zenon DEF Feed!End, Feed!Finished
<1> QED
  BY <1>12, Zenon DEF Feed!Next

\* The queue holds the same frames if only the state of its front changed.
LEMMA FrontSameSeen ==
    ASSUME Queued, Queued', frameQueue # <<>>, frameQueue' # <<>>,
           Tail(frameQueue') = Tail(frameQueue), CurrentFrame'.id = CurrentFrame.id,
           CurrentFrame'.shape = CurrentFrame.shape, pendingFrames' = pendingFrames
    PROVE  Sent(frameQueue)' = Sent(frameQueue) /\ Sent(pendingFrames)' = Sent(pendingFrames)
<1> DEFINE p == frameQueue
           q == frameQueue'
<1>1. p \in Seq(Frame) /\ q \in Seq(Frame)
  BY Zenon DEF Queued
<1>2. Tag(q[1]) = Tag(p[1])
  BY Zenon DEF Tag, LenOf, CurrentFrame
<1>3. p # <<>> /\ q # <<>> /\ Tail(q) = Tail(p)
  OBVIOUS
<1> SUFFICES Sent(q) = Sent(p)
  BY Zenon DEF Sent, LenOf
<1> HIDE DEF p, q
<1>4. /\ Len(p) \in Nat /\ Len(Tail(p)) = Len(p) - 1
      /\ \A i \in 1 .. Len(Tail(p)) : Tail(p)[i] = p[i + 1]
  BY <1>1, <1>3, FrontFacts, Zenon
<1>5. /\ Len(q) \in Nat /\ Len(Tail(q)) = Len(q) - 1
      /\ \A i \in 1 .. Len(Tail(q)) : Tail(q)[i] = q[i + 1]
  BY <1>1, <1>3, FrontFacts, Zenon
<1>6. Len(q) = Len(p)
  <2> DEFINE m == Len(p)
             n == Len(q)
  <2>1. m - 1 = n - 1
    BY <1>3, <1>4, <1>5, Zenon
  <2>2. m \in Nat /\ n \in Nat
    BY <1>4, <1>5
  <2> HIDE DEF m, n
  <2>3. m = n
    BY <2>1, <2>2
  <2> QED
    BY <2>3 DEF m, n
<1>7. ASSUME NEW i \in 1 .. Len(q) PROVE Tag(q[i]) = Tag(p[i])
  <2>1. CASE i = 1
    BY <1>2, <2>1
  <2>2. CASE i # 1
    <3>1. i - 1 \in 1 .. Len(Tail(p)) /\ (i - 1) + 1 = i
      BY <1>4, <1>6, <2>2
    <3>2. q[(i - 1) + 1] = p[(i - 1) + 1]
      BY <1>3, <1>4, <1>5, <3>1, Zenon
    <3> QED
      BY <3>1, <3>2
  <2> QED
    BY <2>1, <2>2
<1> QED
  BY <1>1, <1>6, <1>7, SentSame, Zenon

\* From its end the frame being shown is shown again.
LEMMA FrontRepeats ==
    ASSUME IInv, wpc \in {"advance", "frame"}, CurrentFrame.next = LenOf(CurrentFrame),
           frameQueue' = [frameQueue EXCEPT ![1].next = 0], pendingFrames' = pendingFrames
    PROVE  Feed!Next
<1>1. frameQueue # <<>> /\ Queued
  BY RoomFacts, PlaceFacts
<1>2. CurrentFrame \in Frame /\ CurrentFrame.played /\ LenOf(CurrentFrame) \in Nat
  BY <1>1, PlaceFacts
<1>3. /\ Queued' /\ frameQueue' # <<>> /\ Tail(frameQueue') = Tail(frameQueue)
      /\ CurrentFrame'.id = CurrentFrame.id /\ CurrentFrame'.shape = CurrentFrame.shape
      /\ CurrentFrame'.played = CurrentFrame.played /\ CurrentFrame'.next = 0
  BY <1>1, FrontRestarts, Zenon
<1>4. Seen /\ Seen'
  BY <1>1, <1>3, SeenNow, SeenNext
<1>5. Playing /\ Playing'
  BY <1>1, <1>2, <1>3, Zenon DEF Playing
<1>6. Sent(frameQueue)' = Sent(frameQueue) /\ Sent(pendingFrames)' = Sent(pendingFrames)
  BY <1>1, <1>3, FrontSameSeen, Zenon
<1>7. Sent(Unseen)' = Sent(Unseen) /\ Sent(Shown)' = Sent(Shown)
  BY <1>4, <1>5, <1>6, Zenon DEF Seen
<1>8. Sent(Shown) = <<Tag(CurrentFrame)>>
  BY <1>1, <1>4, <1>5, Zenon DEF Seen
<1>9. Sent(Shown) # <<>> /\ SentLength(Sent(Shown)[1]) = LenOf(CurrentFrame)
  BY <1>2, <1>8, TagFacts
<1>10. (IF Playing THEN CurrentFrame.next ELSE 0) = LenOf(CurrentFrame)
  BY <1>5, Zenon
<1>11. (IF Playing THEN CurrentFrame.next ELSE 0)' = 0
  BY <1>3, <1>5, Zenon
<1>12. 0 \in 0 .. LenOf(CurrentFrame)
  BY <1>2
<1>13. Feed!Repeat
  BY <1>7, <1>9, <1>10, <1>11, <1>12, Zenon DEF Feed!Repeat, Feed!Finished
<1> QED
  BY <1>13, Zenon DEF Feed!Next

\* A copy begins the next frame, shows more of the one begun, or, at its end,
\* nothing.
LEMMA CopyShows ==
    ASSUME IInv, wpc \in {"points", "frame"}, NEW n \in Nat, Show(n),
           pendingFrames' = pendingFrames,
           CurrentFrame.next + n <= LenOf(CurrentFrame),
           n = 0 => CurrentFrame.next = LenOf(CurrentFrame)
    PROVE  [Feed!Next]_(Feed!feed)
<1> DEFINE u == Sent(frameQueue)
           v == Sent(pendingFrames)
<1>1. frameQueue # <<>> /\ Queued
  BY RoomFacts, PlaceFacts
<1>2. /\ CurrentFrame \in Frame /\ LenOf(CurrentFrame) \in Nat /\ LenOf(CurrentFrame) # 0
      /\ CurrentFrame.next \in Nat /\ (CurrentFrame.played \/ CurrentFrame.next = 0)
  BY <1>1, PlaceFacts
<1>3. /\ Queued' /\ frameQueue' # <<>> /\ Tail(frameQueue') = Tail(frameQueue)
      /\ CurrentFrame'.id = CurrentFrame.id /\ CurrentFrame'.shape = CurrentFrame.shape
      /\ CurrentFrame'.next = CurrentFrame.next + n /\ CurrentFrame'.played
  BY <1>1, ShowFacts, Zenon
<1>4. Seen /\ Seen'
  BY <1>1, <1>3, SeenNow, SeenNext
<1>5. Playing'
  BY <1>3, Zenon DEF Playing
<1>6. Sent(frameQueue)' = u /\ Sent(pendingFrames)' = v
  BY <1>1, <1>3, FrontSameSeen, Zenon
<1>7. /\ u \in Seq(SentFrames) /\ v \in Seq(SentFrames) /\ u # <<>>
      /\ u[1] = Tag(CurrentFrame)
  BY <1>1, <1>4, Zenon DEF Seen
<1>8. Sent(Unseen)' = Tail(u) \o v /\ Sent(Shown)' = <<u[1]>>
  BY <1>4, <1>5, <1>6, Zenon DEF Seen
<1>9. (IF Playing THEN CurrentFrame.next ELSE 0)' = CurrentFrame.next + n
  BY <1>3, <1>5, Zenon
<1>10. SentLength(u[1]) = LenOf(CurrentFrame)
  BY <1>2, <1>7, TagFacts, Zenon
<1>11. CASE Playing
  <2>1. Sent(Unseen) = Tail(u) \o v /\ Sent(Shown) = <<u[1]>>
    BY <1>4, <1>11, Zenon DEF Seen
  <2>2. (IF Playing THEN CurrentFrame.next ELSE 0) = CurrentFrame.next
    BY <1>11, Zenon
  <2>3. CASE n = 0
    <3>1. CurrentFrame.next + n = CurrentFrame.next
      BY <1>2, <2>3
    <3> QED
      BY <1>8, <1>9, <2>1, <2>2, <3>1, Zenon DEF Feed!feed
  <2>4. CASE n # 0
    <3>1. CurrentFrame.next + n \in CurrentFrame.next + 1 .. LenOf(CurrentFrame)
      BY <1>2, <2>4
    <3>2. Sent(Shown) # <<>> /\ Sent(Shown)[1] = u[1]
      BY <2>1
    <3>3. Feed!Continue
      BY <1>8, <1>9, <1>10, <2>1, <2>2, <3>1, <3>2, Zenon DEF Feed!Continue
    <3> QED
      BY <3>3, Zenon DEF Feed!Next
  <2> QED
    BY <2>3, <2>4
<1>12. CASE ~Playing
  <2>1. CurrentFrame.next = 0
    BY <1>1, <1>2, <1>12, Zenon DEF Playing
  <2>2. CurrentFrame.next + n \in 1 .. LenOf(CurrentFrame)
    BY <1>2, <2>1
  <2>3. Sent(Unseen) = u \o v /\ Sent(Shown) = <<>>
    BY <1>4, <1>12, Zenon DEF Seen
  <2>4. u \o v # <<>> /\ (u \o v)[1] = u[1] /\ Tail(u \o v) = Tail(u) \o v
    <3> HIDE DEF u, v
    <3> QED
      BY <1>7, JoinFront
  <2>5. Feed!Begin
    BY <1>8, <1>9, <1>10, <2>2, <2>3, <2>4, Zenon DEF Feed!Begin
  <2> QED
    BY <2>5, Zenon DEF Feed!Next
<1> QED
  BY <1>11, <1>12

\* The queues and the fills keep FrameFeed's promise: whole frames in the order
\* they were sent, and only frames nobody has seen give way to later ones.
THEOREM Refinement == Spec => FeedSpec
<1>1. Init => Feed!Init
  <2> SUFFICES ASSUME Init PROVE Feed!Init
    OBVIOUS
  <2>1. frameQueue = <<>> /\ pendingFrames = <<>>
    BY DEF Init
  <2>2. ~Playing
    BY <2>1 DEF Playing
  <2>3. Unseen = <<>> /\ Shown = <<>>
    BY <2>1, <2>2 DEF Unseen, Shown
  <2> QED
    BY <2>2, <2>3 DEF Feed!Init, Sent
<1>2. ASSUME IInv, [Next]_vars PROVE [Feed!Next]_(Feed!feed)
  <2>0. Queued
    BY <1>2, PlaceFacts
  <2>1. ASSUME frameQueue' = frameQueue, pendingFrames' = pendingFrames
        PROVE  [Feed!Next]_(Feed!feed)
    BY <2>0, <2>1, QueuesSameSeen, Zenon
  <2>2. ASSUME NEW shape \in Shapes, NEW due \in 0 .. MaxDue, SendFrameCheck(shape, due)
        PROVE  [Feed!Next]_(Feed!feed)
    BY <2>1, <2>2, Zenon DEF SendFrameCheck, queues
  <2>3. CASE SendFrameEnqueue
    <3> DEFINE f == sending[1]
    <3>1. /\ pendingFrames' = Append(pendingFrames, f) /\ frameQueue' = frameQueue
          /\ sending # <<>>
      BY <2>3, Zenon DEF SendFrameEnqueue, EnqueueFrame
    <3>2. Untouched(f) /\ f \in Frame
      BY <1>2, <3>1, PlaceFacts, FrontFacts, Zenon DEF Accepted
    <3> HIDE DEF f
    <3> QED
      BY <2>0, <3>1, <3>2, EnqueueSends, Zenon
  <2>4. ASSUME NEW shape \in Shapes, NEW due \in 0 .. MaxDue, TrySendFrame(shape, due)
        PROVE  [Feed!Next]_(Feed!feed)
    <3> DEFINE f == NewFrame(shape, due)
    <3>1. /\ pendingFrames' = Append(pendingFrames, f) /\ frameQueue' = frameQueue
          /\ sent < MaxFrames
      BY <2>4, Zenon DEF TrySendFrame, EnqueueFrame
    <3>2. Untouched(f) /\ f \in Frame
      BY <1>2, <3>1, NewFrameFacts, Zenon
    <3> HIDE DEF f
    <3> QED
      BY <2>0, <3>1, <3>2, EnqueueSends, Zenon
  <2>5. CASE Application
    BY <2>2, <2>3, <2>4, <2>5, ResetClears, Zenon DEF Application
  <2>6. CASE Tick
    BY <2>0, <2>6, TickUnseen, Zenon
  <2>7. CASE Fill(Requests)
    BY <2>0, <2>7, JoinUnseen, Zenon DEF Fill, BeginFill
  <2>8. CASE Gate \/ Blank \/ Return \/ FrameIdle
    BY <2>1, <2>8, Zenon DEF Gate, Blank, Return, FrameIdle
  <2>9. CASE AdvanceToNext \/ ExpireFrame \/ LoopFrame
    <3>1. CurrentFrame.next = LenOf(CurrentFrame) /\ wpc = "advance"
      BY <1>2, <2>9, PlaceFacts, Zenon DEF Filling, AdvanceToNext, ExpireFrame, LoopFrame
    <3>2. CASE AdvanceToNext \/ ExpireFrame
      BY <1>2, <3>1, <3>2, FrontEnds, Zenon DEF AdvanceToNext, ExpireFrame
    <3>3. CASE LoopFrame
      BY <1>2, <3>1, <3>3, FrontRepeats, Zenon DEF LoopFrame
    <3> QED
      BY <2>9, <3>2, <3>3, Zenon
  <2>10. CASE FrameAdvance \/ FrameExpire \/ FrameRepeat
    <3>1. FrontAtEnd /\ wpc = "frame"
      BY <2>10, Zenon DEF FrameAdvance, FrameExpire, FrameRepeat
    <3>2. CurrentFrame.next = LenOf(CurrentFrame)
      BY <1>2, <3>1, RoomFacts, PlaceFacts DEF FrontAtEnd
    <3>3. CASE FrameAdvance \/ FrameExpire
      BY <1>2, <3>1, <3>2, <3>3, FrontEnds, Zenon DEF FrameAdvance, FrameExpire
    <3>4. CASE FrameRepeat
      BY <1>2, <3>1, <3>2, <3>4, FrontRepeats, Zenon DEF FrameRepeat
    <3> QED
      BY <2>10, <3>3, <3>4, Zenon
  <2>11. CASE CopyPoints
    <3> DEFINE n == Lesser(LenOf(CurrentFrame) - CurrentFrame.next, req.max - outLen)
    <3>1. wpc = "points" /\ Show(n) /\ pendingFrames' = pendingFrames
      BY <2>11, Zenon DEF CopyPoints
    <3>2. /\ n \in Nat /\ CurrentFrame.next + n <= LenOf(CurrentFrame)
          /\ n = 0 => CurrentFrame.next = LenOf(CurrentFrame)
      BY <1>2, <3>1, RoomFacts, PlaceFacts DEF Lesser
    <3> HIDE DEF n
    <3> QED
      BY <1>2, <3>1, <3>2, CopyShows
  <2>12. CASE FrameCopy
    <3> DEFINE n == Lesser(LenOf(CurrentFrame) - CurrentFrame.next, req.max)
    <3>1. wpc = "frame" /\ Show(n) /\ pendingFrames' = pendingFrames
      BY <2>12, Zenon DEF FrameCopy
    <3>2. /\ n \in Nat /\ CurrentFrame.next + n <= LenOf(CurrentFrame)
          /\ n = 0 => CurrentFrame.next = LenOf(CurrentFrame)
      BY <1>2, <3>1, RoomFacts, PlaceFacts DEF Lesser
    <3> HIDE DEF n
    <3> QED
      BY <1>2, <3>1, <3>2, CopyShows
  <2>13. CASE UNCHANGED vars
    BY <2>1, <2>13, Zenon DEF vars, queues
  <2> QED
    BY <1>2, <2>5, <2>6, <2>7, <2>8, <2>9, <2>10, <2>11, <2>12, <2>13, SkipDrops, Zenon
       DEF Next, FillStep
<1> QED
  BY <1>1, <1>2, Inductive, PTL DEF Spec, FeedSpec, Feed!Spec
=============================================================================
