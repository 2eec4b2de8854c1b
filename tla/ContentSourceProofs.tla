------------------------ MODULE ContentSourceProofs ------------------------
(***************************************************************************)
(* For any callbacks, requests, transport levels and latency: a request    *)
(* that no switch overlaps is served by the active source, the stream is   *)
(* cut into frames without loss, and what a replaced callback left in the  *)
(* framer comes out first.                                                 *)
(***************************************************************************)
EXTENDS ContentSource, SequenceTheorems, FiniteSetTheorems, WellFoundedInduction, TLAPS

-----------------------------------------------------------------------------
(* The inductive invariant.                                                 *)

Pts == [src : Callbacks, n : Nat]
Held == FlattenSeq(preparedFrames)

\* The worker has a callback in its hands.
Using == {"call", "lock", "prepare", "take"}

\* Frames are neither empty nor larger than the largest request.
Framed ==
    /\ accumulator \in Seq(Pts)
    /\ preparedFrames \in Seq(Seq(Pts)) /\ Len(preparedFrames) <= DesiredReadyFrames
    /\ \A i \in 1 .. Len(preparedFrames) : Len(preparedFrames[i]) \in 1 .. LargestFrame
    /\ forceEmits \in 0 .. FallbackCount

\* The stream is held in order, from the first point not given out.
Conserved ==
    /\ given \in Nat
    /\ preparedPointCount = Len(Held)
    /\ given + Len(Buffered) = totalPointsConsumed
    /\ \A i \in 1 .. Len(Buffered) : Buffered[i].n = given + i

\* The prefetch and the stream are bounded.
Limited ==
    /\ Len(Buffered) <= PrefetchLimit
    /\ totalPointsConsumed <= MaxConsumed + PrefetchLimit
    /\ req.kind = "frame" /\ wpc \in {"copy", "lock", "prepare"} => given <= MaxConsumed

\* What the worker knows at each place of a request.
Asking ==
    /\ wpc \in {"idle", "fail", "queue", "copy"} \cup Using
    /\ req \in Requests \cup {NoRequest}
    /\ copied \in Callbacks \cup {NoCallback}
    /\ sizes \in [nominal : Nat, max : Nat, target : Nat, transport : Nat]
    /\ wpc \in {"copy"} \cup Using => req \in Requests
    /\ wpc \in Using => copied # NoCallback
    /\ wpc \in {"lock", "prepare", "take"} =>
           req.kind = "frame" /\ PreferredPointCount(req) > 0
    /\ wpc = "prepare" =>
           /\ sizes.nominal \in 1 .. LargestFrame
           /\ sizes.max \in 1 .. LargestFrame
           /\ sizes.nominal <= sizes.max
           /\ sizes.target <= LatencyPoints + LargestFrame

\* The slots belong to the source.
Agree ==
    /\ (callback # NoCallback) <=> (activeSource = "PointCallback")
    /\ activeSource = "PointCallback" => queue = 0

\* What a switching call has still to do, and what it has done so far.
Switched ==
    /\ activeSource \in {"None", "PointCallback", "FrameQueue"}
    /\ callback \in Callbacks \cup {NoCallback}
    /\ queue \in 0 .. MaxQueue
    /\ \/ steps = <<>> /\ Agree
       \/ steps = <<ResetFramerStep>> /\ Agree
       \/ steps = <<ResetQueueStep>> /\ Agree
       \/ steps = <<EnqueueStep>> /\ Agree /\ activeSource = "FrameQueue"
       \/ steps = <<StoreStep(NoCallback)>> /\ activeSource # "PointCallback"
       \/ \E c \in Callbacks :
             \/ steps = <<ResetQueueStep, ResetFramerStep, StoreStep(c),
                          SourceStep("PointCallback")>>
             \/ /\ steps = <<ResetFramerStep, StoreStep(c), SourceStep("PointCallback")>>
                /\ queue = 0
             \/ steps = <<StoreStep(c), SourceStep("PointCallback")>> /\ queue = 0
             \/ steps = <<SourceStep("PointCallback")>> /\ queue = 0 /\ callback = c
       \/ steps = <<StoreStep(NoCallback), ResetFramerStep, SourceStep("None")>>
       \/ steps = <<StoreStep(NoCallback), ResetQueueStep, ResetFramerStep,
                    SourceStep("None")>>
       \/ /\ callback = NoCallback
          /\ \/ steps = <<ResetQueueStep, ResetFramerStep, SourceStep("None")>>
             \/ steps = <<ResetFramerStep, SourceStep("None")>>
             \/ steps = <<ResetQueueStep, SourceStep("None")>>
             \/ steps = <<SourceStep("None")>>
       \/ steps = <<ResetFramerStep, StoreStep(NoCallback), SourceStep("FrameQueue")>>
       \/ steps = <<ResetFramerStep, StoreStep(NoCallback), SourceStep("FrameQueue"),
                    EnqueueStep>>
       \/ steps = <<StoreStep(NoCallback), SourceStep("FrameQueue")>>
       \/ steps = <<StoreStep(NoCallback), SourceStep("FrameQueue"), EnqueueStep>>
       \/ steps = <<SourceStep("FrameQueue")>> /\ callback = NoCallback
       \/ steps = <<SourceStep("FrameQueue"), EnqueueStep>> /\ callback = NoCallback

\* A request no switch has overlapped uses the active source.
Current ==
    /\ fresh => steps = <<>> /\ wpc # "idle"
    /\ fresh /\ wpc = "queue" => activeSource = "FrameQueue"
    /\ fresh /\ wpc \in {"copy"} \cup Using => activeSource = "PointCallback"
    /\ fresh /\ wpc \in Using => copied = callback
    /\ out.fresh => steps = <<>>
    /\ SourceExclusive

\* Unless a request ran during the last reset, only the installed callback has
\* been used since.
Pure ==
    ~overlapped /\ callback # NoCallback =>
        /\ wpc \in Using => copied = callback
        /\ \A i \in 1 .. Len(Buffered) : Buffered[i].src = callback

\* Points of the installed callback are followed by its own only, and a
\* request that still uses another one has found none of them.
Sorted ==
    callback # NoCallback =>
        /\ wpc \in Using /\ copied # callback =>
               \A i \in 1 .. Len(Buffered) : Buffered[i].src # callback
        /\ \A i, j \in 1 .. Len(Buffered) :
               i < j /\ Buffered[i].src = callback => Buffered[j].src = callback

\* Between setPointCallback's reset and its store all points are those of the
\* one request that ran during the reset, if any did.
OneRequest ==
    /\ ~overlapped => wpc = "idle" /\ Len(Buffered) = 0
    /\ \A i, j \in 1 .. Len(Buffered) : Buffered[i].src = Buffered[j].src
    /\ wpc \in Using => \A i \in 1 .. Len(Buffered) : Buffered[i].src = copied
    /\ wpc = "copy" => Len(Buffered) = 0
Between ==
    \A c \in Callbacks : steps = <<StoreStep(c), SourceStep("PointCallback")>> => OneRequest

IInv ==
    /\ Framed
    /\ Conserved
    /\ Limited
    /\ Asking
    /\ Switched
    /\ Current
    /\ Pure
    /\ Sorted
    /\ Between

-----------------------------------------------------------------------------
(* The largest request.                                                     *)

\* Every set of naturals that is not empty has a least element.
LEMMA LeastNatural ==
    ASSUME NEW T, T \subseteq Nat, T # {}
    PROVE  \E x \in T : \A y \in T : x <= y
<1>1. \E x \in T : \A y \in T : ~ (<<y, x>> \in OpToRel(<, Nat))
  BY NatLessThanWellFounded, WFMin, Zenon
<1>2. PICK x \in T : \A y \in T : ~ (<<y, x>> \in OpToRel(<, Nat))
  BY <1>1
<1>3. \A y \in T : ~(y < x)
  BY <1>2 DEF OpToRel
<1> QED
  BY <1>3

\* A finite set of naturals has a largest element, by induction on its size.
LEMMA LargestNatural ==
    ASSUME NEW S, S \subseteq Nat, S # {}, IsFiniteSet(S)
    PROVE  Max(S) \in S /\ \A y \in S : Max(S) >= y
<1> DEFINE Bounded(A) == \E x \in A : \A y \in A : x >= y
           Bad == {A \in SUBSET S : A # {} /\ ~Bounded(A)}
           T == {Cardinality(A) : A \in Bad}
<1>1. Bad = {}
  <2> SUFFICES ASSUME Bad # {} PROVE FALSE
    OBVIOUS
  <2>1. \A A \in Bad : IsFiniteSet(A) /\ Cardinality(A) \in Nat
    BY FS_Subset, FS_CardinalityType
  <2>2. T \subseteq Nat /\ T # {}
    BY <2>1
  <2> HIDE DEF T
  <2>3. PICK n \in T : \A m \in T : n <= m
    BY <2>2, LeastNatural
  <2>4. PICK A \in Bad : n = Cardinality(A)
    BY <2>3 DEF T
  <2>5. PICK a \in A : TRUE
    BY <2>4
  <2> DEFINE B == A \ {a}
  <2>6. IsFiniteSet(A) /\ IsFiniteSet(B) /\ Cardinality(B) = Cardinality(A) - 1
        /\ Cardinality(A) \in Nat
    BY <2>1, <2>4, <2>5, FS_RemoveElement
  <2>7. B \notin Bad
    <3> SUFFICES ASSUME B \in Bad PROVE FALSE
      OBVIOUS
    <3>1. Cardinality(B) \in T
      BY DEF T
    <3> QED
      BY <2>3, <2>4, <2>6, <3>1
  <2>8. CASE B = {}
    <3>1. A = {a} /\ a \in Nat
      BY <2>4, <2>5, <2>8
    <3> QED
      BY <2>4, <3>1
  <2>9. CASE Bounded(B)
    <3>1. PICK b \in B : \A y \in B : b >= y
      BY <2>9
    <3>2. A \subseteq Nat /\ a \in Nat /\ b \in Nat /\ b \in A
      BY <2>4, <2>5, <3>1
    <3>3. CASE a >= b
      <4>1. \A y \in A : a >= y
        BY <3>1, <3>2, <3>3
      <4> QED
        BY <2>4, <2>5, <4>1
    <3>4. CASE b >= a
      <4>1. \A y \in A : b >= y
        BY <3>1, <3>2, <3>4
      <4> QED
        BY <2>4, <3>2, <4>1
    <3> QED
      BY <3>2, <3>3, <3>4
  <2> QED
    BY <2>4, <2>7, <2>8, <2>9
<1>2. Bounded(S)
  BY <1>1
<1> QED
  BY <1>2 DEF Max

\* LargestFrame bounds what a request for a frame may ask for.
LEMMA LargestFrameFacts ==
    /\ LargestFrame \in Nat \ {0}
    /\ \A r \in FrameRequests : r.max <= LargestFrame /\ PreferredPointCount(r) <= LargestFrame
    /\ LatencyPoints \in Nat /\ PrefetchLimit \in Nat
    /\ LatencyPoints + LargestFrame <= PrefetchLimit
    /\ LargestFrame + LargestFrame <= PrefetchLimit
<1> DEFINE F(r) == AtLeast(r.max, PreferredPointCount(r))
           A == {F(r) : r \in FrameRequests}
           S == A \cup {1}
<1>1. \A r \in FrameRequests : r.max \in Nat /\ PreferredPointCount(r) \in Nat
  BY ContentAssumption DEF FrameRequests, PreferredPointCount, AtMost
<1>2. \A r \in FrameRequests : F(r) \in Nat /\ r.max <= F(r) /\ PreferredPointCount(r) <= F(r)
  BY <1>1 DEF AtLeast
<1>3. IsFiniteSet(FrameRequests)
  BY ContentAssumption, FS_Subset DEF FrameRequests
<1> HIDE DEF F
<1>4. IsFiniteSet(A)
  <2>1. [r \in FrameRequests |-> F(r)] \in Surjection(FrameRequests, A)
    BY DEF Surjection
  <2> QED
    BY <1>3, <2>1, FS_Surjection
<1>5. IsFiniteSet(S)
  BY <1>4, FS_AddElement
<1>6. S \subseteq Nat /\ S # {} /\ 1 \in S /\ \A r \in FrameRequests : F(r) \in S
  BY <1>2
<1>7. LargestFrame = Max(S)
  BY DEF LargestFrame, F
<1> HIDE DEF S
<1>8. LargestFrame \in S /\ \A y \in S : LargestFrame >= y
  BY <1>5, <1>6, <1>7, LargestNatural
<1>9. LargestFrame \in Nat /\ LargestFrame >= 1 /\ \A r \in FrameRequests : LargestFrame >= F(r)
  BY <1>6, <1>8
<1>10. \A r \in FrameRequests : r.max <= LargestFrame /\ PreferredPointCount(r) <= LargestFrame
  BY <1>1, <1>2, <1>9
<1> QED
  BY <1>9, <1>10, ContentAssumption DEF PrefetchLimit, AtLeast

-----------------------------------------------------------------------------
(* The frames the framer holds are at most two.                             *)

\* Up to two of anything.
LEMMA PairFacts ==
    ASSUME NEW E, NEW f \in Seq(E), Len(f) <= 2
    PROVE  /\ Len(f) \in 0 .. 2
           /\ \A i \in 1 .. Len(f) : f[i] \in E
           /\ f = <<>> <=> Len(f) = 0
           /\ f # <<>> =>
                /\ Head(f) = f[1] /\ Head(f) \in E
                /\ Tail(f) \in Seq(E) /\ Len(Tail(f)) = Len(f) - 1
                /\ \A i \in 1 .. Len(Tail(f)) : Tail(f)[i] = f[i + 1]
           /\ \A e \in E : /\ Append(f, e) \in Seq(E) /\ Len(Append(f, e)) = Len(f) + 1
                           /\ \A i \in 1 .. Len(f) : Append(f, e)[i] = f[i]
                           /\ Append(f, e)[Len(f) + 1] = e
<1>0. Len(f) \in Nat /\ \A i \in 1 .. Len(f) : f[i] \in E
  BY LenProperties, ElementOfSeq
<1>1. Len(f) \in 0 .. 2
  <2> DEFINE n == Len(f)
  <2>1. n \in Nat /\ n <= 2
    BY <1>0
  <2> HIDE DEF n
  <2>2. n \in 0 .. 2
    BY <2>1
  <2> QED
    BY <2>2 DEF n
<1>2. f = <<>> <=> Len(f) = 0
  BY EmptySeq
<1>3. \A e \in E : /\ Append(f, e) \in Seq(E) /\ Len(Append(f, e)) = Len(f) + 1
                  /\ \A i \in 1 .. Len(f) : Append(f, e)[i] = f[i]
                  /\ Append(f, e)[Len(f) + 1] = e
  BY AppendProperties
<1>4. f # <<>> => /\ Head(f) = f[1] /\ Head(f) \in E
                  /\ Tail(f) \in Seq(E) /\ Len(Tail(f)) = Len(f) - 1
                  /\ \A i \in 1 .. Len(Tail(f)) : Tail(f)[i] = f[i + 1]
  BY HeadTailProperties
<1> QED
  BY <1>0, <1>1, <1>2, <1>3, <1>4

\* What FlattenSeq makes of them.
LEMMA FlatOf ==
    ASSUME NEW E, NEW f \in Seq(E), Len(f) <= 2
    PROVE  /\ Len(f) = 0 => FlattenSeq(f) = <<>>
           /\ Len(f) = 1 => FlattenSeq(f) = f[1]
           /\ Len(f) = 2 => FlattenSeq(f) = f[1] \o f[2]
<1>1. Len(f) \in 0 .. 2 /\ (f = <<>> <=> Len(f) = 0)
  BY PairFacts, Zenon
<1>2. CASE Len(f) = 0
  <2>1. f = <<>> /\ FlattenSeq(f) = f
    BY <1>1, <1>2, Zenon DEF FlattenSeq
  <2> QED
    BY <1>2, <2>1
<1>3. CASE Len(f) # 0
  <2> DEFINE n == Len(f)
             e(g) == [i \in 1 .. n |-> IF i = 1 THEN f[i] ELSE g[i - 1] \o f[i]]
             w == [i \in 1 .. n |-> IF i = 1 THEN f[1] ELSE f[1] \o f[2]]
             g == CHOOSE g : g = e(g)
  <2>0. FlattenSeq(f) = g[n]
    BY <1>3 DEF FlattenSeq
  <2>1. n \in {1, 2}
    BY <1>1, <1>3
  <2> HIDE DEF n
  <2>2. w = e(w)
    <3>1. \A i \in 1 .. n : i = 1 \/ i = 2
      BY <2>1
    <3>2. \A i \in 1 .. n : (IF i = 1 THEN f[i] ELSE w[i - 1] \o f[i]) = w[i]
      <4> SUFFICES ASSUME NEW i \in 1 .. n
                   PROVE  (IF i = 1 THEN f[i] ELSE w[i - 1] \o f[i]) = w[i]
        OBVIOUS
      <4>1. CASE i = 1
        BY <4>1
      <4>2. CASE i = 2
        <5>1. 1 \in 1 .. n /\ i - 1 = 1 /\ i # 1
          BY <2>1, <4>2
        <5>2. w[1] = f[1]
          BY <5>1, Zenon
        <5>3. w[i] = f[1] \o f[2]
          BY <5>1, Zenon
        <5> HIDE DEF w
        <5> QED
          BY <4>2, <5>1, <5>2, <5>3, Zenon
      <4> QED
        BY <3>1, <4>1, <4>2
    <3> QED
      BY <3>2
  <2> HIDE DEF w
  <2>3. g = e(g)
    BY <2>2
  <2> HIDE DEF g
  <2>4. 1 \in 1 .. n /\ g[1] = f[1]
    BY <2>1, <2>3
  <2>5. n = 2 => g[2] = f[1] \o f[2]
    <3> SUFFICES ASSUME n = 2 PROVE g[2] = f[1] \o f[2]
      OBVIOUS
    <3>1. 2 \in 1 .. n /\ 2 - 1 = 1 /\ 2 # 1
      OBVIOUS
    <3>2. g[2] = IF 2 = 1 THEN f[2] ELSE g[2 - 1] \o f[2]
      BY <2>3, <3>1
    <3>3. g[2 - 1] = f[1]
      BY <2>4, <3>1
    <3> QED
      BY <3>1, <3>2, <3>3, Zenon
  <2>6. CASE n = 1
    <3>1. Len(f) = 1 /\ Len(f) # 0 /\ Len(f) # 2
      BY <2>6 DEF n
    <3> QED
      BY <2>0, <2>4, <2>6, <3>1, Zenon
  <2>7. CASE n = 2
    <3>1. Len(f) = 2 /\ Len(f) # 0 /\ Len(f) # 1
      BY <2>7 DEF n
    <3> QED
      BY <2>0, <2>5, <2>7, <3>1, Zenon
  <2> QED
    BY <2>1, <2>6, <2>7
<1> QED
  BY <1>2, <1>3

\* Two frames at most, one after the other.
LEMMA FlatFacts ==
    ASSUME NEW S, NEW f \in Seq(Seq(S)), Len(f) <= 2
    PROVE  FlattenSeq(f) \in Seq(S)
<1>1. /\ Len(f) \in 0 .. 2 /\ \A i \in 1 .. Len(f) : f[i] \in Seq(S)
  BY PairFacts, Zenon
<1> DEFINE n == Len(f)
<1> HIDE DEF n
<1>2. n \in 0 .. 2 /\ \A i \in 1 .. n : f[i] \in Seq(S)
  BY <1>1, Zenon DEF n
<1>3. CASE n = 0
  <2>1. FlattenSeq(f) = <<>>
    BY <1>3, FlatOf, Zenon DEF n
  <2> QED
    BY <2>1, EmptySeq, Zenon
<1>4. CASE n = 1
  <2>1. FlattenSeq(f) = f[1]
    BY <1>4, FlatOf, Zenon DEF n
  <2>2. 1 \in 1 .. n
    BY <1>4
  <2> QED
    BY <1>2, <2>1, <2>2, Zenon
<1>5. CASE n = 2
  <2>1. FlattenSeq(f) = f[1] \o f[2]
    BY <1>5, FlatOf, Zenon DEF n
  <2>2. 1 \in 1 .. n /\ 2 \in 1 .. n
    BY <1>5
  <2>3. f[1] \in Seq(S) /\ f[2] \in Seq(S)
    BY <1>2, <2>2, Zenon
  <2> QED
    BY <2>1, <2>3, ConcatProperties, Zenon
<1> QED
  BY <1>2, <1>3, <1>4, <1>5

\* What Append does, said of frames.
LEMMA AppendFacts ==
    ASSUME NEW f \in Seq(Seq(Pts))
    PROVE  \A u \in Seq(Pts) :
             /\ Append(f, u) \in Seq(Seq(Pts)) /\ Len(Append(f, u)) = Len(f) + 1
             /\ \A i \in 1 .. Len(f) : Append(f, u)[i] = f[i]
             /\ Append(f, u)[Len(f) + 1] = u
<1> TAKE u \in Seq(Pts)
<1> DEFINE E == Seq(Pts)
<1>1. f \in Seq(E) /\ u \in E
  OBVIOUS
<1> HIDE DEF E
<1>2. /\ Append(f, u) \in Seq(E) /\ Len(Append(f, u)) = Len(f) + 1
      /\ \A i \in 1 .. Len(f) : Append(f, u)[i] = f[i]
      /\ Append(f, u)[Len(f) + 1] = u
  BY <1>1, AppendProperties
<1> QED
  BY <1>2, Zenon DEF E

\* A frame cut at the end of the queue adds its points at the end.
LEMMA FlatAppend ==
    ASSUME NEW f \in Seq(Seq(Pts)), Len(f) < 2, NEW h \in Seq(Pts)
    PROVE  /\ Append(f, h) \in Seq(Seq(Pts)) /\ Len(Append(f, h)) = Len(f) + 1
           /\ FlattenSeq(Append(f, h)) = FlattenSeq(f) \o h
<1> DEFINE n == Len(f)
           g == Append(f, h)
<1>0. Len(f) <= 2
  <2>1. Len(f) \in Nat
    BY LenProperties, Zenon
  <2> QED
    BY <2>1
<1>1. n \in 0 .. 2 /\ n < 2
  BY <1>0, PairFacts, Zenon
<1>2. g \in Seq(Seq(Pts)) /\ Len(g) = n + 1 /\ (\A i \in 1 .. n : g[i] = f[i]) /\ g[n + 1] = h
  <2>1. \A u \in Seq(Pts) : /\ Append(f, u) \in Seq(Seq(Pts)) /\ Len(Append(f, u)) = Len(f) + 1
                          /\ \A i \in 1 .. Len(f) : Append(f, u)[i] = f[i]
                          /\ Append(f, u)[Len(f) + 1] = u
    BY AppendFacts
  <2> QED
    BY <2>1
<1> HIDE DEF n, g
<1>3. n \in {0, 1} /\ Len(g) <= 2
  BY <1>1, <1>2
<1>4. CASE n = 0
  <2>1. FlattenSeq(f) = <<>>
    BY <1>0, <1>4, FlatOf, Zenon DEF n
  <2>2. Len(g) = 1 /\ g[1] = h
    BY <1>2, <1>4
  <2>3. FlattenSeq(g) = h
    BY <1>2, <1>3, <2>2, FlatOf, Zenon
  <2>4. FlattenSeq(g) = <<>> \o h
    BY <2>3, ConcatEmptySeq, Zenon
  <2> QED
    BY <1>2, <2>1, <2>4, Zenon DEF n, g
<1>5. CASE n = 1
  <2>1. FlattenSeq(f) = f[1]
    BY <1>0, <1>5, FlatOf, Zenon DEF n
  <2>2. Len(g) = 2 /\ 1 \in 1 .. n /\ g[2] = h
    BY <1>2, <1>5
  <2>3. g[1] = f[1] /\ FlattenSeq(g) = g[1] \o g[2]
    BY <1>2, <1>3, <2>2, FlatOf, Zenon
  <2> QED
    BY <1>2, <2>1, <2>2, <2>3, Zenon DEF n, g
<1> QED
  BY <1>3, <1>4, <1>5

\* The points of p come in the same order from h and then q.
Splits(p, k, h, q) ==
    /\ h \in Seq(Pts) /\ Len(h) = k /\ q \in Seq(Pts)
    /\ \A F, G : F \in Seq(Pts) /\ G = F \o h =>
         G \o q = F \o p /\ Len(G) = Len(F) + k /\ G \in Seq(Pts)

\* A cut splits p and moves no point.
LEMMA CutFacts ==
    ASSUME NEW p \in Seq(Pts), NEW k \in 1 .. Len(p)
    PROVE  Splits(p, k, SubSeq(p, 1, k), SubSeq(p, k + 1, Len(p)))
<1> DEFINE m == Len(p)
           h == SubSeq(p, 1, k)
           q == SubSeq(p, k + 1, Len(p))
<1>0. m \in Nat /\ k \in 1 .. m /\ \A i \in 1 .. m : p[i] \in Pts
  BY LenProperties, ElementOfSeq, Zenon
<1> HIDE DEF m
<1>1. 1 <= k + 1 /\ k <= m /\ k \in Nat /\ k \in Int /\ 1 \in Int
  BY <1>0
<1>2. h \in Seq(Pts) /\ Len(h) = k
  <2>1. \A i \in 1 .. k : p[i] \in Pts
    BY <1>0
  <2>2. h \in Seq(Pts)
    BY <2>1, <1>0, SubSeqProperties DEF m
  <2>3. Len(h) = IF 1 <= k THEN k - 1 + 1 ELSE 0
    BY <1>1, <2>1, SubSeqProperties
  <2> QED
    BY <1>0, <2>2, <2>3
<1>3. q \in Seq(Pts)
  <2>1. \A i \in k + 1 .. m : p[i] \in Pts
    BY <1>0
  <2> QED
    BY <1>0, <2>1, SubSeqProperties DEF m
<1>4. h \o q = p
  BY <1>0, ConcatAdjacentSubSeq, SubSeqFull DEF m
<1> HIDE DEF h, q
<1>5. ASSUME NEW F, NEW G, F \in Seq(Pts), G = F \o h
      PROVE  G \o q = F \o p /\ Len(G) = Len(F) + k /\ G \in Seq(Pts)
  <2>1. G \o q = F \o p
    <3>1. (F \o h) \o q = F \o (h \o q)
      BY <1>2, <1>3, <1>5
    <3> QED
      BY <1>4, <1>5, <3>1, Zenon
  <2>2. Len(G) = Len(F) + k /\ G \in Seq(Pts)
    BY <1>2, <1>5, ConcatProperties, Zenon
  <2> QED
    BY <2>1, <2>2
<1> QED
  BY <1>2, <1>3, <1>5, Zenon DEF h, q, Splits

\* The frames g are f and one of k points; q has the rest of p.
Grown(f, g, p, q, k) ==
    /\ g \in Seq(Seq(Pts)) /\ Len(g) = Len(f) + 1 /\ q \in Seq(Pts)
    /\ \A i \in 1 .. Len(g) : Len(g[i]) = k \/ (i \in 1 .. Len(f) /\ g[i] = f[i])
    /\ FlattenSeq(g) \o q = FlattenSeq(f) \o p
    /\ Len(FlattenSeq(g)) = Len(FlattenSeq(f)) + k

\* Cutting a frame off p moves its points and loses none.
LEMMA FlatGrows ==
    ASSUME NEW f \in Seq(Seq(Pts)), Len(f) < 2, NEW p, NEW k, NEW h, NEW q, Splits(p, k, h, q)
    PROVE  Grown(f, Append(f, h), p, q, k)
<1> DEFINE g == Append(f, h)
           F == FlattenSeq(f)
           n == Len(f)
<1>0. n \in Nat /\ n < 2
  BY LenProperties, Zenon
<1>1. n <= 2
  BY <1>0
<1>2. h \in Seq(Pts) /\ Len(h) = k /\ q \in Seq(Pts)
  BY DEF Splits
<1>6. g \in Seq(Seq(Pts)) /\ Len(g) = n + 1 /\ FlattenSeq(g) = F \o h
  <2>2. \A u \in Seq(Pts) : /\ Append(f, u) \in Seq(Seq(Pts)) /\ Len(Append(f, u)) = Len(f) + 1
                          /\ FlattenSeq(Append(f, u)) = FlattenSeq(f) \o u
    BY FlatAppend
  <2> QED
    BY <1>2, <2>2, Zenon
<1>7. (\A i \in 1 .. n : g[i] = f[i]) /\ g[n + 1] = h
  <2>1. \A u \in Seq(Pts) : /\ Append(f, u) \in Seq(Seq(Pts)) /\ Len(Append(f, u)) = Len(f) + 1
                          /\ \A i \in 1 .. Len(f) : Append(f, u)[i] = f[i]
                          /\ Append(f, u)[Len(f) + 1] = u
    BY AppendFacts
  <2> QED
    BY <1>2, <2>1
<1>8. F \in Seq(Pts)
  BY <1>1, FlatFacts, Zenon DEF n
<1> HIDE DEF F, n, g
<1>10. /\ FlattenSeq(g) \o q = F \o p /\ Len(FlattenSeq(g)) = Len(F) + k
       /\ FlattenSeq(g) \in Seq(Pts)
  BY <1>6, <1>8, Zenon DEF Splits
<1>11. \A i \in 1 .. Len(g) : Len(g[i]) = k \/ (i \in 1 .. n /\ g[i] = f[i])
  <2> SUFFICES ASSUME NEW i \in 1 .. Len(g) PROVE Len(g[i]) = k \/ (i \in 1 .. n /\ g[i] = f[i])
    OBVIOUS
  <2>1. i \in 1 .. n \/ i = n + 1
    BY <1>0, <1>6
  <2> QED
    BY <1>2, <1>7, <2>1, Zenon
<1> QED
  BY <1>2, <1>6, <1>10, <1>11, Zenon DEF F, n, g, Grown

\* Taking the oldest frame takes its points off the front.
LEMMA FlatShrinks ==
    ASSUME NEW S, NEW f \in Seq(Seq(S)), Len(f) <= 2, f # <<>>
    PROVE  /\ Tail(f) \in Seq(Seq(S)) /\ Len(Tail(f)) = Len(f) - 1 /\ Head(f) = f[1]
           /\ \A i \in 1 .. Len(Tail(f)) : Tail(f)[i] = f[i + 1]
           /\ Len(f) \in {1, 2} /\ Head(f) \in Seq(S) /\ FlattenSeq(Tail(f)) \in Seq(S)
           /\ FlattenSeq(f) = Head(f) \o FlattenSeq(Tail(f))
<1> DEFINE n == Len(f)
           t == Tail(f)
           h == Head(f)
<1>1. /\ t \in Seq(Seq(S)) /\ Len(t) = n - 1 /\ h \in Seq(S) /\ h = f[1]
      /\ \A i \in 1 .. Len(t) : t[i] = f[i + 1]
      /\ n \in 0 .. 2 /\ n # 0
  BY PairFacts, Zenon
<1> HIDE DEF n, t, h
<1>2. n \in {1, 2} /\ Len(t) <= 2
  BY <1>1
<1>3. FlattenSeq(t) \in Seq(S)
  BY <1>1, <1>2, FlatFacts, Zenon
<1>4. CASE n = 1
  <2>0. Len(t) = 0
    BY <1>1, <1>4
  <2>1. FlattenSeq(t) = <<>>
    BY <1>1, <1>2, <2>0, FlatOf, Zenon
  <2>2. FlattenSeq(f) = h
    BY <1>1, <1>4, FlatOf, Zenon DEF n
  <2>3. h \o <<>> = h
    BY <1>1, ConcatEmptySeq, Zenon
  <2> QED
    BY <1>1, <1>2, <1>3, <2>1, <2>2, <2>3, Zenon DEF n, t, h
<1>5. CASE n = 2
  <2>0. Len(t) = 1 /\ t[1] = f[2]
    BY <1>1, <1>5
  <2>1. FlattenSeq(t) = f[2]
    BY <1>1, <1>2, <2>0, FlatOf, Zenon
  <2>2. FlattenSeq(f) = f[1] \o f[2]
    BY <1>5, FlatOf, Zenon DEF n
  <2> QED
    BY <1>1, <1>2, <1>3, <2>1, <2>2, Zenon DEF n, t, h
<1> QED
  BY <1>2, <1>4, <1>5

-----------------------------------------------------------------------------
(* How the points the framer holds change.                                  *)

\* One sequence after another.
LEMMA TwoFacts ==
    ASSUME NEW S
    PROVE  \A s, t \in Seq(S) :
             /\ s \o t \in Seq(S) /\ Len(s) \in Nat /\ Len(t) \in Nat
             /\ Len(s \o t) = Len(s) + Len(t)
             /\ \A i \in 1 .. Len(s) : (s \o t)[i] = s[i]
             /\ \A i \in 1 .. Len(t) : (s \o t)[Len(s) + i] = t[i]
             /\ \A i \in 1 .. Len(t) : (s \o t)[i + Len(s)] = t[i]
<1> TAKE s, t \in Seq(S)
<1>1. s \o t \in Seq(S) /\ Len(s) \in Nat /\ Len(t) \in Nat /\ Len(s \o t) = Len(s) + Len(t)
  OBVIOUS
<1>2. \A i \in 1 .. Len(s) : (s \o t)[i] = s[i]
  OBVIOUS
<1>3. \A i \in 1 .. Len(t) : (s \o t)[Len(s) + i] = t[i]
  OBVIOUS
<1>4. \A i \in 1 .. Len(t) : Len(s) + i = i + Len(s)
  BY <1>1
<1> QED
  BY <1>1, <1>2, <1>3, <1>4, Zenon

\* Points pulled join at the end.
LEMMA JoinFacts ==
    ASSUME NEW F \in Seq(Pts), NEW a \in Seq(Pts), NEW w \in Seq(Pts)
    PROVE  LET B == F \o a
               C == F \o (a \o w)
           IN  /\ C \in Seq(Pts) /\ Len(B) \in Nat /\ Len(w) \in Nat
               /\ Len(C) = Len(B) + Len(w)
               /\ \A i \in 1 .. Len(B) : C[i] = B[i]
               /\ \A i \in 1 .. Len(w) : C[Len(B) + i] = w[i]
<1> DEFINE B == F \o a
           C == F \o (a \o w)
<1>1. (F \o a) \o w = F \o (a \o w)
  OBVIOUS
<1>2. C = B \o w
  BY <1>1, Zenon
<1>4. \A s, t \in Seq(Pts) :
           /\ s \o t \in Seq(Pts) /\ Len(s) \in Nat /\ Len(t) \in Nat
           /\ Len(s \o t) = Len(s) + Len(t)
           /\ \A i \in 1 .. Len(s) : (s \o t)[i] = s[i]
           /\ \A i \in 1 .. Len(t) : (s \o t)[Len(s) + i] = t[i]
           /\ \A i \in 1 .. Len(t) : (s \o t)[i + Len(s)] = t[i]
  BY TwoFacts
<1>3. B \in Seq(Pts)
  BY <1>4, Zenon
<1> HIDE DEF B
<1> HIDE DEF C
<1>5. /\ C \in Seq(Pts) /\ Len(B) \in Nat /\ Len(w) \in Nat
      /\ Len(C) = Len(B) + Len(w)
      /\ \A i \in 1 .. Len(B) : C[i] = B[i]
      /\ \A i \in 1 .. Len(w) : C[Len(B) + i] = w[i]
  BY <1>2, <1>3, <1>4, Zenon
<1> QED
  BY <1>5, Zenon DEF B, C

\* A frame that leaves takes the first points.
LEMMA LeaveFacts ==
    ASSUME NEW h \in Seq(Pts), NEW G \in Seq(Pts), NEW a \in Seq(Pts)
    PROVE  LET F == h \o G
               B == F \o a
               C == G \o a
           IN  /\ C \in Seq(Pts) /\ Len(C) \in Nat /\ Len(h) \in Nat
               /\ Len(B) = Len(h) + Len(C)
               /\ \A i \in 1 .. Len(C) : C[i] = B[i + Len(h)]
               /\ Len(F) = Len(h) + Len(G)
<1> DEFINE F == h \o G
           B == F \o a
           C == G \o a
<1>1. (h \o G) \o a = h \o (G \o a)
  OBVIOUS
<1>2. B = h \o C
  BY <1>1, Zenon
<1>4. \A s, t \in Seq(Pts) :
           /\ s \o t \in Seq(Pts) /\ Len(s) \in Nat /\ Len(t) \in Nat
           /\ Len(s \o t) = Len(s) + Len(t)
           /\ \A i \in 1 .. Len(s) : (s \o t)[i] = s[i]
           /\ \A i \in 1 .. Len(t) : (s \o t)[Len(s) + i] = t[i]
           /\ \A i \in 1 .. Len(t) : (s \o t)[i + Len(s)] = t[i]
  BY TwoFacts
<1>3. C \in Seq(Pts) /\ Len(F) = Len(h) + Len(G)
  BY <1>4, Zenon
<1> HIDE DEF B, C, F
<1>5. /\ C \in Seq(Pts) /\ Len(C) \in Nat /\ Len(h) \in Nat
      /\ Len(B) = Len(h) + Len(C)
      /\ \A i \in 1 .. Len(C) : C[i] = B[i + Len(h)]
  BY <1>2, <1>3, <1>4, Zenon
<1> QED
  BY <1>3, <1>5, Zenon DEF B, C, F

\* The pulled points are points, numbered on from the last one.
LEMMA PullFacts ==
    ASSUME NEW c \in Callbacks, NEW t \in Nat, NEW b \in Nat
    PROVE  LET w == [i \in 1 .. b |-> [src |-> c, n |-> t + i]]
           IN  w \in Seq(Pts) /\ Len(w) = b
<1> DEFINE w == [i \in 1 .. b |-> [src |-> c, n |-> t + i]]
<1>1. \A i \in 1 .. b : w[i] \in Pts
  BY DEF Pts
<1>2. w \in [1 .. b -> Pts]
  BY <1>1
<1> QED
  BY <1>2 DEF Pts

\* What the framer holds is a sequence of points.
LEMMA HeldFacts ==
    ASSUME Framed
    PROVE  /\ Held \in Seq(Pts) /\ Buffered \in Seq(Pts)
           /\ Len(Held) \in Nat /\ Len(accumulator) \in Nat /\ Len(Buffered) \in Nat
           /\ Len(Buffered) = Len(Held) + Len(accumulator)
           /\ Len(preparedFrames) \in 0 .. 2
           /\ Len(preparedFrames) < 2 => Len(Held) <= LargestFrame
<1> DEFINE n == Len(preparedFrames)
<1>1. /\ preparedFrames \in Seq(Seq(Pts)) /\ n <= 2 /\ accumulator \in Seq(Pts)
      /\ \A i \in 1 .. n : Len(preparedFrames[i]) \in 1 .. LargestFrame
  BY Zenon DEF Framed, DesiredReadyFrames
<1>2. Held \in Seq(Pts)
  BY <1>1, FlatFacts, Zenon DEF Held
<1>3. /\ Buffered \in Seq(Pts) /\ Len(Buffered) = Len(Held) + Len(accumulator)
      /\ Len(Held) \in Nat /\ Len(accumulator) \in Nat
  <2>1. \A s, t \in Seq(Pts) : s \o t \in Seq(Pts) /\ Len(s) \in Nat /\ Len(t) \in Nat
                               /\ Len(s \o t) = Len(s) + Len(t)
    BY TwoFacts, Zenon
  <2> QED
    BY <1>1, <1>2, <2>1, Zenon DEF Buffered, Held
<1>4. n \in 0 .. 2
  BY <1>1, PairFacts, Zenon
<1>5. n < 2 => Len(Held) <= LargestFrame
  <2> HIDE DEF n
  <2>1. CASE n = 0
    <3>1. Held = <<>>
      BY <1>1, <2>1, FlatOf, Zenon DEF Held, n
    <3>2. Len(Held) = 0
      BY <3>1
    <3> QED
      BY <3>2, LargestFrameFacts
  <2>2. CASE n = 1
    <3>1. Held = preparedFrames[1]
      BY <1>1, <2>2, FlatOf, Zenon DEF Held, n
    <3>2. 1 \in 1 .. n
      BY <2>2
    <3>3. Len(Held) \in 1 .. LargestFrame
      BY <1>1, <3>1, <3>2, Zenon DEF n
    <3> QED
      BY <3>3, LargestFrameFacts
  <2>3. n = 0 \/ n = 1 \/ ~(n < 2)
    BY <1>4 DEF n
  <2> QED
    BY <2>1, <2>2, <2>3, Zenon
<1>6. Len(Buffered) \in Nat
  BY <1>3
<1> QED
  BY <1>2, <1>3, <1>4, <1>5, <1>6, Zenon

\* Where a frame is cut.
LEMMA SplitFacts ==
    ASSUME NEW points, NEW split, Len(points) \in Nat, Len(points) # 0,
           sizes.nominal \in 1 .. LargestFrame, sizes.max \in 1 .. LargestFrame,
           \/ split \in NaturalBoundaries(points)
           \/ split = AtMost(sizes.nominal, Len(points))
    PROVE  split \in 1 .. Len(points) /\ split <= LargestFrame
<1> DEFINE m == Len(points)
<1>0. LargestFrame \in Nat /\ m \in Nat /\ m # 0
  BY LargestFrameFacts
<1>1. CASE split \in NaturalBoundaries(points)
  <2> DEFINE start == IF Fallback THEN (9 * sizes.nominal) \div 10 ELSE sizes.nominal \div 2
  <2>1. split \in AtLeast(start, 1) .. AtMost(sizes.max, m)
    BY <1>1, Zenon DEF NaturalBoundaries
  <2>2. start \in Int
    BY <1>0
  <2> HIDE DEF start, m
  <2>3. AtLeast(start, 1) >= 1 /\ AtLeast(start, 1) \in Int
    BY <2>2 DEF AtLeast
  <2>4. /\ AtMost(sizes.max, m) <= m /\ AtMost(sizes.max, m) <= sizes.max
        /\ AtMost(sizes.max, m) \in Int
    BY <1>0 DEF AtMost
  <2>5. split \in 1 .. m /\ split <= LargestFrame
    BY <1>0, <2>1, <2>3, <2>4
  <2> QED
    BY <2>5 DEF m
<1>2. CASE split = AtMost(sizes.nominal, m)
  <2> HIDE DEF m
  <2>1. split \in 1 .. m /\ split <= LargestFrame
    BY <1>0, <1>2 DEF AtMost
  <2> QED
    BY <2>1 DEF m
<1> QED
  BY <1>1, <1>2

\* A turn of the loop adds the callback's points at the end, and the frame it
\* cuts is one a request may ask for.
LEMMA PreparedFacts ==
    ASSUME Framed, Asking, totalPointsConsumed \in Nat, NEW batch \in Nat, Prepare(batch)
    PROVE  /\ Framed'
           /\ totalPointsConsumed' = totalPointsConsumed + batch
           /\ Len(Buffered') = Len(Buffered) + batch
           /\ \A i \in 1 .. Len(Buffered) : (Buffered')[i] = Buffered[i]
           /\ \A i \in 1 .. batch :
                 (Buffered')[Len(Buffered) + i] = [src |-> copied, n |-> totalPointsConsumed + i]
           /\ preparedPointCount = Len(Held) => preparedPointCount' = Len(Held')
<1> DEFINE w == [i \in 1 .. batch |-> [src |-> copied, n |-> totalPointsConsumed + i]]
           a == accumulator
           f == preparedFrames
           points == a \o w
           L == LargestFrame
           n == Len(f)
<1>1. /\ a \in Seq(Pts) /\ f \in Seq(Seq(Pts))
      /\ \A i \in 1 .. n : Len(f[i]) \in 1 .. L
      /\ forceEmits \in 0 .. FallbackCount
  BY Zenon DEF Framed
<1>2. copied \in Callbacks /\ sizes.nominal \in 1 .. L /\ sizes.max \in 1 .. L
  BY Zenon DEF Asking, Prepare, Using
<1>3. w \in Seq(Pts) /\ Len(w) = batch
  BY <1>2, PullFacts
<1>4. /\ totalPointsConsumed' = totalPointsConsumed + batch
      /\ IF points = <<>>
         THEN UNCHANGED <<accumulator, preparedFrames, preparedPointCount, forceEmits>>
         ELSE ExtractOneFrame(points)
      /\ ~(n >= 2)
  BY Zenon DEF Prepare, PrepareFrame, Pulled, Ready, DesiredReadyFrames
<1> DEFINE F == FlattenSeq(f)
<1>5. F \in Seq(Pts) /\ n \in 0 .. 2
  BY HeldFacts, Zenon DEF Held
<1>6. n < 2 /\ n <= 2 /\ n + 1 <= 2 /\ n \in Nat
  BY <1>4, <1>5
<1>w. \A i \in 1 .. batch : w[i] = [src |-> copied, n |-> totalPointsConsumed + i]
  BY Zenon
<1> HIDE DEF w
<1>7. /\ points \in Seq(Pts) /\ Len(points) = Len(a) + batch /\ Len(a) \in Nat
      /\ Len(points) \in Nat
  <2>1. \A s, t \in Seq(Pts) : s \o t \in Seq(Pts) /\ Len(s) \in Nat /\ Len(t) \in Nat
                               /\ Len(s \o t) = Len(s) + Len(t)
    BY TwoFacts, Zenon
  <2> QED
    BY <1>1, <1>3, <2>1
<1> DEFINE C == F \o points
<1>8. /\ Len(C) = Len(Buffered) + batch
      /\ \A i \in 1 .. Len(Buffered) : C[i] = Buffered[i]
      /\ \A i \in 1 .. batch : C[Len(Buffered) + i] = w[i]
  BY <1>1, <1>3, <1>5, JoinFacts, Zenon DEF Buffered
<1>9. CASE points = <<>>
  <2>1. Len(points) = 0
    BY <1>9
  <2>2. batch = 0 /\ Len(a) = 0
    BY <1>7, <2>1
  <2>3. UNCHANGED <<accumulator, preparedFrames, preparedPointCount, forceEmits>>
    BY <1>4, <1>9
  <2>4. Buffered' = Buffered /\ Held' = Held /\ Framed'
    BY <2>3 DEF Buffered, Held, Framed
  <2>5. points = a
    BY <1>1, <1>9, <2>2, EmptySeq
  <2>6. C = Buffered
    BY <2>5, Zenon DEF Buffered
  <2> QED
    BY <1>4, <1>8, <1>w, <2>3, <2>4, <2>6, Zenon
<1>10. CASE points # <<>>
  <2>1. ExtractOneFrame(points)
    BY <1>4, <1>10, Zenon
  <2>2. PICK split : /\ \/ split \in NaturalBoundaries(points)
                        \/ split = AtMost(sizes.nominal, Len(points))
                     /\ Cut(points, split)
                     /\ forceEmits' \in {0, AtMost(forceEmits + 1, FallbackCount)}
    BY <2>1, Zenon DEF ExtractOneFrame
  <2>3. Len(points) # 0
    BY <1>7, <1>10, EmptySeq
  <2> HIDE DEF points
  <2>4. split \in 1 .. Len(points) /\ split <= L
    BY <1>2, <1>7, <2>2, <2>3, SplitFacts, Zenon
  <2> DEFINE h == SubSeq(points, 1, split)
             q == SubSeq(points, split + 1, Len(points))
             g == Append(f, h)
  <2>5. Splits(points, split, h, q)
    BY <1>7, <2>4, CutFacts, Zenon
  <2>6. preparedFrames' = g /\ accumulator' = q /\ preparedPointCount' = preparedPointCount + split
    BY <2>2, Zenon DEF Cut
  <2> HIDE DEF h, q
  <2>7. /\ g \in Seq(Seq(Pts)) /\ Len(g) = n + 1
        /\ \A i \in 1 .. Len(g) : Len(g[i]) = split \/ (i \in 1 .. n /\ g[i] = f[i])
        /\ FlattenSeq(g) \o q = F \o points
        /\ Len(FlattenSeq(g)) = Len(F) + split /\ q \in Seq(Pts)
    <3>1. Grown(f, g, points, q, split)
      BY <1>1, <1>6, <2>5, FlatGrows, Zenon
    <3> HIDE DEF g
    <3> QED
      BY <3>1, Zenon DEF Grown
  <2> HIDE DEF g
  <2>8. Buffered' = C
    BY <2>6, <2>7, Zenon DEF Buffered
  <2>9. Held' = FlattenSeq(g)
    BY <2>6, Zenon DEF Held
  <2>10. preparedPointCount = Len(Held) => preparedPointCount' = Len(Held')
    BY <2>6, <2>7, <2>9, Zenon DEF Held
  <2>11. Framed'
    <3>1. split \in 1 .. L
      BY <2>4, <1>7, LargestFrameFacts
    <3>2. \A i \in 1 .. Len(g) : Len(g[i]) \in 1 .. L
      BY <1>1, <2>7, <3>1, Zenon
    <3>3. Len(g) <= 2
      BY <1>6, <2>7
    <3>4. forceEmits' \in 0 .. FallbackCount
      BY <1>1, <2>2 DEF AtMost, FallbackCount
    <3> QED
      BY <2>6, <2>7, <3>2, <3>3, <3>4, Zenon DEF Framed, DesiredReadyFrames
  <2> QED
    BY <1>4, <1>8, <1>w, <2>8, <2>10, <2>11, Zenon
<1> QED
  BY <1>9, <1>10

\* extractFrame takes the oldest frame's points off the front.
LEMMA TakenFacts ==
    ASSUME Framed, Take
    PROVE  /\ Framed'
           /\ Len(Head(preparedFrames)) \in 1 .. LargestFrame
           /\ Len(Buffered) = Len(Head(preparedFrames)) + Len(Buffered')
           /\ Len(Buffered') \in Nat
           /\ \A i \in 1 .. Len(Buffered') :
                 (Buffered')[i] = Buffered[i + Len(Head(preparedFrames))]
           /\ preparedPointCount = Len(Held) => preparedPointCount' = Len(Held')
<1> DEFINE f == preparedFrames
           h == Head(f)
           t == Tail(f)
           a == accumulator
           L == LargestFrame
<1>1. /\ a \in Seq(Pts) /\ f \in Seq(Seq(Pts)) /\ Len(f) <= 2
      /\ \A i \in 1 .. Len(f) : Len(f[i]) \in 1 .. L
      /\ forceEmits \in 0 .. FallbackCount
  BY Zenon DEF Framed, DesiredReadyFrames
<1>2. /\ f # <<>> /\ preparedFrames' = t /\ accumulator' = a /\ forceEmits' = forceEmits
      /\ preparedPointCount' = preparedPointCount - Len(h)
  BY DEF Take, TakeFrame
<1>3. /\ t \in Seq(Seq(Pts)) /\ Len(t) = Len(f) - 1 /\ h = f[1]
      /\ \A i \in 1 .. Len(t) : t[i] = f[i + 1]
      /\ Len(f) \in {1, 2} /\ h \in Seq(Pts) /\ FlattenSeq(t) \in Seq(Pts)
      /\ FlattenSeq(f) = h \o FlattenSeq(t)
  BY <1>1, <1>2, FlatShrinks, Zenon
<1> DEFINE G == FlattenSeq(t)
           F == FlattenSeq(f)
           C == G \o a
           n == Len(f)
<1>4. Buffered' = C /\ Held' = G
  BY <1>2, Zenon DEF Buffered, Held
<1> HIDE DEF G, F, h, t, f, a, n
<1>5. G \in Seq(Pts) /\ F = h \o G /\ Buffered = F \o a /\ Held = F
  BY <1>3, Zenon DEF G, F, h, t, f, a, Buffered, Held
<1>6. /\ Len(C) \in Nat /\ Len(h) \in Nat
      /\ Len(Buffered) = Len(h) + Len(C)
      /\ \A i \in 1 .. Len(C) : C[i] = Buffered[i + Len(h)]
      /\ Len(F) = Len(h) + Len(G)
  <2>1. a \in Seq(Pts) /\ h \in Seq(Pts)
    BY <1>1, <1>3, Zenon DEF a, h
  <2>2. /\ Len(G \o a) \in Nat /\ Len(h) \in Nat
        /\ Len((h \o G) \o a) = Len(h) + Len(G \o a)
        /\ \A i \in 1 .. Len(G \o a) : (G \o a)[i] = ((h \o G) \o a)[i + Len(h)]
        /\ Len(h \o G) = Len(h) + Len(G)
    BY <1>5, <2>1, LeaveFacts, Zenon
  <2> QED
    BY <1>5, <2>2, Zenon
<1>7. Len(h) \in 1 .. L
  <2>1. 1 \in 1 .. n
    BY <1>3 DEF n
  <2> QED
    BY <1>1, <1>3, <2>1, Zenon DEF n
<1>8. preparedPointCount = Len(Held) => preparedPointCount' = Len(Held')
  <2>1. Len(G) \in Nat
    BY <1>5, LenProperties, Zenon
  <2> QED
    BY <1>2, <1>4, <1>5, <1>6, <2>1
<1>9. Framed'
  <2>1. n \in {1, 2} /\ Len(t) = n - 1 /\ \A i \in 1 .. n : Len(f[i]) \in 1 .. L
    BY <1>1, <1>3, Zenon DEF n
  <2>2. \A i \in 1 .. Len(t) : i + 1 \in 1 .. n
    BY <2>1
  <2>3. \A i \in 1 .. Len(t) : Len(t[i]) \in 1 .. L
    BY <1>3, <2>1, <2>2, Zenon
  <2>4. Len(t) <= 2
    BY <2>1
  <2> QED
    BY <1>1, <1>2, <1>3, <2>3, <2>4, Zenon DEF Framed, DesiredReadyFrames
<1> QED
  BY <1>4, <1>6, <1>7, <1>8, <1>9, Zenon DEF h, f

-----------------------------------------------------------------------------
(* Each part of the invariant is kept.                                      *)

\* Only three steps touch the points the framer holds.
Still == UNCHANGED <<accumulator, preparedFrames, preparedPointCount, forceEmits,
                     totalPointsConsumed, given>>

\* Every step is one of these three or leaves the points alone.
LEMMA StepKinds ==
    ASSUME [Next]_vars
    PROVE  \/ Still
           \/ \E batch \in 0 .. PullCount : Prepare(batch)
           \/ Take
           \/ ResetFramer
<1>1. CASE UNCHANGED vars
  BY <1>1 DEF vars, framer, observed, Still
<1>2. CASE AppCall
  BY <1>2 DEF AppCall, SetPointCallback, ClearPointCallback, ClearPointCallbackPrefetch, SendFrame,
     UseFrameQueue, ClearFrameQueue, ClearContentSource, Call, framer, Still
<1>3. CASE AppStep
  BY <1>3 DEF AppStep, ResetQueue, StoreCallback, SetSource, Enqueue, framer, observed, Still
<1>4. CASE Begin
  BY <1>4 DEF Begin, SnapshotSource, framer, Still
<1>5. CASE WorkerStep
  BY <1>5 DEF WorkerStep, Fail, FillFromQueue, CopyCallback, CallCallback, LockFramer, Prepared,
     TakeNothing, framer, observed, Still
<1> QED
  BY <1>1, <1>2, <1>3, <1>4, <1>5 DEF Next

\* The points are where they were after a step that leaves them alone.
LEMMA StillFacts ==
    ASSUME Still
    PROVE  /\ Buffered' = Buffered /\ Held' = Held
           /\ given' = given /\ totalPointsConsumed' = totalPointsConsumed
           /\ preparedPointCount' = preparedPointCount /\ forceEmits' = forceEmits
           /\ accumulator' = accumulator /\ preparedFrames' = preparedFrames
<1>1. /\ given' = given /\ totalPointsConsumed' = totalPointsConsumed
      /\ preparedPointCount' = preparedPointCount /\ forceEmits' = forceEmits
      /\ accumulator' = accumulator /\ preparedFrames' = preparedFrames
  BY DEF Still
<1> QED
  BY <1>1, Zenon DEF Buffered, Held

\* A reset leaves nothing.
LEMMA ResetFacts ==
    ASSUME ResetFramer
    PROVE  /\ Buffered' = <<>> /\ Held' = <<>> /\ Len(Buffered') = 0 /\ Len(Held') = 0
           /\ given' = 0 /\ totalPointsConsumed' = 0 /\ preparedPointCount' = 0
           /\ forceEmits' = 0 /\ accumulator' = <<>> /\ preparedFrames' = <<>>
<1>1. /\ given' = 0 /\ totalPointsConsumed' = 0 /\ preparedPointCount' = 0
      /\ forceEmits' = 0 /\ accumulator' = <<>> /\ preparedFrames' = <<>>
  BY DEF ResetFramer, FramerReset
<1>2. FlattenSeq(<<>>) = <<>> /\ <<>> \o <<>> = <<>>
  <2>1. FlattenSeq(<<>>) = <<>>
    BY Zenon DEF FlattenSeq
  <2> QED
    BY <2>1
<1>3. Held' = <<>>
  BY <1>1, <1>2, Zenon DEF Held
<1>4. Buffered' = <<>>
  BY <1>1, <1>2, Zenon DEF Buffered
<1>5. Len(<<>>) = 0
  OBVIOUS
<1> QED
  BY <1>1, <1>3, <1>4, <1>5, Zenon

\* The arithmetic of a pull: what may be asked for is a number.
LEMMA PullFits ==
    ASSUME Framed, Conserved, Asking, NEW batch \in 0 .. PullCount, Prepare(batch)
    PROVE  /\ batch \in Nat
           /\ Len(Buffered) <= PrefetchLimit => Len(Buffered) + batch <= PrefetchLimit
<1> DEFINE a == Len(accumulator)
           h == Len(Held)
           LA == LookaheadTarget
           B == Len(Buffered)
           L == LargestFrame
           T == sizes.target
           R == sizes.transport
<1>1. a \in Nat /\ h \in Nat /\ B = h + a /\ preparedPointCount = h
  BY HeldFacts, Zenon DEF Conserved
<1>2. h <= L
  BY HeldFacts DEF Prepare, Ready, DesiredReadyFrames
<1>3. /\ sizes.nominal \in 1 .. L /\ sizes.max \in 1 .. L /\ T <= LatencyPoints + L
      /\ T \in Nat /\ R \in Nat
  BY DEF Asking, Prepare
<1>4. /\ L \in Nat /\ LatencyPoints \in Nat /\ PrefetchLimit \in Nat
      /\ LatencyPoints + L <= PrefetchLimit /\ L + L <= PrefetchLimit
  BY LargestFrameFacts
<1>5. LA \in Int /\ LA <= L
  <2>1. sizes.nominal \in Int /\ sizes.max \in Int /\ sizes.max <= L
    BY <1>3, <1>4
  <2> DEFINE x == IF Fallback THEN (11 * sizes.nominal) \div 10 ELSE 4 * sizes.nominal
  <2>2. x \in Int
    BY <2>1
  <2> HIDE DEF x
  <2>3. LA = AtMost(x, sizes.max)
    BY Zenon DEF LookaheadTarget, x
  <2> QED
    BY <1>4, <2>1, <2>2, <2>3 DEF AtMost
<1>6. PullCount = AtLeast(AtLeast(LA - a, 0), AtLeast(AtLeast(T, LA) - (R + h + a), 0))
  BY <1>1 DEF PullCount, Deficit
<1> HIDE DEF a, h, LA, B, L, T, R
<1> DEFINE P == PullCount
<1>7. P \in Nat /\ (B <= PrefetchLimit => B + P <= PrefetchLimit)
  BY <1>1, <1>2, <1>3, <1>4, <1>5, <1>6 DEF AtLeast
<1> HIDE DEF P
<1>8. batch \in 0 .. P
  BY DEF P
<1>9. batch \in Nat /\ (B <= PrefetchLimit => B + batch <= PrefetchLimit)
  BY <1>1, <1>4, <1>7, <1>8
<1> QED
  BY <1>9 DEF B

\* Frames keep their sizes.
LEMMA FramedKept ==
    ASSUME IInv, [Next]_vars
    PROVE  Framed'
<1>0. Framed /\ Conserved /\ Asking
  BY Zenon DEF IInv
<1>1. CASE Still
  BY <1>0, <1>1, StillFacts, Zenon DEF Framed
<1>2. CASE \E batch \in 0 .. PullCount : Prepare(batch)
  <2>1. PICK batch \in 0 .. PullCount : Prepare(batch)
    BY <1>2
  <2>2. batch \in Nat /\ totalPointsConsumed \in Nat
    <3>1. batch \in Nat
      BY <1>0, <2>1, PullFits, Zenon
    <3>2. given \in Nat /\ Len(Buffered) \in Nat /\ given + Len(Buffered) = totalPointsConsumed
      BY <1>0, HeldFacts, Zenon DEF Conserved
    <3> QED
      BY <3>1, <3>2
  <2> QED
    BY <1>0, <2>1, <2>2, PreparedFacts, Zenon
<1>3. CASE Take
  BY <1>0, <1>3, TakenFacts, Zenon
<1>4. CASE ResetFramer
  <2>1. accumulator' = <<>> /\ preparedFrames' = <<>> /\ forceEmits' = 0
    BY <1>4, ResetFacts, Zenon
  <2>2. <<>> \in Seq(Pts) /\ <<>> \in Seq(Seq(Pts)) /\ Len(<<>>) = 0
    BY EmptySeq
  <2>3. \A i \in 1 .. 0 : FALSE
    OBVIOUS
  <2>4. 0 <= 2 /\ 0 \in 0 .. 3
    OBVIOUS
  <2> QED
    BY <2>1, <2>2, <2>3, <2>4, Zenon DEF Framed, DesiredReadyFrames, FallbackCount
<1> QED
  BY <1>1, <1>2, <1>3, <1>4, StepKinds, Zenon

\* The stream is conserved.
LEMMA ConservedKept ==
    ASSUME IInv, [Next]_vars
    PROVE  Conserved'
<1> DEFINE B == Len(Buffered)
<1>0. Framed /\ Conserved /\ Asking
  BY Zenon DEF IInv
<1>a. /\ given \in Nat /\ B \in Nat /\ given + B = totalPointsConsumed
      /\ preparedPointCount = Len(Held)
      /\ \A i \in 1 .. B : Buffered[i].n = given + i
  BY <1>0, HeldFacts, Zenon DEF Conserved
<1>1. CASE Still
  BY <1>0, <1>1, StillFacts, Zenon DEF Conserved
<1>2. CASE \E batch \in 0 .. PullCount : Prepare(batch)
  <2>1. PICK batch \in 0 .. PullCount : Prepare(batch)
    BY <1>2
  <2>2. batch \in Nat /\ totalPointsConsumed \in Nat
    <3>1. batch \in Nat
      BY <1>0, <2>1, PullFits, Zenon
    <3> QED
      BY <1>a, <3>1
  <2> DEFINE C == Buffered'
  <2>3. /\ totalPointsConsumed' = totalPointsConsumed + batch
        /\ Len(C) = B + batch
        /\ \A i \in 1 .. B : C[i] = Buffered[i]
        /\ \A i \in 1 .. batch : C[B + i] = [src |-> copied, n |-> totalPointsConsumed + i]
        /\ preparedPointCount' = Len(Held')
    BY <1>0, <1>a, <2>1, <2>2, PreparedFacts, Zenon
  <2>4. given' = given
    BY <2>1 DEF Prepare
  <2> HIDE DEF B, C
  <2>5. \A i \in 1 .. B + batch : C[i].n = given + i
    <3> SUFFICES ASSUME NEW i \in 1 .. B + batch PROVE C[i].n = given + i
      OBVIOUS
    <3>1. CASE i <= B
      <4>1. i \in 1 .. B
        BY <1>a, <3>1
      <4> QED
        BY <1>a, <2>3, <4>1, Zenon
    <3>2. CASE ~(i <= B)
      <4> DEFINE j == i - B
      <4>1. j \in 1 .. batch /\ B + j = i
        BY <1>a, <2>2, <3>2
      <4> HIDE DEF j
      <4>2. C[B + j].n = totalPointsConsumed + j
        <5>1. C[B + j] = [src |-> copied, n |-> totalPointsConsumed + j]
          BY <2>3, <4>1, Zenon
        <5> QED
          BY <5>1
      <4>3. totalPointsConsumed + j = given + i
        BY <1>a, <4>1
      <4> QED
        BY <4>1, <4>2, <4>3, Zenon
    <3> QED
      BY <3>1, <3>2
  <2>6. given' + Len(C) = totalPointsConsumed'
    <3>1. \A g, b, d \in Nat : g + (b + d) = (g + b) + d
      OBVIOUS
    <3>2. given + (B + batch) = (given + B) + batch
      BY <1>a, <2>2, <3>1, Zenon
    <3> QED
      BY <1>a, <2>3, <2>4, <3>2, Zenon
  <2> QED
    BY <1>a, <2>3, <2>4, <2>5, <2>6, Zenon DEF Conserved, C
<1>3. CASE Take
  <2> DEFINE m == Len(Head(preparedFrames))
             C == Buffered'
  <2>1. /\ m \in 1 .. LargestFrame /\ B = m + Len(C) /\ Len(C) \in Nat
        /\ \A i \in 1 .. Len(C) : C[i] = Buffered[i + m]
        /\ preparedPointCount' = Len(Held')
    BY <1>0, <1>3, <1>a, TakenFacts, Zenon
  <2>2. given' = given + m /\ totalPointsConsumed' = totalPointsConsumed
    BY <1>3 DEF Take, TakeFrame
  <2> HIDE DEF m, C, B
  <2>3. m \in Nat /\ given' \in Nat /\ given' + Len(C) = totalPointsConsumed'
    BY <1>a, <2>1, <2>2
  <2>4. \A i \in 1 .. Len(C) : C[i].n = given' + i
    <3> SUFFICES ASSUME NEW i \in 1 .. Len(C) PROVE C[i].n = given' + i
      OBVIOUS
    <3>1. i + m \in 1 .. B /\ given + (i + m) = given' + i
      BY <1>a, <2>1, <2>2, <2>3
    <3> QED
      BY <1>a, <2>1, <3>1, Zenon
  <2> QED
    BY <2>1, <2>3, <2>4, Zenon DEF Conserved, C
<1>4. CASE ResetFramer
  <2>1. /\ Len(Buffered') = 0 /\ Len(Held') = 0 /\ given' = 0 /\ totalPointsConsumed' = 0
        /\ preparedPointCount' = 0
    BY <1>4, ResetFacts, Zenon
  <2>2. 0 + 0 = 0 /\ 0 \in Nat /\ \A i \in 1 .. 0 : FALSE
    OBVIOUS
  <2> QED
    BY <2>1, <2>2, Zenon DEF Conserved
<1> QED
  BY <1>1, <1>2, <1>3, <1>4, StepKinds, Zenon

\* The prefetch stays bounded, and with it the stream.
LEMMA LimitedKept ==
    ASSUME IInv, [Next]_vars
    PROVE  Limited'
<1> DEFINE B == Len(Buffered)
           W == req.kind = "frame" /\ wpc \in {"copy", "lock", "prepare"}
<1>0. Framed /\ Conserved /\ Asking
  BY Zenon DEF IInv
<1>a. /\ given \in Nat /\ B \in Nat /\ given + B = totalPointsConsumed
      /\ B <= PrefetchLimit /\ totalPointsConsumed <= MaxConsumed + PrefetchLimit
      /\ W => given <= MaxConsumed
  BY <1>0, HeldFacts, Zenon DEF Conserved, IInv, Limited
<1>b. PrefetchLimit \in Nat /\ MaxConsumed \in Nat
  BY LargestFrameFacts, ContentAssumption
<1>1. CASE Still
  <2>1. Buffered' = Buffered /\ given' = given /\ totalPointsConsumed' = totalPointsConsumed
    BY <1>1, StillFacts, Zenon
  <2>2. W' => given <= MaxConsumed
    <3>1. CASE UNCHANGED vars
      BY <1>a, <3>1 DEF vars, worker
    <3>2. CASE AppCall
      BY <1>a, <3>2 DEF AppCall, SetPointCallback, ClearPointCallback, ClearPointCallbackPrefetch,
         SendFrame, UseFrameQueue, ClearFrameQueue, ClearContentSource, Call, worker
    <3>3. CASE AppStep
      BY <1>a, <3>3 DEF AppStep, ResetQueue, ResetFramer, StoreCallback, SetSource, Enqueue, worker
    <3>4. CASE Begin
      <4>1. PICK r \in Requests : SnapshotSource(r)
        BY <3>4 DEF Begin
      <4>2. req' = r /\ (totalPointsConsumed < MaxConsumed \/ r.kind = "points")
        BY <4>1 DEF SnapshotSource
      <4> QED
        BY <1>a, <1>b, <4>2
    <3>5. CASE WorkerStep
      <4>1. CASE Fail \/ FillFromQueue \/ CallCallback \/ Take \/ TakeNothing
        BY <4>1 DEF Fail, FillFromQueue, CallCallback, Take, TakeNothing, HandOver
      <4>2. CASE CopyCallback
        <5>1. req' = req /\ wpc = "copy"
          BY <4>2, Zenon DEF CopyCallback
        <5> QED
          BY <1>a, <5>1
      <4>3. CASE (\E transport \in TransportLevels : LockFramer(transport)) \/ Prepared
        BY <1>a, <4>3 DEF LockFramer, Prepared
      <4>4. CASE \E batch \in 0 .. PullCount : Prepare(batch)
        BY <1>a, <4>4 DEF Prepare
      <4> QED
        BY <3>5, <4>1, <4>2, <4>3, <4>4 DEF WorkerStep
    <3> QED
      BY <3>1, <3>2, <3>3, <3>4, <3>5 DEF Next
  <2> QED
    BY <1>a, <2>1, <2>2, Zenon DEF Limited
<1>2. CASE \E batch \in 0 .. PullCount : Prepare(batch)
  <2>1. PICK batch \in 0 .. PullCount : Prepare(batch)
    BY <1>2
  <2>2. batch \in Nat /\ B + batch <= PrefetchLimit
    BY <1>0, <1>a, <2>1, PullFits, Zenon
  <2>3. totalPointsConsumed \in Nat
    BY <1>a
  <2>4. totalPointsConsumed' = totalPointsConsumed + batch /\ Len(Buffered') = B + batch
    BY <1>0, <2>1, <2>2, <2>3, PreparedFacts, Zenon
  <2>5. wpc = "prepare" /\ req' = req /\ given' = given
    BY <2>1 DEF Prepare
  <2>6. req.kind = "frame"
    BY <1>0, <2>5 DEF Asking
  <2> HIDE DEF B
  <2>7. given <= MaxConsumed
    BY <1>a, <2>5, <2>6
  <2>8. totalPointsConsumed + batch <= MaxConsumed + PrefetchLimit
    BY <1>a, <1>b, <2>2, <2>7
  <2> QED
    BY <2>2, <2>4, <2>5, <2>7, <2>8, Zenon DEF Limited
<1>3. CASE Take
  <2> DEFINE m == Len(Head(preparedFrames))
             C == Len(Buffered')
  <2>1. m \in 1 .. LargestFrame /\ B = m + C /\ C \in Nat
    BY <1>0, <1>3, TakenFacts, Zenon
  <2>2. totalPointsConsumed' = totalPointsConsumed /\ wpc' = "idle"
    BY <1>3 DEF Take, TakeFrame, HandOver
  <2> HIDE DEF m, C, B
  <2>3. C <= PrefetchLimit
    BY <1>a, <1>b, <2>1
  <2> QED
    BY <1>a, <2>2, <2>3 DEF Limited, C
<1>4. CASE ResetFramer
  <2>1. Len(Buffered') = 0 /\ given' = 0 /\ totalPointsConsumed' = 0
    BY <1>4, ResetFacts, Zenon
  <2> QED
    BY <1>b, <2>1 DEF Limited
<1> QED
  BY <1>1, <1>2, <1>3, <1>4, StepKinds, Zenon

\* What the worker knows of its request.
LEMMA AskingKept ==
    ASSUME IInv, [Next]_vars
    PROVE  Asking'
<1>0. Asking
  BY Zenon DEF IInv
<1>1. CASE UNCHANGED <<worker, sizes>>
  BY <1>0, <1>1 DEF Asking, worker, Using
<1>2. CASE UNCHANGED vars
  BY <1>1, <1>2 DEF vars, framer
<1>3. CASE AppCall
  BY <1>1, <1>3 DEF AppCall, SetPointCallback, ClearPointCallback, ClearPointCallbackPrefetch,
     SendFrame, UseFrameQueue, ClearFrameQueue, ClearContentSource, Call, framer
<1>4. CASE ResetQueue \/ StoreCallback \/ SetSource \/ Enqueue
  BY <1>1, <1>4 DEF ResetQueue, StoreCallback, SetSource, Enqueue, framer
<1>5. CASE ResetFramer
  <2>1. worker' = worker /\ wpc # "prepare" /\ sizes' = [sizes EXCEPT !.target = 0, !.transport = 0]
    BY <1>5 DEF ResetFramer, FramerReset, FramerLocked
  <2>2. sizes' \in [nominal : Nat, max : Nat, target : Nat, transport : Nat]
    BY <1>0, <2>1 DEF Asking
  <2>3. wpc' = wpc /\ req' = req /\ copied' = copied
    BY <2>1 DEF worker
  <2> QED
    BY <1>0, <2>1, <2>2, <2>3, Zenon DEF Asking, Using
<1>6. CASE Begin
  <2>1. PICK r \in Requests : SnapshotSource(r)
    BY <1>6 DEF Begin
  <2>2. /\ req' = r /\ wpc' \in {"copy", "queue", "fail"} /\ copied' = copied /\ sizes' = sizes
    BY <2>1 DEF SnapshotSource, framer
  <2> QED
    BY <1>0, <2>2 DEF Asking, Using
<1>7. CASE Fail \/ FillFromQueue \/ CallCallback \/ Take \/ TakeNothing
  <2>1. wpc' = "idle" /\ req' = NoRequest /\ copied' = NoCallback /\ sizes' = sizes
    BY <1>7 DEF Fail, FillFromQueue, CallCallback, Take, TakeNothing, HandOver, framer, TakeFrame
  <2> QED
    BY <1>0, <2>1 DEF Asking, Using
<1>8. CASE CopyCallback
  <2>1. callback \in Callbacks \cup {NoCallback}
    BY DEF IInv, Switched
  <2> DEFINE refused == req.kind = "frame" /\ PreferredPointCount(req) = 0
  <2>2. /\ wpc = "copy" /\ req' = req /\ sizes' = sizes
        /\ copied' = IF refused THEN NoCallback ELSE callback
        /\ wpc' = IF copied' = NoCallback THEN "fail"
                  ELSE IF req.kind = "points" THEN "call" ELSE "lock"
    BY <1>8 DEF CopyCallback, framer
  <2>3. req \in Requests
    BY <1>0, <2>2 DEF Asking
  <2>4. req.kind \in {"points", "frame"} /\ PreferredPointCount(req) \in Nat
    BY <2>3, ContentAssumption DEF PreferredPointCount, AtMost
  <2> DEFINE k == req.kind
             p == PreferredPointCount(req)
  <2> HIDE DEF p
  <2>5. wpc' \in {"call", "lock"} => copied' # NoCallback
    BY <2>2, Zenon
  <2>6. wpc' = "lock" => req.kind = "frame" /\ p > 0
    <3> SUFFICES ASSUME wpc' = "lock" PROVE req.kind = "frame" /\ p > 0
      OBVIOUS
    <3>1. copied' # NoCallback /\ k # "points"
      BY <2>2
    <3>2. k = "frame"
      BY <2>4, <3>1
    <3>3. ~refused
      BY <2>2, <3>1, Zenon
    <3>4. p \in Nat /\ p # 0
      BY <2>4, <3>2, <3>3, Zenon DEF p
    <3> QED
      BY <3>2, <3>4
  <2>7. copied' \in Callbacks \cup {NoCallback} /\ wpc' \in {"fail", "call", "lock"}
    BY <2>1, <2>2
  <2> QED
    BY <1>0, <2>2, <2>3, <2>5, <2>6, <2>7 DEF Asking, Using, p
<1>9. CASE \E transport \in TransportLevels : LockFramer(transport)
  <2>1. PICK transport \in TransportLevels : LockFramer(transport)
    BY <1>9
  <2> DEFINE nominal == PreferredPointCount(req)
  <2>2. /\ wpc = "lock" /\ wpc' = "prepare" /\ req' = req /\ copied' = copied
        /\ sizes' = [nominal |-> nominal, max |-> IF req.max > 0 THEN req.max ELSE nominal,
                     target |-> LatencyPoints + nominal, transport |-> transport]
    BY <2>1 DEF LockFramer
  <2>3. req \in Requests /\ req.kind = "frame" /\ nominal > 0 /\ copied # NoCallback
    BY <1>0, <2>2 DEF Asking, Using
  <2>4. req.max \in Nat /\ nominal \in Nat /\ (req.max > 0 => nominal <= req.max)
    BY <2>3, ContentAssumption DEF PreferredPointCount, AtMost
  <2>5. req.max <= LargestFrame /\ nominal <= LargestFrame
    BY <2>3, LargestFrameFacts DEF FrameRequests
  <2>6. LargestFrame \in Nat /\ LatencyPoints \in Nat /\ transport \in Nat
    BY LargestFrameFacts, ContentAssumption
  <2> HIDE DEF nominal
  <2> DEFINE M == IF req.max > 0 THEN req.max ELSE nominal
  <2>7. /\ M \in 1 .. LargestFrame /\ nominal \in 1 .. LargestFrame /\ nominal <= M
        /\ LatencyPoints + nominal \in Nat
        /\ LatencyPoints + nominal <= LatencyPoints + LargestFrame
        /\ M \in Nat
    BY <2>3, <2>4, <2>5, <2>6
  <2>8. /\ sizes'.nominal = nominal /\ sizes'.max = M /\ sizes'.target = LatencyPoints + nominal
        /\ sizes' \in [nominal : Nat, max : Nat, target : Nat, transport : Nat]
    BY <2>2, <2>4, <2>6, <2>7
  <2> HIDE DEF M
  <2>9. req.kind = "frame" /\ PreferredPointCount(req) > 0 /\ copied \in Callbacks \cup {NoCallback}
    BY <1>0, <2>3 DEF nominal, Asking
  <2> QED
    BY <2>2, <2>3, <2>7, <2>8, <2>9 DEF Asking, Using
<1>10. CASE \E batch \in 0 .. PullCount : Prepare(batch)
  <2>1. /\ wpc = "prepare" /\ wpc' \in {"take", "prepare"} /\ req' = req /\ copied' = copied
        /\ sizes' = sizes
    BY <1>10 DEF Prepare, PrepareFrame
  <2> QED
    BY <1>0, <2>1 DEF Asking, Using
<1>11. CASE Prepared
  <2>1. wpc = "prepare" /\ wpc' = "take" /\ req' = req /\ copied' = copied /\ sizes' = sizes
    BY <1>11 DEF Prepared, framer
  <2> QED
    BY <1>0, <2>1 DEF Asking, Using
<1> QED
  BY <1>2, <1>3, <1>4, <1>5, <1>6, <1>7, <1>8, <1>9, <1>10, <1>11 DEF Next, AppStep, WorkerStep

\* What the next step of a switching call does.
Effect ==
    /\ steps # <<>> /\ steps' = Tail(steps)
    /\ Head(steps) = ResetQueueStep =>
           queue' = 0 /\ activeSource' = activeSource /\ callback' = callback
    /\ Head(steps) = ResetFramerStep =>
           queue' = queue /\ activeSource' = activeSource /\ callback' = callback
    /\ Head(steps) = EnqueueStep =>
           /\ queue' \in {queue, AtMost(queue + 1, MaxQueue)}
           /\ activeSource' = activeSource /\ callback' = callback
    /\ \A c : Head(steps) = StoreStep(c) =>
           queue' = queue /\ activeSource' = activeSource /\ callback' = c
    /\ \A s : Head(steps) = SourceStep(s) =>
           queue' = queue /\ activeSource' = s /\ callback' = callback

\* The step at the head is the one taken.
LEMMA StepEffect ==
    ASSUME AppStep
    PROVE  Effect
<1> USE DEF Effect, StepIs, ResetQueueStep, ResetFramerStep, EnqueueStep, StoreStep, SourceStep
<1>1. CASE ResetQueue
  BY <1>1 DEF ResetQueue
<1>2. CASE ResetFramer
  BY <1>2 DEF ResetFramer, controller
<1>3. CASE StoreCallback
  BY <1>3 DEF StoreCallback
<1>4. CASE SetSource
  BY <1>4 DEF SetSource
<1>5. CASE Enqueue
  BY <1>5 DEF Enqueue
<1> QED
  BY <1>1, <1>2, <1>3, <1>4, <1>5 DEF AppStep

\* A step of a switching call leaves the rest of the call.
LEMMA SwitchStep ==
    ASSUME Switched, AppStep
    PROVE  Switched'
<1>e. Effect
  BY StepEffect
<1>t. /\ activeSource \in {"None", "PointCallback", "FrameQueue"}
      /\ callback \in Callbacks \cup {NoCallback}
      /\ queue \in 0 .. MaxQueue
  BY DEF Switched
<1>z. 0 \in 0 .. MaxQueue
  BY ContentAssumption
<1>1. CASE steps = <<ResetFramerStep>> /\ Agree
  <2>1. /\ Head(steps) = ResetFramerStep
        /\ Tail(steps) = <<>>
    BY <1>1
  <2>2. /\ steps' = <<>>
        /\ queue' = queue /\ activeSource' = activeSource /\ callback' = callback
    BY <1>e, <2>1, Zenon DEF Effect
  <2> QED
    BY <1>t, <1>1, <2>2, ContentAssumption DEF Switched, Agree
<1>2. CASE steps = <<ResetQueueStep>> /\ Agree
  <2>1. /\ Head(steps) = ResetQueueStep
        /\ Tail(steps) = <<>>
    BY <1>2
  <2>2. /\ steps' = <<>>
        /\ queue' = 0 /\ activeSource' = activeSource /\ callback' = callback
    BY <1>e, <2>1, Zenon DEF Effect
  <2> QED
    BY <1>t, <1>2, <2>2, ContentAssumption DEF Switched, Agree
<1>3. CASE steps = <<EnqueueStep>> /\ Agree /\ activeSource = "FrameQueue"
  <2>1. /\ Head(steps) = EnqueueStep
        /\ Tail(steps) = <<>>
    BY <1>3
  <2>2. /\ steps' = <<>>
        /\ queue' \in {queue, AtMost(queue + 1, MaxQueue)}
        /\ activeSource' = activeSource /\ callback' = callback
    BY <1>e, <2>1, Zenon DEF Effect
  <2> QED
    BY <1>t, <1>3, <2>2, ContentAssumption DEF Switched, Agree, AtMost
<1>4. CASE steps = <<StoreStep(NoCallback)>> /\ activeSource # "PointCallback"
  <2>1. /\ Head(steps) = StoreStep(NoCallback)
        /\ Tail(steps) = <<>>
    BY <1>4
  <2>2. /\ steps' = <<>>
        /\ queue' = queue /\ activeSource' = activeSource /\ callback' = NoCallback
    BY <1>e, <2>1, Zenon DEF Effect
  <2> QED
    BY <1>t, <1>4, <2>2, ContentAssumption DEF Switched, Agree
<1>5. CASE steps = <<StoreStep(NoCallback), ResetFramerStep, SourceStep("None")>>
  <2>1. /\ Head(steps) = StoreStep(NoCallback)
        /\ Tail(steps) = <<ResetFramerStep, SourceStep("None")>>
    BY <1>5
  <2>2. /\ steps' = <<ResetFramerStep, SourceStep("None")>>
        /\ queue' = queue /\ activeSource' = activeSource /\ callback' = NoCallback
    BY <1>e, <2>1, Zenon DEF Effect
  <2> QED
    BY <1>t, <1>z, <1>5, <2>2, Zenon DEF Switched
<1>6. CASE steps = <<StoreStep(NoCallback), ResetQueueStep, ResetFramerStep, SourceStep("None")>>
  <2>1. /\ Head(steps) = StoreStep(NoCallback)
        /\ Tail(steps) = <<ResetQueueStep, ResetFramerStep, SourceStep("None")>>
    BY <1>6
  <2>2. /\ steps' = <<ResetQueueStep, ResetFramerStep, SourceStep("None")>>
        /\ queue' = queue /\ activeSource' = activeSource /\ callback' = NoCallback
    BY <1>e, <2>1, Zenon DEF Effect
  <2> QED
    BY <1>t, <1>z, <1>6, <2>2, Zenon DEF Switched
<1>7. CASE steps = <<ResetQueueStep, ResetFramerStep, SourceStep("None")>> /\ callback = NoCallback
  <2>1. /\ Head(steps) = ResetQueueStep
        /\ Tail(steps) = <<ResetFramerStep, SourceStep("None")>>
    BY <1>7
  <2>2. /\ steps' = <<ResetFramerStep, SourceStep("None")>>
        /\ queue' = 0 /\ activeSource' = activeSource /\ callback' = callback
    BY <1>e, <2>1, Zenon DEF Effect
  <2> QED
    BY <1>t, <1>z, <1>7, <2>2, Zenon DEF Switched
<1>8. CASE steps = <<ResetFramerStep, SourceStep("None")>> /\ callback = NoCallback
  <2>1. /\ Head(steps) = ResetFramerStep
        /\ Tail(steps) = <<SourceStep("None")>>
    BY <1>8
  <2>2. /\ steps' = <<SourceStep("None")>>
        /\ queue' = queue /\ activeSource' = activeSource /\ callback' = callback
    BY <1>e, <2>1, Zenon DEF Effect
  <2> QED
    BY <1>t, <1>z, <1>8, <2>2, Zenon DEF Switched
<1>9. CASE steps = <<ResetQueueStep, SourceStep("None")>> /\ callback = NoCallback
  <2>1. /\ Head(steps) = ResetQueueStep
        /\ Tail(steps) = <<SourceStep("None")>>
    BY <1>9
  <2>2. /\ steps' = <<SourceStep("None")>>
        /\ queue' = 0 /\ activeSource' = activeSource /\ callback' = callback
    BY <1>e, <2>1, Zenon DEF Effect
  <2> QED
    BY <1>t, <1>z, <1>9, <2>2, Zenon DEF Switched
<1>10. CASE steps = <<SourceStep("None")>> /\ callback = NoCallback
  <2>1. /\ Head(steps) = SourceStep("None")
        /\ Tail(steps) = <<>>
    BY <1>10
  <2>2. /\ steps' = <<>>
        /\ queue' = queue /\ activeSource' = "None" /\ callback' = callback
    BY <1>e, <2>1, Zenon DEF Effect
  <2> QED
    BY <1>t, <1>10, <2>2, ContentAssumption DEF Switched, Agree
<1>11. CASE steps = <<ResetFramerStep, StoreStep(NoCallback), SourceStep("FrameQueue")>>
  <2>1. /\ Head(steps) = ResetFramerStep
        /\ Tail(steps) = <<StoreStep(NoCallback), SourceStep("FrameQueue")>>
    BY <1>11
  <2>2. /\ steps' = <<StoreStep(NoCallback), SourceStep("FrameQueue")>>
        /\ queue' = queue /\ activeSource' = activeSource /\ callback' = callback
    BY <1>e, <2>1, Zenon DEF Effect
  <2> QED
    BY <1>t, <1>z, <1>11, <2>2, Zenon DEF Switched
<1>12. CASE steps = <<ResetFramerStep, StoreStep(NoCallback), SourceStep("FrameQueue"),
                      EnqueueStep>>
  <2>1. /\ Head(steps) = ResetFramerStep
        /\ Tail(steps) = <<StoreStep(NoCallback), SourceStep("FrameQueue"), EnqueueStep>>
    BY <1>12
  <2>2. /\ steps' = <<StoreStep(NoCallback), SourceStep("FrameQueue"), EnqueueStep>>
        /\ queue' = queue /\ activeSource' = activeSource /\ callback' = callback
    BY <1>e, <2>1, Zenon DEF Effect
  <2> QED
    BY <1>t, <1>z, <1>12, <2>2, Zenon DEF Switched
<1>13. CASE steps = <<StoreStep(NoCallback), SourceStep("FrameQueue")>>
  <2>1. /\ Head(steps) = StoreStep(NoCallback)
        /\ Tail(steps) = <<SourceStep("FrameQueue")>>
    BY <1>13
  <2>2. /\ steps' = <<SourceStep("FrameQueue")>>
        /\ queue' = queue /\ activeSource' = activeSource /\ callback' = NoCallback
    BY <1>e, <2>1, Zenon DEF Effect
  <2> QED
    BY <1>t, <1>z, <1>13, <2>2, Zenon DEF Switched
<1>14. CASE steps = <<StoreStep(NoCallback), SourceStep("FrameQueue"), EnqueueStep>>
  <2>1. /\ Head(steps) = StoreStep(NoCallback)
        /\ Tail(steps) = <<SourceStep("FrameQueue"), EnqueueStep>>
    BY <1>14
  <2>2. /\ steps' = <<SourceStep("FrameQueue"), EnqueueStep>>
        /\ queue' = queue /\ activeSource' = activeSource /\ callback' = NoCallback
    BY <1>e, <2>1, Zenon DEF Effect
  <2> QED
    BY <1>t, <1>z, <1>14, <2>2, Zenon DEF Switched
<1>15. CASE steps = <<SourceStep("FrameQueue")>> /\ callback = NoCallback
  <2>1. /\ Head(steps) = SourceStep("FrameQueue")
        /\ Tail(steps) = <<>>
    BY <1>15
  <2>2. /\ steps' = <<>>
        /\ queue' = queue /\ activeSource' = "FrameQueue" /\ callback' = callback
    BY <1>e, <2>1, Zenon DEF Effect
  <2> QED
    BY <1>t, <1>15, <2>2, ContentAssumption DEF Switched, Agree
<1>16. CASE steps = <<SourceStep("FrameQueue"), EnqueueStep>> /\ callback = NoCallback
  <2>1. /\ Head(steps) = SourceStep("FrameQueue")
        /\ Tail(steps) = <<EnqueueStep>>
    BY <1>16
  <2>2. /\ steps' = <<EnqueueStep>>
        /\ queue' = queue /\ activeSource' = "FrameQueue" /\ callback' = callback
    BY <1>e, <2>1, Zenon DEF Effect
  <2>3. Agree'
    BY <1>16, <2>2 DEF Agree
  <2> QED
    BY <1>t, <1>z, <1>16, <2>2, <2>3, Zenon DEF Switched
<1>17. ASSUME NEW c \in Callbacks,
             \/ steps = <<ResetQueueStep, ResetFramerStep, StoreStep(c),
                          SourceStep("PointCallback")>>
             \/ steps = <<ResetFramerStep, StoreStep(c), SourceStep("PointCallback")>> /\ queue = 0
             \/ steps = <<StoreStep(c), SourceStep("PointCallback")>> /\ queue = 0
             \/ steps = <<SourceStep("PointCallback")>> /\ queue = 0 /\ callback = c
      PROVE  Switched'
  <2>1. CASE steps = <<ResetQueueStep, ResetFramerStep, StoreStep(c), SourceStep("PointCallback")>>
    <3>1. /\ Head(steps) = ResetQueueStep
          /\ Tail(steps) = <<ResetFramerStep, StoreStep(c), SourceStep("PointCallback")>>
      BY <2>1
    <3>2. /\ steps' = <<ResetFramerStep, StoreStep(c), SourceStep("PointCallback")>>
          /\ queue' = 0 /\ activeSource' = activeSource /\ callback' = callback
      BY <1>e, <3>1, Zenon DEF Effect
    <3> QED
      BY <1>t, <1>z, <2>1, <3>2, Zenon DEF Switched
  <2>2. CASE steps = <<ResetFramerStep, StoreStep(c), SourceStep("PointCallback")>> /\ queue = 0
    <3>1. /\ Head(steps) = ResetFramerStep
          /\ Tail(steps) = <<StoreStep(c), SourceStep("PointCallback")>>
      BY <2>2
    <3>2. /\ steps' = <<StoreStep(c), SourceStep("PointCallback")>>
          /\ queue' = queue /\ activeSource' = activeSource /\ callback' = callback
      BY <1>e, <3>1, Zenon DEF Effect
    <3> QED
      BY <1>t, <1>z, <2>2, <3>2, Zenon DEF Switched
  <2>3. CASE steps = <<StoreStep(c), SourceStep("PointCallback")>> /\ queue = 0
    <3>1. /\ Head(steps) = StoreStep(c)
          /\ Tail(steps) = <<SourceStep("PointCallback")>>
      BY <2>3
    <3>2. /\ steps' = <<SourceStep("PointCallback")>>
          /\ queue' = queue /\ activeSource' = activeSource /\ callback' = c
      BY <1>e, <3>1, Zenon DEF Effect
    <3> QED
      BY <1>t, <1>z, <2>3, <3>2, Zenon DEF Switched
  <2>4. CASE steps = <<SourceStep("PointCallback")>> /\ queue = 0 /\ callback = c
    <3>1. /\ Head(steps) = SourceStep("PointCallback")
          /\ Tail(steps) = <<>>
      BY <2>4
    <3>2. /\ steps' = <<>>
          /\ queue' = queue /\ activeSource' = "PointCallback" /\ callback' = callback
      BY <1>e, <3>1, Zenon DEF Effect
    <3> QED
      BY <1>t, <2>4, <3>2, ContentAssumption DEF Switched, Agree
  <2> QED
    BY <1>17, <2>1, <2>2, <2>3, <2>4
<1>n. steps # <<>>
  BY <1>e DEF Effect
<1> QED
  BY <1>n, <1>1, <1>2, <1>3, <1>4, <1>5, <1>6, <1>7, <1>8, <1>9,
     <1>10, <1>11, <1>12, <1>13, <1>14, <1>15, <1>16, <1>17, Zenon DEF Switched

\* Lists of steps put together.
LEMMA ListFacts ==
    ASSUME NEW a, NEW b, NEW c
    PROVE  /\ <<a>> \o <<b>> = <<a, b>>
           /\ <<a>> \o <<b, c>> = <<a, b, c>>
<1> DEFINE E == {a, b, c}
<1>t. /\ <<a>> \in Seq(E) /\ <<b>> \in Seq(E) /\ <<b, c>> \in Seq(E)
      /\ <<a, b>> \in Seq(E) /\ <<a, b, c>> \in Seq(E)
  OBVIOUS
<1> HIDE DEF E
<1>c. \A s, t \in Seq(E) :
         /\ s \o t \in Seq(E) /\ Len(s) \in Nat /\ Len(t) \in Nat
         /\ Len(s \o t) = Len(s) + Len(t)
         /\ \A i \in 1 .. Len(s) : (s \o t)[i] = s[i]
         /\ \A i \in 1 .. Len(t) : (s \o t)[Len(s) + i] = t[i]
         /\ \A i \in 1 .. Len(t) : (s \o t)[i + Len(s)] = t[i]
  BY TwoFacts
<1>s. \A s, t \in Seq(E) : Len(s) = Len(t) /\ (\A i \in 1 .. Len(s) : s[i] = t[i]) => s = t
  BY SeqEqual
<1>1. <<a>> \o <<b>> = <<a, b>>
  <2> DEFINE w == <<a>> \o <<b>>
  <2>1. w \in Seq(E) /\ Len(w) = 2 /\ w[1] = a /\ w[2] = b
    BY <1>t, <1>c
  <2> HIDE DEF w
  <2>2. \A i \in 1 .. 2 : w[i] = <<a, b>>[i]
    BY <2>1
  <2> DEFINE v == <<a, b>>
  <2>3. Len(v) = 2 /\ v \in Seq(E)
    BY <1>t
  <2> HIDE DEF v
  <2>4. Len(w) = Len(v) /\ \A i \in 1 .. Len(w) : w[i] = v[i]
    BY <2>1, <2>2, <2>3 DEF v
  <2>5. w = v
    BY <1>s, <2>1, <2>3, <2>4, Zenon
  <2> QED
    BY <2>5 DEF w, v
<1>2. <<a>> \o <<b, c>> = <<a, b, c>>
  <2> DEFINE w == <<a>> \o <<b, c>>
  <2>1. w \in Seq(E) /\ Len(w) = 3 /\ w[1] = a /\ w[2] = b /\ w[3] = c
    <3>1. Len(<<a>>) = 1 /\ Len(<<b, c>>) = 2
      OBVIOUS
    <3>2. /\ w \in Seq(E) /\ Len(w) = Len(<<a>>) + Len(<<b, c>>)
          /\ \A i \in 1 .. Len(<<a>>) : w[i] = <<a>>[i]
          /\ \A i \in 1 .. Len(<<b, c>>) : w[Len(<<a>>) + i] = <<b, c>>[i]
      BY <1>t, <1>c, Zenon
    <3>3. /\ w \in Seq(E) /\ Len(w) = 1 + 2
          /\ \A i \in 1 .. 1 : w[i] = <<a>>[i]
          /\ \A i \in 1 .. 2 : w[1 + i] = <<b, c>>[i]
      BY <3>1, <3>2, Zenon
    <3> HIDE DEF w
    <3> QED
      BY <3>3
  <2> HIDE DEF w
  <2>2. \A i \in 1 .. 3 : w[i] = <<a, b, c>>[i]
    BY <2>1
  <2> DEFINE v == <<a, b, c>>
  <2>3. Len(v) = 3 /\ v \in Seq(E)
    BY <1>t
  <2> HIDE DEF v
  <2>4. Len(w) = Len(v) /\ \A i \in 1 .. Len(w) : w[i] = v[i]
    BY <2>1, <2>2, <2>3 DEF v
  <2>5. w = v
    BY <1>s, <2>1, <2>3, <2>4, Zenon
  <2> QED
    BY <2>5 DEF w, v
<1> QED
  BY <1>1, <1>2

\* The longest of them.
LEMMA LongListFacts ==
    \A a, b, c, d : <<a, b, c>> \o <<d>> = <<a, b, c, d>>
<1> SUFFICES ASSUME NEW a, NEW b, NEW c, NEW d
             PROVE  <<a, b, c>> \o <<d>> = <<a, b, c, d>>
  BY Zenon
<1> DEFINE E == {a, b, c, d}
<1>t. <<d>> \in Seq(E) /\ <<a, b, c>> \in Seq(E) /\ <<a, b, c, d>> \in Seq(E)
  OBVIOUS
<1> HIDE DEF E
<1>c. \A s, t \in Seq(E) :
         /\ s \o t \in Seq(E) /\ Len(s) \in Nat /\ Len(t) \in Nat
         /\ Len(s \o t) = Len(s) + Len(t)
         /\ \A i \in 1 .. Len(s) : (s \o t)[i] = s[i]
         /\ \A i \in 1 .. Len(t) : (s \o t)[Len(s) + i] = t[i]
         /\ \A i \in 1 .. Len(t) : (s \o t)[i + Len(s)] = t[i]
  BY TwoFacts
<1>s. \A s, t \in Seq(E) : Len(s) = Len(t) /\ (\A i \in 1 .. Len(s) : s[i] = t[i]) => s = t
  BY SeqEqual
<1> DEFINE w == <<a, b, c>> \o <<d>>
<1>1. w \in Seq(E) /\ Len(w) = 4 /\ w[1] = a /\ w[2] = b /\ w[3] = c /\ w[4] = d
  <2>1. Len(<<a, b, c>>) = 3 /\ Len(<<d>>) = 1
    OBVIOUS
  <2>2. /\ w \in Seq(E) /\ Len(w) = Len(<<a, b, c>>) + Len(<<d>>)
        /\ \A i \in 1 .. Len(<<a, b, c>>) : w[i] = <<a, b, c>>[i]
        /\ \A i \in 1 .. Len(<<d>>) : w[Len(<<a, b, c>>) + i] = <<d>>[i]
    BY <1>t, <1>c, Zenon
  <2>3. /\ w \in Seq(E) /\ Len(w) = 3 + 1
        /\ \A i \in 1 .. 3 : w[i] = <<a, b, c>>[i]
        /\ \A i \in 1 .. 1 : w[3 + i] = <<d>>[i]
    BY <2>1, <2>2, Zenon
  <2> HIDE DEF w
  <2> QED
    BY <2>3
<1> HIDE DEF w
<1>2. \A i \in 1 .. 4 : w[i] = <<a, b, c, d>>[i]
  BY <1>1
<1> DEFINE v == <<a, b, c, d>>
<1>3. Len(v) = 4 /\ v \in Seq(E)
  BY <1>t
<1> HIDE DEF v
<1>4. Len(w) = Len(v) /\ \A i \in 1 .. Len(w) : w[i] = v[i]
  BY <1>1, <1>2, <1>3 DEF v
<1>5. w = v
  BY <1>s, <1>1, <1>3, <1>4, Zenon
<1> QED
  BY <1>5 DEF w, v

\* A call begins with all its steps ahead of it.
LEMMA SwitchCall ==
    ASSUME Switched, AppCall
    PROVE  /\ Switched'
           /\ \A c \in Callbacks : steps' # <<StoreStep(c), SourceStep("PointCallback")>>
<1>1. /\ UNCHANGED <<activeSource, callback, queue>> /\ steps = <<>>
  BY DEF AppCall, SetPointCallback, ClearPointCallback, ClearPointCallbackPrefetch, SendFrame,
     UseFrameQueue, ClearFrameQueue, ClearContentSource, Call, controller
<1>2. /\ activeSource \in {"None", "PointCallback", "FrameQueue"}
      /\ callback \in Callbacks \cup {NoCallback}
      /\ queue \in 0 .. MaxQueue
  BY DEF Switched
<1>3. Agree
  BY <1>1 DEF Switched
<1>4. Agree' /\ activeSource' = activeSource /\ callback' = callback /\ queue' = queue
  BY <1>1, <1>3 DEF Agree
<1>d. /\ \A v, w, x : <<x>> # <<v, w>>
      /\ \A v, w, x, y, z : <<x, y, z>> # <<v, w>>
      /\ \A u, v, w, x, y, z : <<u, x, y, z>> # <<v, w>>
  OBVIOUS
<1>r. \A c, x, y : <<ResetQueueStep, x>> # <<StoreStep(c), y>>
  <2>1. \A c : ResetQueueStep # StoreStep(c)
    BY DEF ResetQueueStep, StoreStep
  <2> QED
    BY <2>1
<1>5. CASE \E c \in Callbacks : SetPointCallback(c)
  <2>1. PICK c \in Callbacks : steps' = <<ResetQueueStep, ResetFramerStep, StoreStep(c),
                                          SourceStep("PointCallback")>>
    BY <1>5 DEF SetPointCallback, Call
  <2> QED
    BY <1>2, <1>4, <1>d, <1>r, <2>1, Zenon DEF Switched
<1>6. CASE ClearPointCallback
  <2>1. CASE activeSource = "PointCallback"
    <3>1. steps' = <<StoreStep(NoCallback)>> \o <<ResetFramerStep, SourceStep("None")>>
      BY <1>6, <2>1, Zenon DEF ClearPointCallback, Call
    <3>2. steps' = <<StoreStep(NoCallback), ResetFramerStep, SourceStep("None")>>
      BY <3>1, ListFacts, Zenon
    <3> QED
      BY <1>2, <1>4, <1>d, <1>r, <3>2, Zenon DEF Switched
  <2>2. CASE activeSource # "PointCallback"
    <3>1. steps' = <<StoreStep(NoCallback)>> \o <<>>
      BY <1>6, <2>2, Zenon DEF ClearPointCallback, Call
    <3>2. steps' = <<StoreStep(NoCallback)>>
      BY <3>1
    <3> QED
      BY <1>2, <1>4, <1>d, <1>r, <2>2, <3>2, Zenon DEF Switched
  <2> QED
    BY <2>1, <2>2
<1>7. CASE ClearPointCallbackPrefetch
  <2>1. steps' = <<ResetFramerStep>>
    BY <1>7 DEF ClearPointCallbackPrefetch, Call
  <2> QED
    BY <1>2, <1>4, <1>d, <1>r, <2>1, Zenon DEF Switched
<1>8. CASE SendFrame
  <2>1. CASE activeSource = "FrameQueue"
    <3>1. steps' = <<>> \o <<EnqueueStep>>
      BY <1>8, <2>1, Zenon DEF SendFrame, Call
    <3>2. steps' = <<EnqueueStep>>
      BY <3>1
    <3> QED
      BY <1>2, <1>4, <1>d, <1>r, <2>1, <3>2, Zenon DEF Switched
  <2>2. CASE activeSource # "FrameQueue"
    <3>1. steps' = EnterFrameMode \o <<EnqueueStep>>
      BY <1>8, <2>2, Zenon DEF SendFrame, Call
    <3>2. steps' = <<ResetFramerStep, StoreStep(NoCallback), SourceStep("FrameQueue"), EnqueueStep>>
      <4>1. <<ResetFramerStep, StoreStep(NoCallback), SourceStep("FrameQueue")>> \o <<EnqueueStep>>
            = <<ResetFramerStep, StoreStep(NoCallback), SourceStep("FrameQueue"), EnqueueStep>>
        BY LongListFacts, Zenon
      <4> QED
        BY <3>1, <4>1, Zenon DEF EnterFrameMode
    <3> QED
      BY <1>2, <1>4, <1>d, <1>r, <3>2, Zenon DEF Switched
  <2> QED
    BY <2>1, <2>2
<1>9. CASE UseFrameQueue
  <2>1. steps' = <<ResetFramerStep, StoreStep(NoCallback), SourceStep("FrameQueue")>>
    BY <1>9 DEF UseFrameQueue, Call, EnterFrameMode
  <2> QED
    BY <1>2, <1>4, <1>d, <1>r, <2>1, Zenon DEF Switched
<1>10. CASE ClearFrameQueue
  <2>1. CASE activeSource = "FrameQueue"
    <3>1. steps' = <<ResetQueueStep>> \o <<SourceStep("None")>>
      BY <1>10, <2>1, Zenon DEF ClearFrameQueue, Call
    <3>2. steps' = <<ResetQueueStep, SourceStep("None")>>
      BY <3>1, ListFacts, Zenon
    <3>3. callback = NoCallback
      BY <1>3, <2>1 DEF Agree
    <3> QED
      BY <1>2, <1>4, <1>d, <1>r, <3>2, <3>3, Zenon DEF Switched
  <2>2. CASE activeSource # "FrameQueue"
    <3>1. steps' = <<ResetQueueStep>> \o <<>>
      BY <1>10, <2>2, Zenon DEF ClearFrameQueue, Call
    <3>2. steps' = <<ResetQueueStep>>
      BY <3>1
    <3> QED
      BY <1>2, <1>4, <1>d, <1>r, <3>2, Zenon DEF Switched
  <2> QED
    BY <2>1, <2>2
<1>11. CASE ClearContentSource
  <2>1. steps' = <<StoreStep(NoCallback), ResetQueueStep, ResetFramerStep, SourceStep("None")>>
    BY <1>11 DEF ClearContentSource, Call
  <2> QED
    BY <1>2, <1>4, <1>d, <1>r, <2>1, Zenon DEF Switched
<1> QED
  BY <1>5, <1>6, <1>7, <1>8, <1>9, <1>10, <1>11 DEF AppCall

\* The worker switches nothing; it may use frames of the queue up.
LEMMA SwitchedKept ==
    ASSUME IInv, [Next]_vars
    PROVE  Switched'
<1>0. Switched
  BY Zenon DEF IInv
<1>1. CASE UNCHANGED <<steps, activeSource, callback, queue>>
  <2>1. steps' = steps /\ activeSource' = activeSource /\ callback' = callback /\ queue' = queue
    BY <1>1
  <2> QED
    BY <1>0, <2>1, Zenon DEF Switched, Agree
<1>2. CASE FillFromQueue
  <2>1. /\ steps' = steps /\ activeSource' = activeSource /\ callback' = callback
        /\ queue' \in 0 .. queue
    BY <1>2 DEF FillFromQueue
  <2>2. queue \in 0 .. MaxQueue
    BY <1>0, Zenon DEF Switched
  <2>3. queue' \in 0 .. MaxQueue /\ (queue = 0 => queue' = 0)
    BY <2>1, <2>2, ContentAssumption
  <2> QED
    BY <1>0, <2>1, <2>3, Zenon DEF Switched, Agree
<1>3. CASE Begin
  BY <1>1, <1>3 DEF Begin, SnapshotSource, controller
<1>4. CASE WorkerStep /\ ~FillFromQueue
  BY <1>1, <1>4 DEF WorkerStep, Fail, CopyCallback, CallCallback, LockFramer, Prepare, Prepared,
     Take, TakeNothing, controller
<1>5. CASE UNCHANGED vars
  BY <1>1, <1>5 DEF vars, controller
<1> QED
  BY <1>0, <1>2, <1>3, <1>4, <1>5, SwitchCall, SwitchStep DEF Next

\* A step of a switching call leaves the worker alone.
LEMMA AppStepFacts ==
    ASSUME AppStep
    PROVE  /\ steps # <<>> /\ wpc' = wpc /\ req' = req /\ copied' = copied
           /\ fresh' = fresh /\ out' = out
<1> USE DEF StepIs
<1>1. CASE ResetQueue
  BY <1>1 DEF ResetQueue, worker, observed
<1>2. CASE ResetFramer
  BY <1>2 DEF ResetFramer, worker
<1>3. CASE StoreCallback
  BY <1>3 DEF StoreCallback, worker, observed
<1>4. CASE SetSource
  BY <1>4 DEF SetSource, worker, observed
<1>5. CASE Enqueue
  BY <1>5 DEF Enqueue, worker, observed
<1> QED
  BY <1>1, <1>2, <1>3, <1>4, <1>5 DEF AppStep

\* A call leaves the worker and the sources alone; its request is not fresh.
LEMMA AppCallFacts ==
    ASSUME AppCall
    PROVE  /\ steps = <<>> /\ wpc' = wpc /\ req' = req /\ copied' = copied
           /\ fresh' = FALSE /\ out' = Nothing
           /\ callback' = callback /\ activeSource' = activeSource /\ overlapped' = overlapped
           /\ Still
  BY DEF AppCall, SetPointCallback, ClearPointCallback, ClearPointCallbackPrefetch, SendFrame,
     UseFrameQueue, ClearFrameQueue, ClearContentSource, Call, worker, controller, framer, Still

\* The worker's steps leave the switching call, the source and the callback.
LEMMA WorkerFacts ==
    ASSUME WorkerStep
    PROVE  /\ steps' = steps /\ callback' = callback /\ activeSource' = activeSource
           /\ overlapped' = overlapped
  BY DEF WorkerStep, Fail, FillFromQueue, CopyCallback, CallCallback, LockFramer, Prepare, Prepared,
     Take, TakeNothing, controller, observed

\* What a request that no switch overlaps hands over is the source's.
LEMMA CurrentKept ==
    ASSUME IInv, [Next]_vars
    PROVE  Current'
<1>0. Current
  BY Zenon DEF IInv
<1>1. CASE UNCHANGED vars
  <2>1. /\ steps' = steps /\ wpc' = wpc /\ copied' = copied /\ callback' = callback
        /\ activeSource' = activeSource /\ fresh' = fresh /\ out' = out
    BY <1>1 DEF vars, worker, controller, observed
  <2> QED
    BY <1>0, <2>1, Zenon DEF Current, SourceExclusive
<1>2. CASE AppCall
  <2>1. fresh' = FALSE /\ out' = Nothing
    BY <1>2, AppCallFacts, Zenon
  <2>2. ~(fresh') /\ ~(out'.fresh)
    BY <2>1 DEF Nothing
  <2> QED
    BY <2>2, Zenon DEF Current, SourceExclusive
<1>3. CASE AppStep
  <2>1. steps # <<>> /\ fresh' = fresh /\ out' = out
    BY <1>3, AppStepFacts, Zenon
  <2>2. ~(fresh') /\ ~(out'.fresh)
    BY <1>0, <2>1, Zenon DEF Current
  <2> QED
    BY <2>2, Zenon DEF Current, SourceExclusive
<1>4. CASE Begin
  <2>1. PICK r \in Requests : SnapshotSource(r)
    BY <1>4 DEF Begin
  <2>2. /\ steps' = steps /\ steps = <<>> /\ out' = Nothing /\ callback' = callback
        /\ activeSource' = activeSource
        /\ wpc' = CASE activeSource = "PointCallback" -> "copy"
                    [] activeSource = "FrameQueue" -> "queue"
                    [] OTHER -> "fail"
    BY <2>1 DEF SnapshotSource, controller
  <2>3. /\ wpc' # "idle" /\ wpc' \notin Using
        /\ wpc' = "queue" => activeSource' = "FrameQueue"
        /\ wpc' = "copy" => activeSource' = "PointCallback"
    BY <2>2 DEF Using
  <2>4. ~(out'.fresh)
    BY <2>2 DEF Nothing
  <2> QED
    BY <2>2, <2>3, <2>4, Zenon DEF Current, SourceExclusive
<1>5. CASE WorkerStep
  <2>0. steps' = steps /\ callback' = callback /\ activeSource' = activeSource
    BY <1>5, WorkerFacts, Zenon
  <2> DEFINE Over(kind) == /\ out'.kind = kind /\ out'.via = copied /\ out'.fresh = fresh
                           /\ fresh' = FALSE
  <2>1. ASSUME NEW kind, NEW points, HandOver(kind, points) PROVE Over(kind)
    BY <2>1 DEF HandOver
  <2>2. CASE Fail \/ TakeNothing
    <3>1. Over("none")
      BY <2>1, <2>2, Zenon DEF Fail, TakeNothing
    <3>2. "none" # "queue" /\ "none" # "blank" /\ "none" # "callback"
      OBVIOUS
    <3> QED
      BY <1>0, <2>0, <3>1, <3>2, Zenon DEF Current, SourceExclusive
  <2>3. CASE FillFromQueue
    <3>1. wpc = "queue" /\ (Over("queue") \/ Over("blank"))
      BY <2>1, <2>3, Zenon DEF FillFromQueue
    <3>2. "queue" # "callback" /\ "blank" # "callback"
      OBVIOUS
    <3> QED
      BY <1>0, <2>0, <3>1, <3>2, Zenon DEF Current, SourceExclusive
  <2>4. CASE CallCallback \/ Take
    <3>1. wpc \in Using /\ Over("callback")
      BY <2>1, <2>4, Zenon DEF CallCallback, Take, Using
    <3>2. "callback" # "queue" /\ "callback" # "blank"
      OBVIOUS
    <3> QED
      BY <1>0, <2>0, <3>1, <3>2, Zenon DEF Current, SourceExclusive
  <2>5. CASE CopyCallback
    <3>1. /\ wpc = "copy" /\ fresh' = fresh /\ out' = out
          /\ wpc' \in {"fail", "call", "lock"}
      BY <2>5 DEF CopyCallback, observed
    <3>2. wpc' \in Using => copied' = callback
      <4>1. wpc' \in Using => wpc' # "fail"
        BY DEF Using
      <4> QED
        BY <2>5, <4>1, Zenon DEF CopyCallback
    <3>3. wpc' # "idle" /\ wpc' # "queue" /\ wpc' # "copy"
      BY <3>1
    <3> QED
      BY <1>0, <2>0, <3>1, <3>2, <3>3, Zenon DEF Current, SourceExclusive
  <2>6. CASE \/ \E transport \in TransportLevels : LockFramer(transport)
             \/ \E batch \in 0 .. PullCount : Prepare(batch)
             \/ Prepared
    <3>1. wpc \in Using /\ wpc' \in Using /\ copied' = copied /\ fresh' = fresh /\ out' = out
      BY <2>6 DEF LockFramer, Prepare, Prepared, Using, observed
    <3>2. wpc' # "idle" /\ wpc' # "queue"
      BY <3>1 DEF Using
    <3> QED
      BY <1>0, <2>0, <3>1, <3>2, Zenon DEF Current, SourceExclusive
  <2> QED
    BY <1>5, <2>2, <2>3, <2>4, <2>5, <2>6 DEF WorkerStep
<1> QED
  BY <1>1, <1>2, <1>3, <1>4, <1>5 DEF Next

\* The next step installs no callback, nor do the two that would follow it.
Clears(list) ==
    /\ Head(list).op = "store" => Head(list).callback = NoCallback
    /\ \A c, s : Tail(list) = <<StoreStep(c), SourceStep(s)>> => c = NoCallback

\* Only setPointCallback's lists do.
LEMMA SwitchShapes ==
    ASSUME Switched
    PROVE  \/ steps = <<>> \/ Clears(steps)
           \/ \E c \in Callbacks :
                \/ steps = <<ResetQueueStep, ResetFramerStep, StoreStep(c),
                             SourceStep("PointCallback")>>
                \/ steps = <<ResetFramerStep, StoreStep(c), SourceStep("PointCallback")>>
                \/ steps = <<StoreStep(c), SourceStep("PointCallback")>>
<1>f. /\ ResetFramerStep.op # "store" /\ ResetQueueStep.op # "store" /\ EnqueueStep.op # "store"
      /\ \A s : SourceStep(s).op # "store"
      /\ StoreStep(NoCallback).callback = NoCallback
  BY DEF ResetFramerStep, ResetQueueStep, EnqueueStep, SourceStep, StoreStep
<1> DEFINE Good(x) == x.op = "store" => x.callback = NoCallback
<1>1. ASSUME NEW a, Good(a) PROVE Clears(<<a>>)
  BY <1>1 DEF Clears
<1>s. \A c : StoreStep(c).op = "store" /\ StoreStep(c).callback = c
  BY DEF StoreStep
<1>2. ASSUME NEW a, NEW b, Good(a), Good(b) PROVE Clears(<<a, b>>)
  BY <1>2 DEF Clears
<1>3. ASSUME NEW a, NEW b, NEW c, Good(a), Good(b), Good(c) PROVE Clears(<<a, b, c>>)
  BY <1>3, <1>s DEF Clears
<1>4. ASSUME NEW a, NEW b, NEW c, NEW d, Good(a), Good(b), Good(c), Good(d)
      PROVE  Clears(<<a, b, c, d>>)
  BY <1>4 DEF Clears
<1>g. /\ Good(ResetFramerStep) /\ Good(ResetQueueStep) /\ Good(EnqueueStep)
      /\ Good(SourceStep("None")) /\ Good(SourceStep("FrameQueue"))
      /\ Good(SourceStep("PointCallback")) /\ Good(StoreStep(NoCallback))
  BY <1>f, Zenon
<1> HIDE DEF Good
<1>5. /\ Clears(<<ResetFramerStep>>) /\ Clears(<<ResetQueueStep>>) /\ Clears(<<EnqueueStep>>)
      /\ Clears(<<StoreStep(NoCallback)>>) /\ Clears(<<SourceStep("PointCallback")>>)
      /\ Clears(<<SourceStep("None")>>) /\ Clears(<<SourceStep("FrameQueue")>>)
  BY <1>1, <1>g, Zenon
<1>6. /\ Clears(<<ResetFramerStep, SourceStep("None")>>)
      /\ Clears(<<ResetQueueStep, SourceStep("None")>>)
      /\ Clears(<<StoreStep(NoCallback), SourceStep("FrameQueue")>>)
      /\ Clears(<<SourceStep("FrameQueue"), EnqueueStep>>)
  BY <1>2, <1>g, Zenon
<1>7. /\ Clears(<<StoreStep(NoCallback), ResetFramerStep, SourceStep("None")>>)
      /\ Clears(<<ResetQueueStep, ResetFramerStep, SourceStep("None")>>)
      /\ Clears(<<ResetFramerStep, StoreStep(NoCallback), SourceStep("FrameQueue")>>)
      /\ Clears(<<StoreStep(NoCallback), SourceStep("FrameQueue"), EnqueueStep>>)
  BY <1>3, <1>g, Zenon
<1>8. /\ Clears(<<StoreStep(NoCallback), ResetQueueStep, ResetFramerStep, SourceStep("None")>>)
      /\ Clears(<<ResetFramerStep, StoreStep(NoCallback), SourceStep("FrameQueue"), EnqueueStep>>)
  BY <1>4, <1>g, Zenon
<1> QED
  BY <1>5, <1>6, <1>7, <1>8, Zenon DEF Switched


\* A callback is stored by the one call that does, and its reset of the framer
\* comes right before.
LEMMA InstallFacts ==
    ASSUME Switched, AppStep
    PROVE  /\ \/ callback' = callback
              \/ /\ overlapped' = overlapped
                 /\ \/ callback' = NoCallback
                    \/ \E c \in Callbacks :
                          /\ steps = <<StoreStep(c), SourceStep("PointCallback")>>
                          /\ callback' = c
           /\ \A c \in Callbacks :
                 steps' = <<StoreStep(c), SourceStep("PointCallback")>> => ResetFramer
<1>1. steps # <<>> /\ steps' = Tail(steps)
  BY StepEffect, Zenon DEF Effect
<1>s. /\ \A c : StoreStep(c).op = "store" /\ StoreStep(c).callback = c
      /\ \A c, d : StoreStep(c) = StoreStep(d) => c = d
  BY DEF StoreStep
<1>n. NoCallback \notin Callbacks
  BY ContentAssumption
<1>2. CASE StoreCallback
  <2>1. /\ Head(steps).op = "store" /\ callback' = Head(steps).callback
        /\ overlapped' = overlapped
    BY <1>2 DEF StoreCallback, StepIs, observed
  <2>3. ASSUME NEW c \in Callbacks,
               \/ steps = <<ResetQueueStep, ResetFramerStep, StoreStep(c),
                            SourceStep("PointCallback")>>
               \/ steps = <<ResetFramerStep, StoreStep(c), SourceStep("PointCallback")>>
        PROVE  FALSE
    <3>1. Head(steps) = ResetQueueStep \/ Head(steps) = ResetFramerStep
      BY <2>3
    <3> QED
      BY <2>1, <3>1 DEF ResetQueueStep, ResetFramerStep
  <2>4. ASSUME NEW c \in Callbacks, steps = <<StoreStep(c), SourceStep("PointCallback")>>
        PROVE  callback' = c /\ Tail(steps) = <<SourceStep("PointCallback")>>
    <3>1. Head(steps) = StoreStep(c) /\ Tail(steps) = <<SourceStep("PointCallback")>>
      BY <2>4
    <3> QED
      BY <1>s, <2>1, <3>1, Zenon
  <2>5. \A a, b, d : <<a>> # <<b, d>>
    OBVIOUS
  <2>6. \/ callback' = NoCallback
        \/ \E c \in Callbacks : /\ steps = <<StoreStep(c), SourceStep("PointCallback")>>
                                /\ callback' = c
    BY <1>1, <2>1, <2>3, <2>4, SwitchShapes, Zenon DEF Clears
  <2>7. \A c \in Callbacks : steps' # <<StoreStep(c), SourceStep("PointCallback")>>
    <3> SUFFICES ASSUME NEW c \in Callbacks,
                        steps' = <<StoreStep(c), SourceStep("PointCallback")>>
                 PROVE  FALSE
      BY Zenon
    <3>1. ~Clears(steps)
      BY <1>1, <1>n, Zenon DEF Clears
    <3>2. PICK d \in Callbacks : steps = <<StoreStep(d), SourceStep("PointCallback")>>
      BY <1>1, <2>3, <3>1, SwitchShapes, Zenon
    <3>3. steps' = <<SourceStep("PointCallback")>>
      BY <1>1, <2>4, <3>2, Zenon
    <3> QED
      BY <2>5, <3>3, Zenon
  <2> QED
    BY <2>1, <2>6, <2>7, Zenon
<1>3. CASE ~StoreCallback
  <2>1. callback' = callback
    BY <1>3 DEF AppStep, ResetQueue, ResetFramer, SetSource, Enqueue, controller
  <2>2. ASSUME NEW c \in Callbacks, steps' = <<StoreStep(c), SourceStep("PointCallback")>>
        PROVE  ResetFramer
    <3>1. ~Clears(steps)
      BY <1>1, <1>n, <2>2, Zenon DEF Clears
    <3>2. PICK d \in Callbacks :
            \/ steps = <<ResetQueueStep, ResetFramerStep, StoreStep(d),
                         SourceStep("PointCallback")>>
            \/ steps = <<ResetFramerStep, StoreStep(d), SourceStep("PointCallback")>>
            \/ steps = <<StoreStep(d), SourceStep("PointCallback")>>
      BY <1>1, <3>1, SwitchShapes, Zenon
    <3>3. Head(steps) = ResetFramerStep
      <4>1. CASE steps = <<ResetQueueStep, ResetFramerStep, StoreStep(d),
                           SourceStep("PointCallback")>>
        <5>1. Tail(steps) = <<ResetFramerStep, StoreStep(d), SourceStep("PointCallback")>>
          BY <4>1
        <5>2. \A x, y, z, v, w : <<x, y, z>> # <<v, w>>
          OBVIOUS
        <5> QED
          BY <1>1, <2>2, <5>1, <5>2, Zenon
      <4>2. CASE steps = <<ResetFramerStep, StoreStep(d), SourceStep("PointCallback")>>
        BY <4>2
      <4>3. CASE steps = <<StoreStep(d), SourceStep("PointCallback")>>
        <5>1. Tail(steps) = <<SourceStep("PointCallback")>>
          BY <4>3
        <5>2. \A x, v, w : <<x>> # <<v, w>>
          OBVIOUS
        <5> QED
          BY <1>1, <2>2, <5>1, <5>2, Zenon
      <4> QED
        BY <3>2, <4>1, <4>2, <4>3, Zenon
    <3>4. Head(steps).op = "resetFramer"
      BY <3>3 DEF ResetFramerStep
    <3> QED
      BY <3>4 DEF AppStep, ResetQueue, StoreCallback, SetSource, Enqueue, StepIs
  <2> QED
    BY <2>1, <2>2, Zenon
<1> QED
  BY <1>2, <1>3

\* A callback gets into the worker's hands by the copy of the installed one.
LEMMA MoveFacts ==
    ASSUME [Next]_vars, wpc' \in Using
    PROVE  \/ wpc \in Using /\ copied' = copied
           \/ wpc = "copy" /\ copied' = callback /\ callback' = callback /\ Still
<1>1. CASE UNCHANGED vars
  BY <1>1 DEF vars, worker
<1>2. CASE AppCall
  BY <1>2, AppCallFacts
<1>3. CASE AppStep
  BY <1>3, AppStepFacts
<1>4. CASE Begin
  <2>1. wpc' \in {"copy", "queue", "fail"}
    BY <1>4 DEF Begin, SnapshotSource
  <2> QED
    BY <2>1 DEF Using
<1>5. CASE Fail \/ FillFromQueue \/ CallCallback \/ Take \/ TakeNothing
  <2>1. wpc' = "idle"
    BY <1>5 DEF Fail, FillFromQueue, CallCallback, Take, TakeNothing, HandOver
  <2> QED
    BY <2>1 DEF Using
<1>6. CASE CopyCallback
  <2>1. wpc = "copy" /\ callback' = callback /\ Still
    BY <1>6 DEF CopyCallback, controller, framer, observed, Still
  <2>2. wpc' # "fail"
    BY DEF Using
  <2>3. copied' = callback
    BY <1>6, <2>2, Zenon DEF CopyCallback
  <2> QED
    BY <2>1, <2>3
<1>7. CASE \/ \E transport \in TransportLevels : LockFramer(transport)
           \/ \E batch \in 0 .. PullCount : Prepare(batch)
           \/ Prepared
  BY <1>7 DEF LockFramer, Prepare, Prepared, Using
<1> QED
  BY <1>1, <1>2, <1>3, <1>4, <1>5, <1>6, <1>7 DEF Next, WorkerStep

\* Points come from the points held, in their order, and then from the
\* callback the worker uses.
LEMMA PointFacts ==
    ASSUME IInv, [Next]_vars
    PROVE  /\ Len(Buffered) \in Nat /\ Len(Buffered') \in Nat
           /\ \E m \in Nat : \A i \in 1 .. Len(Buffered') :
                 \/ i + m \in 1 .. Len(Buffered) /\ (Buffered')[i] = Buffered[i + m]
                 \/ /\ i + m \notin 1 .. Len(Buffered)
                    /\ wpc = "prepare" /\ (Buffered')[i].src = copied
<1> DEFINE B == Buffered
           C == Buffered'
           b == Len(B)
<1>0. Framed /\ Conserved /\ Asking
  BY Zenon DEF IInv
<1>a. b \in Nat /\ given \in Nat /\ given + b = totalPointsConsumed
  BY <1>0, HeldFacts, Zenon DEF Conserved
<1>1. CASE Still
  <2>1. C = B
    BY <1>1, StillFacts, Zenon
  <2> HIDE DEF B, C
  <2>2. \A i \in 1 .. b : i + 0 \in 1 .. b /\ i + 0 = i
    BY <1>a
  <2>3. \A i \in 1 .. Len(C) : i + 0 \in 1 .. b /\ C[i] = B[i + 0]
    BY <2>1, <2>2, Zenon
  <2> QED
    BY <1>a, <2>1, <2>3, Zenon DEF B, C
<1>2. CASE \E batch \in 0 .. PullCount : Prepare(batch)
  <2>1. PICK batch \in 0 .. PullCount : Prepare(batch)
    BY <1>2
  <2>2. batch \in Nat
    BY <1>0, <2>1, PullFits, Zenon
  <2>3. totalPointsConsumed \in Nat /\ wpc = "prepare"
    BY <1>a, <2>1 DEF Prepare
  <2>4. /\ Len(C) = b + batch
        /\ \A i \in 1 .. b : C[i] = B[i]
        /\ \A i \in 1 .. batch : C[b + i] = [src |-> copied, n |-> totalPointsConsumed + i]
    BY <1>0, <2>1, <2>2, <2>3, PreparedFacts, Zenon
  <2> HIDE DEF B, C, b
  <2>5. \A i \in 1 .. Len(C) : \/ i + 0 \in 1 .. b /\ C[i] = B[i + 0]
                               \/ i + 0 \notin 1 .. b /\ C[i].src = copied
    <3> SUFFICES ASSUME NEW i \in 1 .. Len(C)
                 PROVE  \/ i + 0 \in 1 .. b /\ C[i] = B[i + 0]
                        \/ i + 0 \notin 1 .. b /\ C[i].src = copied
      OBVIOUS
    <3>1. CASE i <= b
      <4>1. i \in 1 .. b /\ i + 0 = i
        BY <1>a, <2>2, <2>4, <3>1
      <4> QED
        BY <2>4, <4>1, Zenon
    <3>2. CASE ~(i <= b)
      <4> DEFINE j == i - b
      <4>1. j \in 1 .. batch /\ b + j = i /\ i + 0 \notin 1 .. b
        BY <1>a, <2>2, <2>4, <3>2
      <4> HIDE DEF j
      <4>2. C[b + j] = [src |-> copied, n |-> totalPointsConsumed + j]
        BY <2>4, <4>1, Zenon
      <4>3. C[b + j].src = copied
        BY <4>2
      <4> QED
        BY <4>1, <4>3, Zenon
    <3> QED
      BY <3>1, <3>2
  <2>6. Len(C) \in Nat /\ 0 \in Nat
    BY <1>a, <2>2, <2>4
  <2> QED
    BY <1>a, <2>3, <2>5, <2>6, Zenon DEF B, C, b
<1>3. CASE Take
  <2> DEFINE m == Len(Head(preparedFrames))
  <2>1. /\ m \in 1 .. LargestFrame /\ b = m + Len(C) /\ Len(C) \in Nat
        /\ \A i \in 1 .. Len(C) : C[i] = B[i + m]
    BY <1>0, <1>3, TakenFacts, Zenon
  <2> HIDE DEF B, C, b, m
  <2>2. m \in Nat
    BY <2>1
  <2>3. \A i \in 1 .. Len(C) : i + m \in 1 .. b
    BY <2>1, <2>2
  <2> QED
    BY <1>a, <2>1, <2>2, <2>3, Zenon DEF B, C, b
<1>4. CASE ResetFramer
  <2>1. Len(C) = 0
    BY <1>4, ResetFacts, Zenon
  <2>2. 0 \in Nat /\ \A i \in 1 .. 0 : FALSE
    OBVIOUS
  <2> HIDE DEF C
  <2> QED
    BY <1>a, <2>1, <2>2, Zenon DEF C
<1> QED
  BY <1>1, <1>2, <1>3, <1>4, StepKinds, Zenon

\* What happens to the installed callback.
LEMMA CallbackFacts ==
    ASSUME IInv, [Next]_vars
    PROVE  \/ callback' = callback /\ overlapped' = overlapped
           \/ ResetFramer /\ callback' = callback /\ wpc' = wpc
           \/ callback' = NoCallback
           \/ /\ Still /\ wpc' = wpc /\ copied' = copied /\ overlapped' = overlapped
              /\ OneRequest
<1>0. Switched /\ Between
  BY Zenon DEF IInv
<1>1. CASE UNCHANGED vars
  BY <1>1 DEF vars, controller, observed
<1>2. CASE AppCall
  BY <1>2, AppCallFacts, Zenon
<1>3. CASE AppStep
  <2>0. wpc' = wpc /\ copied' = copied
    BY <1>3, AppStepFacts, Zenon
  <2>1. CASE ResetFramer
    BY <2>0, <2>1 DEF ResetFramer, controller
  <2>2. CASE StoreCallback
    <3>1. Still /\ overlapped' = overlapped
      BY <2>2 DEF StoreCallback, framer, observed, Still
    <3>2. CASE \E c \in Callbacks : steps = <<StoreStep(c), SourceStep("PointCallback")>>
      <4>1. OneRequest
        BY <1>0, <3>2, Zenon DEF Between
      <4> QED
        BY <2>0, <3>1, <4>1, Zenon
    <3> QED
      BY <1>0, <1>3, <3>1, <3>2, InstallFacts, Zenon
  <2>3. CASE ResetQueue \/ SetSource \/ Enqueue
    BY <2>3 DEF ResetQueue, SetSource, Enqueue, observed
  <2> QED
    BY <1>3, <2>1, <2>2, <2>3 DEF AppStep
<1>4. CASE Begin
  BY <1>4 DEF Begin, SnapshotSource, controller
<1>5. CASE WorkerStep
  BY <1>5, WorkerFacts, Zenon
<1> QED
  BY <1>1, <1>2, <1>3, <1>4, <1>5 DEF Next

\* An undisturbed reset leaves the framer to the installed callback.
LEMMA PureKept ==
    ASSUME IInv, [Next]_vars
    PROVE  Pure'
<1> DEFINE B == Buffered
           C == Buffered'
           b == Len(B)
           k == Len(C)
<1>0. Pure
  BY Zenon DEF IInv
<1>n. \A i \in 1 .. 0 : FALSE
  OBVIOUS
<1>u. "prepare" \in Using /\ "idle" \notin Using /\ "copy" \notin Using
  BY DEF Using
<1>1. CASE ResetFramer /\ callback' = callback /\ wpc' = wpc
  <2>1. overlapped' = (wpc # "idle") /\ k = 0
    BY <1>1, ResetFacts, Zenon DEF ResetFramer
  <2> HIDE DEF k
  <2> QED
    BY <1>1, <1>n, <1>u, <2>1, Zenon DEF Pure, k
<1>2. CASE callback' = NoCallback
  BY <1>2, Zenon DEF Pure
<1>3. CASE /\ Still /\ wpc' = wpc /\ copied' = copied /\ overlapped' = overlapped
           /\ OneRequest
  <2>1. C = B
    BY <1>3, StillFacts, Zenon
  <2>2. ~overlapped => wpc = "idle" /\ b = 0
    BY <1>3, Zenon DEF OneRequest
  <2> QED
    BY <1>3, <1>n, <1>u, <2>1, <2>2, Zenon DEF Pure
<1>4. CASE callback' = callback /\ overlapped' = overlapped
  <2> SUFFICES ASSUME ~overlapped, callback # NoCallback
               PROVE  /\ wpc' \in Using => copied' = callback
                      /\ \A i \in 1 .. k : C[i].src = callback
    BY <1>4, Zenon DEF Pure
  <2>1. wpc' \in Using => copied' = callback
    BY <1>0, MoveFacts, Zenon DEF Pure
  <2>2. PICK m \in Nat : \A i \in 1 .. k :
                 \/ i + m \in 1 .. b /\ C[i] = B[i + m]
                 \/ i + m \notin 1 .. b /\ wpc = "prepare" /\ C[i].src = copied
    BY PointFacts, Zenon
  <2>3. \A i \in 1 .. k : C[i].src = callback
    BY <1>0, <1>u, <2>2, Zenon DEF Pure
  <2> QED
    BY <2>1, <2>3
<1> QED
  BY <1>1, <1>2, <1>3, <1>4, CallbackFacts, Zenon

\* Stale points stay in front of the installed callback's.
LEMMA SortedKept ==
    ASSUME IInv, [Next]_vars
    PROVE  Sorted'
<1> DEFINE B == Buffered
           C == Buffered'
           b == Len(B)
           k == Len(C)
<1>0. Sorted
  BY Zenon DEF IInv
<1>n. \A i \in 1 .. 0 : FALSE
  OBVIOUS
<1>u. "prepare" \in Using
  BY DEF Using
<1>1. CASE ResetFramer /\ callback' = callback /\ wpc' = wpc
  <2>1. k = 0
    BY <1>1, ResetFacts, Zenon
  <2> HIDE DEF k
  <2> QED
    BY <1>n, <2>1, Zenon DEF Sorted, k
<1>2. CASE callback' = NoCallback
  BY <1>2, Zenon DEF Sorted
<1>3. CASE /\ Still /\ wpc' = wpc /\ copied' = copied /\ overlapped' = overlapped
           /\ OneRequest
  <2>1. C = B
    BY <1>3, StillFacts, Zenon
  <2>2. /\ \A i, j \in 1 .. b : B[i].src = B[j].src
        /\ wpc \in Using => \A i \in 1 .. b : B[i].src = copied
    BY <1>3, Zenon DEF OneRequest
  <2> HIDE DEF B, C
  <2>3. /\ wpc' \in Using /\ copied' # callback' => \A i \in 1 .. k : C[i].src # callback'
        /\ \A i, j \in 1 .. k : i < j /\ C[i].src = callback' => C[j].src = callback'
    BY <1>3, <2>1, <2>2, Zenon
  <2> QED
    BY <2>3, Zenon DEF Sorted, C
<1>4. CASE callback' = callback /\ overlapped' = overlapped
  <2> SUFFICES ASSUME callback # NoCallback
               PROVE  /\ wpc' \in Using /\ copied' # callback =>
                             \A i \in 1 .. k : C[i].src # callback
                      /\ \A i, j \in 1 .. k :
                             i < j /\ C[i].src = callback => C[j].src = callback
    BY <1>4, Zenon DEF Sorted
  <2>0. b \in Nat /\ k \in Nat
    BY PointFacts, Zenon
  <2>1. /\ wpc \in Using /\ copied # callback => \A i \in 1 .. b : B[i].src # callback
        /\ \A i, j \in 1 .. b : i < j /\ B[i].src = callback => B[j].src = callback
    BY <1>0, Zenon DEF Sorted
  <2>2. PICK m \in Nat : \A i \in 1 .. k :
                 \/ i + m \in 1 .. b /\ C[i] = B[i + m]
                 \/ i + m \notin 1 .. b /\ wpc = "prepare" /\ C[i].src = copied
    BY PointFacts, Zenon
  <2>3. wpc' \in Using /\ copied' # callback => wpc \in Using /\ copied # callback
    BY MoveFacts, Zenon
  <2> HIDE DEF B, C, b, k
  <2>4. wpc' \in Using /\ copied' # callback => \A i \in 1 .. k : C[i].src # callback
    BY <2>1, <2>2, <2>3, Zenon
  <2>5. ASSUME NEW i \in 1 .. k, NEW j \in 1 .. k, i < j, C[i].src = callback
        PROVE  C[j].src = callback
    <3>1. i + m < j + m /\ (j + m \in 1 .. b => i + m \in 1 .. b)
      BY <2>0, <2>5
    <3>2. CASE j + m \in 1 .. b
      BY <2>1, <2>2, <2>5, <3>1, <3>2, Zenon
    <3>3. CASE j + m \notin 1 .. b
      <4>1. wpc \in Using /\ C[j].src = copied
        BY <1>u, <2>2, <3>3, Zenon
      <4>2. CASE i + m \in 1 .. b
        BY <2>1, <2>2, <2>5, <4>1, <4>2, Zenon
      <4>3. CASE i + m \notin 1 .. b
        BY <2>2, <2>5, <4>1, <4>3, Zenon
      <4> QED
        BY <4>2, <4>3
    <3> QED
      BY <3>2, <3>3
  <2> QED
    BY <2>4, <2>5, Zenon
<1> QED
  BY <1>1, <1>2, <1>3, <1>4, CallbackFacts, Zenon

\* At most one request runs between the reset and the store.
LEMMA BetweenKept ==
    ASSUME IInv, [Next]_vars
    PROVE  Between'
<1> DEFINE B == Buffered
           C == Buffered'
           b == Len(B)
           k == Len(C)
<1> SUFFICES ASSUME NEW c \in Callbacks,
                    steps' = <<StoreStep(c), SourceStep("PointCallback")>>
             PROVE  OneRequest'
  BY Zenon DEF Between
<1>0. Switched /\ Between
  BY Zenon DEF IInv
<1>n. \A i \in 1 .. 0 : FALSE
  OBVIOUS
<1>e. \A x, y : <<x, y>> # <<>>
  OBVIOUS
<1>1. CASE UNCHANGED vars
  <2>1. steps' = steps /\ overlapped' = overlapped /\ wpc' = wpc /\ copied' = copied /\ Still
    BY <1>1 DEF vars, worker, framer, observed, Still
  <2>2. OneRequest
    BY <1>0, <2>1, Zenon DEF Between
  <2>3. Buffered' = Buffered
    BY <2>1, StillFacts, Zenon
  <2> QED
    BY <2>1, <2>2, <2>3, Zenon DEF OneRequest
<1>2. CASE AppCall
  BY <1>0, <1>2, SwitchCall, Zenon
<1>3. CASE AppStep
  <2>1. ResetFramer
    BY <1>0, <1>3, InstallFacts, Zenon
  <2>2. overlapped' = (wpc # "idle") /\ wpc' = wpc /\ k = 0
    BY <1>3, <2>1, AppStepFacts, ResetFacts, Zenon DEF ResetFramer
  <2> HIDE DEF k
  <2> QED
    BY <1>n, <2>2, Zenon DEF OneRequest, k
<1>4. CASE Begin
  <2>1. steps' = <<>>
    BY <1>4 DEF Begin, SnapshotSource
  <2> QED
    BY <1>e, <2>1, Zenon
<1>5. CASE WorkerStep
  <2>1. steps' = steps /\ overlapped' = overlapped
    BY <1>5, WorkerFacts, Zenon
  <2>2. OneRequest
    BY <1>0, <2>1, Zenon DEF Between
  <2>3. wpc # "idle" /\ wpc' # "copy"
    <3>1. CASE Fail \/ FillFromQueue \/ CallCallback \/ Take \/ TakeNothing
      BY <3>1 DEF Fail, FillFromQueue, CallCallback, Take, TakeNothing, HandOver
    <3>2. CASE CopyCallback
      <4>1. wpc = "copy" /\ wpc' \in {"fail", "call", "lock"}
        BY <3>2 DEF CopyCallback
      <4> QED
        BY <4>1
    <3>3. CASE \/ \E transport \in TransportLevels : LockFramer(transport)
               \/ \E batch \in 0 .. PullCount : Prepare(batch)
               \/ Prepared
      BY <3>3 DEF LockFramer, Prepare, Prepared
    <3> QED
      BY <1>5, <3>1, <3>2, <3>3 DEF WorkerStep
  <2>4. /\ overlapped
        /\ \A i, j \in 1 .. b : B[i].src = B[j].src
        /\ wpc \in Using => \A i \in 1 .. b : B[i].src = copied
        /\ wpc = "copy" => b = 0
    BY <2>2, <2>3, Zenon DEF OneRequest
  <2>5. PICK m \in Nat : \A i \in 1 .. k :
                 \/ i + m \in 1 .. b /\ C[i] = B[i + m]
                 \/ i + m \notin 1 .. b /\ wpc = "prepare" /\ C[i].src = copied
    BY PointFacts, Zenon
  <2>u. "prepare" \in Using
    BY DEF Using
  <2> HIDE DEF B, C, b, k
  <2>6. wpc \in Using => \A i \in 1 .. k : C[i].src = copied
    BY <2>4, <2>5, Zenon
  <2>7. \A i, j \in 1 .. k : C[i].src = C[j].src
    <3>1. CASE wpc \in Using
      BY <2>6, <3>1, Zenon
    <3>2. CASE wpc \notin Using
      BY <2>4, <2>5, <2>u, <3>2, Zenon
    <3> QED
      BY <3>1, <3>2
  <2>8. wpc' \in Using => \A i \in 1 .. k : C[i].src = copied'
    <3> SUFFICES ASSUME wpc' \in Using PROVE \A i \in 1 .. k : C[i].src = copied'
      OBVIOUS
    <3>1. CASE wpc \in Using /\ copied' = copied
      BY <2>6, <3>1, Zenon
    <3>2. CASE wpc = "copy" /\ Still
      <4>1. k = 0
        BY <2>4, <3>2, StillFacts, Zenon DEF B, C, b, k
      <4> QED
        BY <1>n, <4>1, Zenon
    <3> QED
      BY <3>1, <3>2, MoveFacts, Zenon
  <2> QED
    BY <2>1, <2>3, <2>4, <2>7, <2>8, Zenon DEF OneRequest, C, k
<1> QED
  BY <1>1, <1>2, <1>3, <1>4, <1>5 DEF Next

-----------------------------------------------------------------------------
(* The theorems.                                                            *)

\* The invariant holds before the first call.
LEMMA InitIInv ==
    ASSUME Init
    PROVE  IInv
<1>1. /\ accumulator = <<>> /\ preparedFrames = <<>> /\ preparedPointCount = 0
      /\ sizes = NoSizes /\ forceEmits = 0 /\ totalPointsConsumed = 0
      /\ activeSource = "None" /\ callback = NoCallback /\ queue = 0 /\ steps = <<>>
      /\ wpc = "idle" /\ req = NoRequest /\ copied = NoCallback
      /\ out = Nothing /\ fresh = FALSE /\ overlapped = FALSE /\ given = 0
  BY DEF Init, FramerInit
<1>2. Held = <<>> /\ Buffered = <<>> /\ Len(Buffered) = 0 /\ Len(Held) = 0
  <2>1. FlattenSeq(<<>>) = <<>>
    BY Zenon DEF FlattenSeq
  <2>2. <<>> \o <<>> = <<>> /\ Len(<<>>) = 0
    OBVIOUS
  <2> QED
    BY <1>1, <2>1, <2>2, Zenon DEF Held, Buffered
<1>3. /\ 0 \in Nat /\ 0 + 0 = 0 /\ 0 <= 2 /\ 0 \in 0 .. 3 /\ \A i \in 1 .. 0 : FALSE
  OBVIOUS
<1>4. Framed
  <2>1. <<>> \in Seq(Pts) /\ <<>> \in Seq(Seq(Pts)) /\ Len(<<>>) = 0
    BY EmptySeq
  <2> QED
    BY <1>1, <1>3, <2>1, Zenon DEF Framed, DesiredReadyFrames, FallbackCount
<1>5. Conserved
  BY <1>1, <1>2, <1>3, Zenon DEF Conserved
<1>6. Limited
  <2>1. 0 <= PrefetchLimit /\ 0 <= MaxConsumed + PrefetchLimit /\ 0 <= MaxConsumed
    BY LargestFrameFacts, ContentAssumption
  <2> QED
    BY <1>1, <1>2, <2>1, Zenon DEF Limited
<1>7. Asking
  BY <1>1 DEF Asking, Using, NoSizes
<1>8. Switched
  BY <1>1, ContentAssumption DEF Switched, Agree
<1>9. Current
  <2>1. ~out.fresh
    BY <1>1 DEF Nothing
  <2> QED
    BY <1>1, <2>1, Zenon DEF Current, SourceExclusive
<1>10. Pure /\ Sorted
  BY <1>1, Zenon DEF Pure, Sorted
<1>11. Between
  <2>1. \A x, y : <<x, y>> # <<>>
    OBVIOUS
  <2> QED
    BY <1>1, <2>1, Zenon DEF Between
<1> QED
  BY <1>4, <1>5, <1>6, <1>7, <1>8, <1>9, <1>10, <1>11, Zenon DEF IInv

\* The inductive invariant.
LEMMA IInvHolds ==
    Spec => []IInv
<1>1. Init => IInv
  BY InitIInv
<1>2. IInv /\ [Next]_vars => IInv'
  BY FramedKept, ConservedKept, LimitedKept, AskingKept, SwitchedKept, CurrentKept, PureKept,
     SortedKept, BetweenKept, Zenon DEF IInv
<1> QED
  BY <1>1, <1>2, PTL DEF Spec

\* Every point the framer holds is one of the points held in Buffered.
LEMMA HeldPoints ==
    ASSUME IInv
    PROVE  LET P == [src : Callbacks, n : 1 .. MaxConsumed + PrefetchLimit]
           IN  /\ accumulator \in Seq(P)
               /\ \A i \in 1 .. Len(preparedFrames) : preparedFrames[i] \in Seq(P)
<1> DEFINE P == [src : Callbacks, n : 1 .. MaxConsumed + PrefetchLimit]
           a == accumulator
           f == preparedFrames
           M == MaxConsumed + PrefetchLimit
           b == Len(Buffered)
           h == Len(Held)
<1>1. Framed /\ Conserved /\ Limited
  BY Zenon DEF IInv
<1>2. /\ Held \in Seq(Pts) /\ Buffered \in Seq(Pts) /\ h \in Nat /\ Len(a) \in Nat /\ b \in Nat
      /\ b = h + Len(a) /\ Len(f) \in 0 .. 2
  BY <1>1, HeldFacts, Zenon
<1>3. /\ given \in Nat /\ given + b = totalPointsConsumed
      /\ \A i \in 1 .. b : Buffered[i].n = given + i
      /\ totalPointsConsumed <= M
  BY <1>1, Zenon DEF Conserved, Limited
<1>4. M \in Nat
  BY LargestFrameFacts, ContentAssumption
<1>5. \A i \in 1 .. b : Buffered[i] \in P
  <2> SUFFICES ASSUME NEW i \in 1 .. b PROVE Buffered[i] \in P
    OBVIOUS
  <2>1. Buffered[i] \in Pts
    BY <1>2, ElementOfSeq, Zenon
  <2>2. Buffered[i].n = given + i
    BY <1>3
  <2> HIDE DEF b, M
  <2>3. given + i \in 1 .. M
    BY <1>2, <1>3, <1>4
  <2> QED
    BY <2>1, <2>2, <2>3 DEF Pts, M
<1> HIDE DEF P
<1>6. \A s \in Seq(Pts) : (\A i \in 1 .. Len(s) : s[i] \in P) => s \in Seq(P)
  <2> SUFFICES ASSUME NEW s \in Seq(Pts), \A i \in 1 .. Len(s) : s[i] \in P PROVE s \in Seq(P)
    OBVIOUS
  <2>1. Len(s) \in Nat /\ s \in [1 .. Len(s) -> Pts]
    BY LenProperties, Zenon
  <2>2. s \in [1 .. Len(s) -> P]
    BY <2>1
  <2> QED
    BY <2>1, <2>2, IsASeq
<1>t. \A s, t \in Seq(Pts) :
         /\ s \o t \in Seq(Pts) /\ Len(s) \in Nat /\ Len(t) \in Nat
         /\ Len(s \o t) = Len(s) + Len(t)
         /\ \A i \in 1 .. Len(s) : (s \o t)[i] = s[i]
         /\ \A i \in 1 .. Len(t) : (s \o t)[Len(s) + i] = t[i]
         /\ \A i \in 1 .. Len(t) : (s \o t)[i + Len(s)] = t[i]
  BY TwoFacts
<1>w. \A s, t \in Seq(Pts) :
         (\A i \in 1 .. Len(s \o t) : (s \o t)[i] \in P) =>
            /\ \A i \in 1 .. Len(s) : s[i] \in P
            /\ \A i \in 1 .. Len(t) : t[i] \in P
  <2> SUFFICES ASSUME NEW s \in Seq(Pts), NEW t \in Seq(Pts),
                      \A i \in 1 .. Len(s \o t) : (s \o t)[i] \in P
               PROVE  /\ \A i \in 1 .. Len(s) : s[i] \in P
                      /\ \A i \in 1 .. Len(t) : t[i] \in P
    OBVIOUS
  <2> DEFINE w == s \o t
             m == Len(s)
             n == Len(t)
  <2>1. /\ m \in Nat /\ n \in Nat /\ Len(w) = m + n
        /\ \A i \in 1 .. m : w[i] = s[i]
        /\ \A i \in 1 .. n : w[m + i] = t[i]
        /\ \A i \in 1 .. Len(w) : w[i] \in P
    BY <1>t, Zenon
  <2> HIDE DEF w, m, n
  <2>2. \A i \in 1 .. m : i \in 1 .. Len(w)
    BY <2>1
  <2>3. \A i \in 1 .. n : m + i \in 1 .. Len(w)
    BY <2>1
  <2>4. /\ \A i \in 1 .. m : s[i] \in P
        /\ \A i \in 1 .. n : t[i] \in P
    BY <2>1, <2>2, <2>3, Zenon
  <2> QED
    BY <2>4 DEF m, n
<1>7. a \in Seq(Pts) /\ f \in Seq(Seq(Pts)) /\ Len(f) <= 2
  BY <1>1, Zenon DEF Framed, DesiredReadyFrames
<1>8. /\ \A i \in 1 .. Len(Held) : Held[i] \in P
      /\ \A i \in 1 .. Len(a) : a[i] \in P
  <2>1. Buffered = Held \o a
    BY Zenon DEF Buffered, Held
  <2> QED
    BY <1>2, <1>5, <1>7, <1>w, <2>1, Zenon
<1>9. a \in Seq(P)
  BY <1>6, <1>7, <1>8, Zenon
<1>10. \A i \in 1 .. Len(f) : f[i] \in Seq(P)
  <2> DEFINE n == Len(f)
  <2>0. \A i \in 1 .. n : f[i] \in Seq(Pts)
    BY <1>7, PairFacts, Zenon
  <2>n. n = 0 \/ n = 1 \/ n = 2
    BY <1>2
  <2> SUFFICES \A i \in 1 .. n : f[i] \in Seq(P)
    OBVIOUS
  <2> HIDE DEF n
  <2>1. CASE n = 0
    BY <2>1
  <2>2. CASE n = 1
    <3>1. Held = f[1]
      BY <1>7, <2>2, FlatOf, Zenon DEF Held, n
    <3>2. f[1] \in Seq(P)
      BY <1>2, <1>6, <1>8, <3>1, Zenon
    <3>3. \A i \in 1 .. n : i = 1
      BY <2>2
    <3> QED
      BY <3>2, <3>3, Zenon
  <2>3. CASE n = 2
    <3>1. Held = f[1] \o f[2]
      BY <1>7, <2>3, FlatOf, Zenon DEF Held, n
    <3>2. 1 \in 1 .. n /\ 2 \in 1 .. n /\ \A i \in 1 .. n : i = 1 \/ i = 2
      BY <2>3
    <3>3. f[1] \in Seq(Pts) /\ f[2] \in Seq(Pts)
      BY <2>0, <3>2, Zenon
    <3>4. (\A i \in 1 .. Len(f[1]) : f[1][i] \in P) /\ (\A i \in 1 .. Len(f[2]) : f[2][i] \in P)
      BY <1>8, <1>w, <3>1, <3>3, Zenon
    <3>5. f[1] \in Seq(P) /\ f[2] \in Seq(P)
      BY <1>6, <3>3, <3>4, Zenon
    <3> QED
      BY <3>2, <3>5, Zenon
  <2> QED
    BY <2>n, <2>1, <2>2, <2>3, Zenon
<1> QED
  BY <1>9, <1>10, Zenon DEF P

-----------------------------------------------------------------------------
(* The theorems.                                                            *)

\* No call is switching the source: the slots agree with it.
LEMMA AtRest ==
    ASSUME IInv, steps = <<>>
    PROVE  Agree
<1>1. \A a, b, c, d : /\ <<>> # <<a>> /\ <<>> # <<a, b>>
                      /\ <<>> # <<a, b, c>> /\ <<>> # <<a, b, c, d>>
  OBVIOUS
<1>2. Switched
  BY Zenon DEF IInv
<1> QED
  BY <1>1, <1>2, Zenon DEF Switched

\* What Buffered and preparedFrames are indexed by.
LEMMA Indices ==
    ASSUME IInv
    PROVE  /\ DOMAIN Buffered = 1 .. Len(Buffered)
           /\ DOMAIN preparedFrames = 1 .. Len(preparedFrames)
<1>1. Framed
  BY Zenon DEF IInv
<1>2. Buffered \in Seq(Pts) /\ preparedFrames \in Seq(Seq(Pts))
  BY <1>1, HeldFacts, Zenon DEF Framed
<1> QED
  BY <1>2, LenProperties, Zenon

\* Every variable of the content source keeps its type; prepared frames are
\* never empty nor larger than the largest request, the callback and queue
\* slots agree with activeSource between switching calls, and the prefetch
\* stays bounded however requests change their sizes (PointStreamFramer.cpp
\* ensurePreparedFrames, LaserController.cpp setPointCallback).
THEOREM TypeCorrect == Spec => []TypeOK
<1>1. IInv => TypeOK
  <2> SUFFICES ASSUME IInv PROVE TypeOK
    OBVIOUS
  <2> DEFINE P == [src : Callbacks, n : 1 .. MaxConsumed + PrefetchLimit]
  <2>1. Framed /\ Conserved /\ Limited /\ Asking /\ Switched
    BY Zenon DEF IInv
  <2>2. /\ accumulator \in Seq(P)
        /\ \A i \in 1 .. Len(preparedFrames) : preparedFrames[i] \in Seq(P)
    BY HeldPoints, Zenon
  <2> HIDE DEF P
  <2>3. /\ accumulator \in Seq(P)
        /\ \A i \in DOMAIN preparedFrames :
              preparedFrames[i] \in Seq(P) /\ Len(preparedFrames[i]) \in 1 .. LargestFrame
        /\ Len(preparedFrames) <= DesiredReadyFrames
        /\ forceEmits \in 0 .. FallbackCount
    BY <2>1, <2>2, Indices, Zenon DEF Framed
  <2>4. SlotsFollowSource
    <3>1. steps = <<>> => Agree
      BY AtRest, Zenon
    <3> QED
      BY <3>1, Zenon DEF SlotsFollowSource, Agree
  <2>5. PrefetchBounded
    BY <2>1, Zenon DEF PrefetchBounded, Limited
  <2>6. preparedPointCount \in Nat
    <3>1. Len(Held) \in Nat
      BY <2>1, HeldFacts, Zenon
    <3> QED
      BY <2>1, <3>1, Zenon DEF Conserved
  <2>7. /\ activeSource \in {"None", "PointCallback", "FrameQueue"}
        /\ callback \in Callbacks \cup {NoCallback}
        /\ copied \in Callbacks \cup {NoCallback}
        /\ queue \in 0 .. MaxQueue
    BY <2>1, Zenon DEF Switched, Asking
  <2>8. wpc \in {"idle", "fail", "queue", "copy", "call", "lock", "prepare", "take"}
    BY <2>1 DEF Asking, Using
  <2> QED
    BY <2>3, <2>4, <2>5, <2>6, <2>7, <2>8, Zenon DEF TypeOK, P
<1> QED
  BY <1>1, IInvHolds, PTL

\* A request during which no switch began takes its points from the active
\* source, through the installed callback (LaserController.cpp requestPoints and
\* requestFrame, which copy the callback before they call it).
THEOREM SourcesExclusive == Spec => []SourceExclusive
<1>1. IInv => SourceExclusive
  BY Zenon DEF IInv, Current
<1> QED
  BY <1>1, IInvHolds, PTL

\* After setPointCallback only a request that ran during its reset can leave
\* points of the old callback in the framer, and they all come out before the
\* first point of the new one (PointStreamFramer.cpp reset).
THEOREM StaleComesFirst == Spec => []StalePointsFirst
<1>1. IInv => StalePointsFirst
  <2> SUFFICES ASSUME IInv, steps = <<>>, activeSource = "PointCallback"
               PROVE  /\ ~overlapped =>
                            \A i \in DOMAIN Buffered : Buffered[i].src = callback
                      /\ \A i, j \in DOMAIN Buffered :
                            i < j /\ Buffered[i].src = callback => Buffered[j].src = callback
    BY Zenon DEF StalePointsFirst
  <2>1. callback # NoCallback
    BY AtRest, Zenon DEF Agree
  <2>2. Pure /\ Sorted
    BY Zenon DEF IInv
  <2> QED
    BY <2>1, <2>2, Indices, Zenon DEF Pure, Sorted
<1> QED
  BY <1>1, IInvHolds, PTL

\* Cutting the stream into frames loses nothing, repeats nothing and keeps the
\* order, and preparedPointCount counts what preparedFrames holds
\* (PointStreamFramer.cpp extractFrame, extractOneFrame, pullPoints).
THEOREM NothingLost == Spec => []StreamConserved
<1>1. IInv => StreamConserved
  <2> SUFFICES ASSUME IInv PROVE StreamConserved
    OBVIOUS
  <2>1. Conserved
    BY Zenon DEF IInv
  <2> QED
    BY <2>1, Indices, Zenon DEF Conserved, StreamConserved, Held
<1> QED
  BY <1>1, IInvHolds, PTL
=============================================================================
