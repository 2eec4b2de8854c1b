------------------------ MODULE OutputPipelineProofs ------------------------
(***************************************************************************)
(* Theorems about OutputPipeline, for every set of positions, sync times   *)
(* and rates and every batch size.                                         *)
(***************************************************************************)
EXTENDS OutputPipeline, TLAPS

\* A function on 1..n is a sequence of length n.
LEMMA FunctionIsSequence ==
    ASSUME NEW S, NEW n \in Nat, NEW f \in [1 .. n -> S]
    PROVE  f \in Seq(S) /\ Len(f) = n /\ DOMAIN f = 1 .. n
BY SMT

\* A sequence is a function on 1..Len.
LEMMA SequenceIsFunction ==
    ASSUME NEW S, NEW s \in Seq(S)
    PROVE  Len(s) \in Nat /\ s \in [1 .. Len(s) -> S] /\ DOMAIN s = 1 .. Len(s)
BY SMT

\* What the settings allow: a shift, a dwell and a hold within their bounds.
LEMMA SettingsBound ==
    ASSUME NEW t \in 0 .. MaxSync, NEW r \in 0 .. MaxRate
    PROVE  /\ MaxShift \in Nat /\ MaxHold \in Nat /\ MaxRate <= MaxHold
           /\ MaxShift <= MaxHold
           /\ t * r \in 0 .. MaxShift
           /\ 0 * r = 0 /\ 1 * r \in 0 .. MaxRate
           /\ t * r + 1 * r \in 0 .. MaxHold
           /\ 0 * r + 1 * r \in 0 .. MaxHold
<1>. MaxSync \in Nat /\ MaxRate \in Nat
  BY PipelineAssumption
<1>1. t * r <= MaxSync * r
  BY SMT
<1>2. MaxSync * r <= MaxSync * MaxRate
  BY SMT
<1>3. t * r \in Nat /\ MaxSync * MaxRate \in Nat /\ MaxSync * r \in Nat
  BY SMT
<1>4. 0 * r = 0 /\ 1 * r = r
  BY SMT
<1>. QED
  BY <1>1, <1>2, <1>3, <1>4, SMT DEF MaxShift, MaxHold

(***************************************************************************)
(* What the helpers return.                                                *)
(***************************************************************************)
\* A dark batch.
Dark(points) == \A i \in DOMAIN points : points[i].rgb = "dark"

\* The startup loop keeps the length of a batch.
LEMMA BlankFirstType ==
    ASSUME NEW points \in Seq(Point), NEW n \in Nat
    PROVE  /\ BlankFirst(points, n) \in Seq(Point)
           /\ Len(BlankFirst(points, n)) = Len(points)
<1>1. points \in [1 .. Len(points) -> Point] /\ Len(points) \in Nat
  BY SequenceIsFunction
<1>2. BlankFirst(points, n) \in [1 .. Len(points) -> Point]
  BY <1>1 DEF BlankFirst, Point, Colour
<1>. QED
  BY <1>1, <1>2, FunctionIsSequence

\* The disarmed loop keeps the length and leaves no lit point.
LEMMA HoldThenParkType ==
    ASSUME NEW points \in Seq(Point), NEW n \in Nat,
           lastContent \in Positions \cup {Centre}
    PROVE  /\ HoldThenPark(points, n) \in Seq(Point)
           /\ Len(HoldThenPark(points, n)) = Len(points)
           /\ Dark(HoldThenPark(points, n))
<1>1. points \in [1 .. Len(points) -> Point] /\ Len(points) \in Nat
  BY SequenceIsFunction
<1>2. HoldThenPark(points, n) \in [1 .. Len(points) -> Point]
  BY <1>1 DEF HoldThenPark, Point, Colour
<1>3. Dark(HoldThenPark(points, n))
  BY <1>1 DEF HoldThenPark, Dark
<1>. QED
  BY <1>1, <1>2, <1>3, FunctionIsSequence

\* Resizing keeps a prefix and fills with dark colours.
LEMMA ResizeType ==
    ASSUME NEW line \in Seq(Colour), NEW n \in Nat
    PROVE  /\ Resize(line, n) \in Seq(Colour)
           /\ Len(Resize(line, n)) = n
           /\ \A i \in 1 .. n :
                  Resize(line, n)[i] = "lit" => i \in DOMAIN line /\ line[i] = "lit"
<1>1. line \in [1 .. Len(line) -> Colour] /\ Len(line) \in Nat
      /\ DOMAIN line = 1 .. Len(line)
  BY SequenceIsFunction
<1>2. Resize(line, n) \in [1 .. n -> Colour]
  BY <1>1 DEF Resize, Colour
<1>3. ASSUME NEW i \in 1 .. n, Resize(line, n)[i] = "lit"
      PROVE  i \in DOMAIN line /\ line[i] = "lit"
  BY <1>1, <1>3 DEF Resize, Colour
<1>. QED
  BY <1>2, <1>3, FunctionIsSequence

\* The delay keeps the length of the batch and of the line.
LEMMA DelayType ==
    ASSUME NEW line \in Seq(Colour), NEW points \in Seq(Point)
    PROVE  /\ DelayedPoints(line, points) \in Seq(Point)
           /\ Len(DelayedPoints(line, points)) = Len(points)
           /\ DelayedLine(line, points) \in Seq(Colour)
           /\ Len(DelayedLine(line, points)) = Len(line)
<1>1. /\ line \in [1 .. Len(line) -> Colour] /\ Len(line) \in Nat
      /\ DOMAIN line = 1 .. Len(line)
  BY SequenceIsFunction
<1>2. /\ points \in [1 .. Len(points) -> Point] /\ Len(points) \in Nat
      /\ DOMAIN points = 1 .. Len(points)
  BY SequenceIsFunction
<1>3. ASSUME NEW i \in 1 .. (Len(line) + Len(points))
      PROVE  Queued(line, points, i) \in Colour
  <2>1. CASE i <= Len(line)
    BY <2>1, <1>1, <1>2 DEF Queued, Colour
  <2>2. CASE i > Len(line)
    <3>1. i - Len(line) \in 1 .. Len(points)
      BY <2>2, <1>1, <1>2
    <3>2. points[i - Len(line)].rgb \in Colour
      BY <3>1, <1>2 DEF Point
    <3>. QED
      BY <2>2, <3>2, <1>1 DEF Queued, Colour
  <2>. QED
    BY <2>1, <2>2, <1>1, <1>2
<1>4. DelayedPoints(line, points) \in [1 .. Len(points) -> Point]
  <2>1. ASSUME NEW i \in 1 .. Len(points)
        PROVE  [points[i] EXCEPT !.rgb = Queued(line, points, i)] \in Point
    <3>1. Queued(line, points, i) \in Colour
      BY <1>1, <1>2, <1>3
    <3>. QED
      BY <3>1, <1>2 DEF Point
  <2>. QED
    BY <2>1, <1>2 DEF DelayedPoints
<1>5. DelayedLine(line, points) \in [1 .. Len(line) -> Colour]
  <2>1. ASSUME NEW i \in 1 .. Len(line)
        PROVE  Queued(line, points, Len(points) + i) \in Colour
    BY <1>1, <1>2, <1>3
  <2>. QED
    BY <2>1, <1>1 DEF DelayedLine
<1>. QED
  BY <1>1, <1>2, <1>4, <1>5, FunctionIsSequence

\* Through the delay, a dark batch shows and leaves only what was in the
\* line, moved forward by the length of the batch.
LEMMA DelayOfDark ==
    ASSUME NEW line \in Seq(Colour), NEW points \in Seq(Point), Dark(points)
    PROVE  /\ \A i \in 1 .. Len(points) :
                  DelayedPoints(line, points)[i].rgb = "lit" =>
                      i \in 1 .. Len(line) /\ line[i] = "lit"
           /\ \A i \in 1 .. Len(line) :
                  DelayedLine(line, points)[i] = "lit" =>
                      Len(points) + i \in 1 .. Len(line) /\ line[Len(points) + i] = "lit"
<1>1. /\ line \in [1 .. Len(line) -> Colour] /\ Len(line) \in Nat
      /\ DOMAIN line = 1 .. Len(line)
  BY SequenceIsFunction
<1>2. /\ points \in [1 .. Len(points) -> Point] /\ Len(points) \in Nat
      /\ DOMAIN points = 1 .. Len(points)
  BY SequenceIsFunction
<1>3. ASSUME NEW i \in 1 .. (Len(line) + Len(points)), Queued(line, points, i) = "lit"
      PROVE  i \in 1 .. Len(line) /\ line[i] = "lit"
  <2>1. CASE i <= Len(line)
    BY <2>1, <1>1, <1>2, <1>3 DEF Queued, Colour
  <2>2. CASE i > Len(line)
    <3>1. i - Len(line) \in 1 .. Len(points)
      BY <2>2, <1>1, <1>2
    <3>2. points[i - Len(line)].rgb = "dark"
      BY <3>1, <1>2 DEF Dark
    <3>. QED
      BY <2>2, <3>2, <1>1, <1>3 DEF Queued, Colour
  <2>. QED
    BY <2>1, <2>2, <1>1, <1>2
<1>4. ASSUME NEW i \in 1 .. Len(points), DelayedPoints(line, points)[i].rgb = "lit"
      PROVE  i \in 1 .. Len(line) /\ line[i] = "lit"
  <2>1. DelayedPoints(line, points)[i].rgb = Queued(line, points, i)
    BY <1>2 DEF DelayedPoints, Point, Colour
  <2>2. i \in 1 .. (Len(line) + Len(points))
    BY <1>1, <1>2
  <2>. QED
    BY <2>1, <2>2, <1>3, <1>4
<1>5. ASSUME NEW i \in 1 .. Len(line), DelayedLine(line, points)[i] = "lit"
      PROVE  Len(points) + i \in 1 .. Len(line) /\ line[Len(points) + i] = "lit"
  <2>1. DelayedLine(line, points)[i] = Queued(line, points, Len(points) + i)
    BY <1>1 DEF DelayedLine
  <2>2. Len(points) + i \in 1 .. (Len(line) + Len(points))
    BY <1>1, <1>2
  <2>. QED
    BY <2>1, <2>2, <1>3, <1>5
<1>. QED
  BY <1>4, <1>5

(***************************************************************************)
(* Type correctness.                                                       *)
(***************************************************************************)
\* TypeOK is an invariant: no order of setter steps and worker steps takes a
\* counter, the delay line or a batch out of the range the code intends.
THEOREM TypeCorrect == Spec => []TypeOK
<1>1. MaxShift \in Nat /\ MaxHold \in Nat /\ MaxRate \in Nat
      /\ MaxRate <= MaxHold /\ MaxShift <= MaxHold /\ MaxBatch \in Nat
  BY PipelineAssumption, SettingsBound
<1>0. <<>> \in Seq(Point) /\ <<>> \in Seq(Colour) /\ Len(<<>>) = 0
  OBVIOUS
<1>a. NoOutput \in [points : Seq(Point), fresh : BOOLEAN, from : 0 .. MaxHold]
  BY <1>0, <1>1 DEF NoOutput
<1>2. Init => TypeOK
  <2>. SUFFICES ASSUME Init PROVE TypeOK
    OBVIOUS
  <2>1. /\ armed \in BOOLEAN /\ syncEnabled \in BOOLEAN
        /\ suppressed \in BOOLEAN /\ overlapped \in BOOLEAN
        /\ fresh \in BOOLEAN
    BY Zenon DEF Init
  <2>. QED
    BY <1>0, <1>a, <1>1, <2>1, PipelineAssumption DEF Init, TypeOK, LargestLoad
<1>3. TypeOK /\ [Next]_vars => TypeOK'
  <2>. SUFFICES ASSUME TypeOK, [Next]_vars PROVE TypeOK'
    OBVIOUS
  <2>. USE <1>1 DEF TypeOK, LargestLoad
  <2>0. /\ MillisToPoints(1) \in 0 .. MaxRate
        /\ MillisToPoints(syncTime) \in 0 .. MaxShift
        /\ MillisToPoints(syncTime) + MillisToPoints(1) \in 0 .. MaxHold
        /\ MillisToPoints(0) + MillisToPoints(1) \in 0 .. MaxHold
    BY PipelineAssumption, SettingsBound DEF MillisToPoints
  <2>1. ASSUME NEW state \in BOOLEAN, SetArmed(state) PROVE TypeOK'
    <3>1. armed' \in BOOLEAN
      BY <2>1 DEF SetArmed
    <3>2. /\ overlapped' \in BOOLEAN
          /\ fresh' \in BOOLEAN
          /\ sinceSwitch' \in 0 .. MaxHold /\ owed' \in 0 .. MaxHold
          /\ out' \in [points : Seq(Point), fresh : BOOLEAN, from : 0 .. MaxHold]
          /\ appPc' \in {"idle", "startup", "shutdown", "clearArm", "clearSync"}
      <4>1. CASE state = armed
        BY <2>1, <4>1 DEF SetArmed, observed
      <4>2. CASE state # armed
        <5>1. fresh' \in BOOLEAN
          BY <2>1, <4>2, Zenon DEF SetArmed
        <5>. QED
          BY <2>1, <4>2, <1>a, <5>1 DEF SetArmed, Overlaps, InBatch
      <4>. QED
        BY <4>1, <4>2
    <3>. QED
      BY <2>1, <3>1, <3>2 DEF SetArmed, UnchangedWorker
  <2>2. CASE StoreStartupBlank
    <3>1. /\ startupBlank' \in 0 .. MaxRate /\ owed' \in 0 .. MaxHold
          /\ appPc' = "clearArm"
      <4>. HIDE DEF TypeOK, LargestLoad
      <4>1. /\ startupBlank' = MillisToPoints(1) /\ owed' = MillisToPoints(1)
            /\ appPc' = "clearArm"
        BY <2>2 DEF StoreStartupBlank
      <4>2. MillisToPoints(1) \in 0 .. MaxHold
        BY <2>0
      <4>. QED
        BY <2>0, <4>1, <4>2
    <3>2. UNCHANGED <<armed, syncEnabled, suppressed, syncTime, rate,
                      shutdownBlank, delayLine, out, overlapped, fresh,
                      sinceSwitch, lastContent, wpc, batch, loaded, shift>>
      BY <2>2 DEF StoreStartupBlank, UnchangedWorker, settings
    <3>. QED
      BY <3>1, <3>2
  <2>3. CASE StoreShutdownBlank
    BY <2>0, <2>3 DEF StoreShutdownBlank, UnchangedWorker, settings
  <2>4. CASE AppClearLine
    BY <2>4 DEF AppClearLine, UnchangedWorker, settings, observed
  <2>5. ASSUME NEW enabled \in BOOLEAN, SetScannerSyncEnabled(enabled)
        PROVE  TypeOK'
    BY <2>5 DEF SetScannerSyncEnabled, UnchangedWorker, observed
  <2>6. ASSUME NEW ms \in SyncTimes, SetScannerSync(ms) PROVE TypeOK'
    BY <2>6 DEF SetScannerSync, UnchangedWorker, observed
  <2>7. ASSUME NEW pointsPerMs \in Rates, SetPointRate(pointsPerMs)
        PROVE  TypeOK'
    BY <2>7 DEF SetPointRate, UnchangedWorker, observed
  <2>8. CASE ResetStartupBlank
    <3>1. /\ loaded' \in 0 .. MaxRate /\ wpc' = "resetStore"
          /\ UNCHANGED <<suppressed, startupBlank, shutdownBlank, delayLine,
                         lastContent, batch, shift, out, overlapped, fresh,
                         sinceSwitch>>
      BY <2>0, <2>8 DEF ResetStartupBlank
    <3>2. owed' \in 0 .. MaxHold
      <4>1. sinceSwitch \in 0 .. MaxHold /\ owed \in 0 .. MaxHold
        OBVIOUS
      <4>. HIDE DEF TypeOK, LargestLoad
      <4>. QED
        BY <2>0, <2>8, <4>1 DEF ResetStartupBlank
    <3>3. UNCHANGED <<armed, syncEnabled, syncTime, rate, appPc>>
      BY <2>8 DEF ResetStartupBlank, UnchangedApp
    <3>. QED
      BY <3>1, <3>2, <3>3
  <2>9. ASSUME NEW flag \in BOOLEAN, SetSuppressed(flag) PROVE TypeOK'
    BY <2>9 DEF SetSuppressed, UnchangedApp, observed
  <2>10. CASE WorkerClearLine
    BY <2>10 DEF WorkerClearLine, UnchangedApp, observed
  <2>11. ASSUME NEW points \in Batches, Request(points) PROVE TypeOK'
    <3>1. points \in Seq(Point) /\ Len(points) <= MaxBatch
      <4>1. PICK n \in 0 .. MaxBatch : points \in [1 .. n -> Content]
        BY DEF Batches
      <4>2. points \in [1 .. n -> Point] /\ n \in Nat
        BY <4>1, PipelineAssumption
      <4>. QED
        BY <4>1, <4>2, FunctionIsSequence
    <3>. QED
      BY <2>11, <3>1 DEF Request, UnchangedApp, Switching, NoOutput
  <2>12. CASE LoadStartupBlank
    <3>1. /\ BlankFirst(batch, startupBlank) \in Seq(Point)
          /\ Len(BlankFirst(batch, startupBlank)) = Len(batch)
      BY BlankFirstType
    <3>. QED
      BY <2>12, <3>1 DEF LoadStartupBlank, UnchangedApp, observed
  <2>13. CASE StoreStartupRemainder
    <3>1. Len(batch) \in Nat /\ loaded \in 0 .. MaxRate
      BY <2>13 DEF StoreStartupRemainder
    <3>. QED
      BY <2>13, <3>1 DEF StoreStartupRemainder, UnchangedApp, observed,
         AtLeastZero
  <2>14. CASE LoadArmed
    <3>1. batch # <<>> => batch[Len(batch)] \in Point
      OBVIOUS
    <3>2. lastContent' \in Positions \cup {Centre}
      BY <2>14, <3>1 DEF LoadArmed, Point
    <3>. QED
      BY <2>14, <3>2 DEF LoadArmed, UnchangedApp, observed
  <2>15. CASE LoadShutdownBlank
    <3>1. /\ HoldThenPark(batch, shutdownBlank) \in Seq(Point)
          /\ Len(HoldThenPark(batch, shutdownBlank)) = Len(batch)
      BY HoldThenParkType
    <3>. QED
      BY <2>15, <3>1 DEF LoadShutdownBlank, UnchangedApp, observed
  <2>16. CASE StoreShutdownRemainder
    BY <2>16 DEF StoreShutdownRemainder, UnchangedApp, observed, AtLeastZero
  <2>17. CASE LoadSuppressed
    BY <2>17 DEF LoadSuppressed, UnchangedApp, observed
  <2>18. CASE LoadEnabled
    BY <2>18 DEF LoadEnabled, UnchangedApp, observed
  <2>19. CASE LoadShift
    <3>1. loaded \in 0 .. MaxSync /\ rate \in 0 .. MaxRate
      BY <2>19, PipelineAssumption DEF LoadShift
    <3>2. MillisToPoints(loaded) \in 0 .. MaxShift
      BY <3>1, SettingsBound DEF MillisToPoints
    <3>. QED
      BY <2>19, <3>2 DEF LoadShift, UnchangedApp, observed
  <2>20. CASE BypassDelay
    <3>1. out' \in [points : Seq(Point), fresh : BOOLEAN, from : 0 .. MaxHold]
      BY <1>a, <2>20 DEF BypassDelay, HandOver
    <3>2. sinceSwitch' \in 0 .. MaxHold
      BY <2>20 DEF BypassDelay, HandOver, AtMostHold
    <3>3. fresh' \in BOOLEAN
      BY <2>20, Zenon DEF BypassDelay, HandOver
    <3>4. /\ delayLine' = <<>>
          /\ batch' = <<>> /\ loaded' = 0 /\ shift' = 0 /\ wpc' = "idle"
          /\ UNCHANGED <<suppressed, startupBlank, shutdownBlank, lastContent,
                         overlapped, owed, armed, syncEnabled, syncTime, rate,
                         appPc>>
      BY <2>20 DEF BypassDelay, HandOver, UnchangedApp
    <3>. QED
      BY <1>0, <3>1, <3>2, <3>3, <3>4
  <2>21. CASE ApplyDelay
    <3>. DEFINE line == Resize(delayLine, shift)
    <3>1. line \in Seq(Colour) /\ Len(line) = shift
      <4>. shift \in Nat
        OBVIOUS
      <4>. QED
        BY ResizeType
    <3>2. /\ DelayedPoints(line, batch) \in Seq(Point)
          /\ Len(DelayedPoints(line, batch)) = Len(batch)
          /\ DelayedLine(line, batch) \in Seq(Colour)
          /\ Len(DelayedLine(line, batch)) = shift
      BY <3>1, DelayType
    <3>3. out' \in [points : Seq(Point), fresh : BOOLEAN, from : 0 .. MaxHold]
      BY <1>a, <2>21, <3>2 DEF ApplyDelay, HandOver
    <3>4. sinceSwitch' \in 0 .. MaxHold
      BY <2>21, <3>2 DEF ApplyDelay, HandOver, AtMostHold
    <3>5. fresh' \in BOOLEAN
      BY <2>21, Zenon DEF ApplyDelay, HandOver
    <3>6. /\ delayLine' = DelayedLine(line, batch)
          /\ batch' = <<>> /\ loaded' = 0 /\ shift' = 0 /\ wpc' = "idle"
          /\ UNCHANGED <<suppressed, startupBlank, shutdownBlank, lastContent,
                         overlapped, owed, armed, syncEnabled, syncTime, rate,
                         appPc>>
      BY <2>21 DEF ApplyDelay, HandOver, UnchangedApp
    <3>. HIDE DEF line
    <3>. QED
      BY <1>0, <3>2, <3>3, <3>4, <3>5, <3>6
  <2>22. CASE StoreReset
    <3>1. loaded \in 0 .. MaxRate
      BY <2>22 DEF StoreReset
    <3>. QED
      BY <2>22, <3>1 DEF StoreReset, UnchangedApp, observed
  <2>23. CASE LoadSync
    <3>1. syncTime \in 0 .. MaxSync
      BY PipelineAssumption
    <3>. QED
      BY <2>23, <3>1 DEF LoadSync, UnchangedApp, observed
  <2>24. CASE UNCHANGED vars
    BY <2>24 DEF vars, settings, observed
  <2>. QED
    BY <2>1, <2>2, <2>3, <2>4, <2>5, <2>6, <2>7, <2>8, <2>9, <2>10, <2>11,
       <2>12, <2>13, <2>14, <2>15, <2>16, <2>17, <2>18, <2>19, <2>20, <2>21,
       <2>22, <2>23, <2>24 DEF Next, App, Worker, PostProcess
<1>. QED
  BY <1>2, <1>3, PTL DEF Spec

(***************************************************************************)
(* Disarming.  A lit point in a batch begun after the disarm must come     *)
(* from the delay line, and the line can only have been filled by a batch  *)
(* that overlapped the call, before any batch begun after it was handed    *)
(* over.                                                                   *)
(***************************************************************************)
\* The steps of a batch that has loaded a false `armed` and been darkened,
\* or has loaded a true one.
PastArming == {"storeShutdown", "loadSuppressed", "loadEnabled", "loadSync",
               "loadShift", "delay", "bypass"}

\* The i-th colour of the line, when lit, will be shown by a place early
\* enough.
LitSoon == \A i \in 1 .. Len(delayLine) :
               delayLine[i] = "lit" => sinceSwitch + i <= MaxShift

LeakInv ==
    /\ Switching => fresh = FALSE /\ sinceSwitch = 0 /\ out.fresh = FALSE
    /\ InBatch /\ fresh = FALSE => sinceSwitch = 0 /\ overlapped
    /\ fresh /\ armed = FALSE /\ wpc \in PastArming => Dark(batch)
    /\ armed = FALSE => LitSoon
    /\ armed = FALSE /\ ~Switching /\ ~overlapped =>
           \A i \in 1 .. Len(delayLine) : delayLine[i] # "lit"
    /\ DisarmLeakBounded

\* The invariant about disarming holds of every reachable state.
LEMMA LeakInvariant == Spec => []LeakInv
<1>0. MaxShift \in Nat /\ MaxHold \in Nat
  BY PipelineAssumption, SettingsBound
<1>1. Init => LeakInv
  BY <1>0 DEF Init, LeakInv, DisarmLeakBounded, LitSoon, Switching, InBatch,
     NoOutput
<1>2. TypeOK /\ TypeOK' /\ LeakInv /\ [Next]_vars => LeakInv'
  <2>. SUFFICES ASSUME TypeOK, TypeOK', LeakInv, [Next]_vars PROVE LeakInv'
    OBVIOUS
  <2>t. /\ delayLine \in Seq(Colour) /\ Len(delayLine) <= MaxShift
        /\ batch \in Seq(Point)
        /\ sinceSwitch \in 0 .. MaxHold /\ shift \in 0 .. MaxShift
        /\ delayLine' \in Seq(Colour) /\ Len(delayLine') <= MaxShift
    BY DEF TypeOK
  <2>0. /\ delayLine \in Seq(Colour) /\ Len(delayLine) \in 0 .. MaxShift
        /\ batch \in Seq(Point) /\ Len(batch) \in Nat
        /\ sinceSwitch \in 0 .. MaxHold /\ shift \in 0 .. MaxShift
    BY <1>0, <2>t
  <2>a. delayLine' \in Seq(Colour) /\ Len(delayLine') \in 0 .. MaxShift
    BY <1>0, <2>t
  <2>. USE <1>0 DEF LeakInv, DisarmLeakBounded, PlaceOf, LitSoon, Switching,
       InBatch, PastArming
  <2>1. ASSUME NEW state \in BOOLEAN, SetArmed(state) PROVE LeakInv'
    <3>1. CASE state = armed
      BY <2>1, <3>1 DEF SetArmed, UnchangedWorker, observed
    <3>2. CASE state # armed
      <4>1. /\ sinceSwitch' = 0 /\ out' = NoOutput
            /\ overlapped' = Overlaps(state)
            /\ ~fresh' /\ wpc' = wpc /\ delayLine' = delayLine
        BY <2>1, <3>2 DEF SetArmed, UnchangedWorker
      <4>2. Switching'
        BY <2>1, <3>2 DEF SetArmed
      <4>3. LitSoon'
        BY <2>0, <4>1
      <4>4. InBatch' => overlapped'
        BY <4>1 DEF Overlaps
      <4>5. ~out'.fresh
        BY <4>1 DEF NoOutput
      <4>. QED
        BY <4>1, <4>2, <4>3, <4>4, <4>5
    <3>. QED
      BY <3>1, <3>2
  <2>2. CASE StoreStartupBlank
    BY <2>2 DEF StoreStartupBlank, UnchangedWorker, settings
  <2>3. CASE StoreShutdownBlank
    BY <2>3 DEF StoreShutdownBlank, UnchangedWorker, settings
  <2>4. CASE AppClearLine
    BY <2>4 DEF AppClearLine, UnchangedWorker, settings, observed
  <2>5. ASSUME NEW enabled \in BOOLEAN, SetScannerSyncEnabled(enabled)
        PROVE  LeakInv'
    BY <2>5 DEF SetScannerSyncEnabled, UnchangedWorker, observed
  <2>6. ASSUME NEW ms \in SyncTimes, SetScannerSync(ms) PROVE LeakInv'
    BY <2>6 DEF SetScannerSync, UnchangedWorker, observed
  <2>7. ASSUME NEW pointsPerMs \in Rates, SetPointRate(pointsPerMs)
        PROVE  LeakInv'
    BY <2>7 DEF SetPointRate, UnchangedWorker, observed
  <2>8. CASE ResetStartupBlank
    BY <2>8 DEF ResetStartupBlank, UnchangedApp
  <2>9. ASSUME NEW flag \in BOOLEAN, SetSuppressed(flag) PROVE LeakInv'
    BY <2>9 DEF SetSuppressed, UnchangedApp, observed
  <2>10. CASE WorkerClearLine
    BY <2>10 DEF WorkerClearLine, UnchangedApp, observed
  <2>11. ASSUME NEW points \in Batches, Request(points) PROVE LeakInv'
    BY <2>11 DEF Request, UnchangedApp, NoOutput
  <2>12. CASE LoadStartupBlank
    BY <2>12 DEF LoadStartupBlank, UnchangedApp, observed
  <2>13. CASE StoreStartupRemainder
    BY <2>13 DEF StoreStartupRemainder, UnchangedApp, observed
  <2>14. CASE LoadArmed
    BY <2>14 DEF LoadArmed, UnchangedApp, observed
  <2>15. CASE LoadShutdownBlank
    <3>0. shutdownBlank \in Nat /\ lastContent \in Positions \cup {Centre}
      BY DEF TypeOK
    <3>1. Dark(HoldThenPark(batch, shutdownBlank))
      BY <2>0, <3>0, HoldThenParkType
    <3>. QED
      BY <2>15, <3>1 DEF LoadShutdownBlank, UnchangedApp, observed
  <2>16. CASE StoreShutdownRemainder
    BY <2>16 DEF StoreShutdownRemainder, UnchangedApp, observed
  <2>17. CASE LoadSuppressed
    BY <2>17 DEF LoadSuppressed, UnchangedApp, observed
  <2>18. CASE LoadEnabled
    BY <2>18 DEF LoadEnabled, UnchangedApp, observed
  <2>19. CASE LoadShift
    BY <2>19 DEF LoadShift, UnchangedApp, observed
  <2>s. CASE StoreReset
    BY <2>s DEF StoreReset, UnchangedApp, observed
  <2>y. CASE LoadSync
    BY <2>y DEF LoadSync, UnchangedApp, observed
  <2>20. CASE BypassDelay
    BY <2>0, <2>20 DEF BypassDelay, HandOver, UnchangedApp, NoOutput, Dark
  <2>21. CASE ApplyDelay
    <3>. DEFINE line == Resize(delayLine, shift)
                shown == DelayedPoints(line, batch)
                kept == DelayedLine(line, batch)
    <3>1. line \in Seq(Colour) /\ Len(line) = shift /\ shift \in Nat
      <4>1. delayLine \in Seq(Colour) /\ shift \in Nat
        BY <2>0
      <4>. QED
        BY <4>1, ResizeType
    <3>2. \A i \in 1 .. shift : line[i] = "lit" =>
              i \in 1 .. Len(delayLine) /\ delayLine[i] = "lit"
      <4>1. DOMAIN delayLine = 1 .. Len(delayLine) /\ shift \in Nat
        BY <2>0, SequenceIsFunction
      <4>. QED
        BY <2>0, <4>1, ResizeType
    <3>3. /\ shown \in Seq(Point) /\ Len(shown) = Len(batch)
          /\ DOMAIN shown = 1 .. Len(batch)
          /\ kept \in Seq(Colour) /\ Len(kept) = shift
      BY <2>0, <3>1, DelayType, SequenceIsFunction
    <3>4. /\ wpc = "delay" /\ wpc' = "idle"
          /\ delayLine' = kept
          /\ sinceSwitch' = IF fresh THEN AtMostHold(sinceSwitch + Len(shown))
                            ELSE sinceSwitch
          /\ out' = IF fresh
                    THEN [points |-> shown, fresh |-> TRUE, from |-> sinceSwitch]
                    ELSE NoOutput
          /\ ~fresh'
          /\ UNCHANGED <<armed, appPc, overlapped>>
      BY <2>21 DEF ApplyDelay, HandOver, UnchangedApp
    <3>5. CASE armed
      BY <2>0, <3>4, <3>5 DEF NoOutput
    <3>6. CASE ~armed /\ ~fresh
      <4>1. sinceSwitch = 0 /\ overlapped
        BY <3>4, <3>6
      <4>. QED
        BY <2>0, <2>a, <3>1, <3>3, <3>4, <3>6, <4>1 DEF NoOutput
    <3>7. CASE ~armed /\ fresh
      <4>1. Dark(batch) /\ ~Switching
        BY <3>4, <3>7
      <4>2. /\ \A i \in 1 .. Len(batch) : shown[i].rgb = "lit" =>
                    i \in 1 .. shift /\ line[i] = "lit"
            /\ \A i \in 1 .. shift : kept[i] = "lit" =>
                    Len(batch) + i \in 1 .. shift /\ line[Len(batch) + i] = "lit"
        BY <2>0, <3>1, <4>1, DelayOfDark
      <4>3. /\ \A i \in 1 .. Len(batch) : shown[i].rgb = "lit" =>
                    i \in 1 .. Len(delayLine) /\ delayLine[i] = "lit"
            /\ \A i \in 1 .. shift : kept[i] = "lit" =>
                    /\ Len(batch) + i \in 1 .. Len(delayLine)
                    /\ delayLine[Len(batch) + i] = "lit"
        BY <3>2, <4>2
      <4>. HIDE DEF line, shown, kept
      <4>4. DisarmLeakBounded'
        <5>1. out'.points = shown /\ out'.from = sinceSwitch
          BY <3>4, <3>7
        <5>2. ASSUME NEW i \in 1 .. Len(batch), shown[i].rgb = "lit"
              PROVE  overlapped' /\ sinceSwitch + i <= MaxShift
          BY <3>4, <3>7, <4>1, <4>3, <5>2
        <5>. QED
          BY <3>3, <5>1, <5>2
      <4>5. sinceSwitch' <= sinceSwitch + Len(batch) /\ sinceSwitch' \in Nat
        BY <2>0, <3>3, <3>4, <3>7 DEF AtMostHold
      <4>6. LitSoon'
        BY <2>0, <3>3, <3>4, <3>7, <4>3, <4>5
      <4>7. ~overlapped' => \A i \in 1 .. Len(delayLine') : delayLine'[i] # "lit"
        <5>1. ~overlapped => \A i \in 1 .. Len(delayLine) : delayLine[i] # "lit"
          BY <3>7, <4>1
        <5>. QED
          BY <3>3, <3>4, <4>3, <5>1
      <4>. QED
        BY <3>4, <4>1, <4>4, <4>6, <4>7
    <3>. QED
      BY <3>5, <3>6, <3>7
  <2>22. CASE UNCHANGED vars
    BY <2>22 DEF vars, settings, observed
  <2>. QED
    BY <2>1, <2>2, <2>3, <2>4, <2>5, <2>6, <2>7, <2>8, <2>9, <2>10, <2>11,
       <2>12, <2>13, <2>14, <2>15, <2>16, <2>17, <2>18, <2>19, <2>20, <2>21,
       <2>22, <2>s, <2>y DEF Next, App, Worker, PostProcess
<1>. QED
  BY <1>1, <1>2, TypeCorrect, PTL DEF Spec

\* DisarmLeakBounded is an invariant: whatever a batch interleaved with
\* setArmed(false), the points begun after the call are dark but for at
\* most a delay line's worth, and all dark if no batch overlapped the call.
THEOREM DisarmLeak == Spec => []DisarmLeakBounded
<1>1. LeakInv => DisarmLeakBounded
  BY DEF LeakInv
<1>. QED
  BY <1>1, LeakInvariant, PTL

(***************************************************************************)
(* Holding.  The count of points still to hold and the points handed over  *)
(* since the disarm add up to what was asked for; a batch is accounted for *)
(* when its remainder is stored, not when it is handed over.               *)
(***************************************************************************)
Stored == PastArming \ {"storeShutdown"}

\* n points are left to hold after k more points have been handed over.
HoldLeft(n, k) ==
    /\ n = 0 \/ n + sinceSwitch + k <= MaxHold
    /\ overlapped = FALSE => n = AtLeastZero(owed - (sinceSwitch + k))

\* Every point of a batch is where the place it will be handed over at asks.
Placed(points) ==
    \A i \in DOMAIN points :
        /\ sinceSwitch + i > MaxHold => points[i].at = Centre
        /\ overlapped = FALSE /\ sinceSwitch + i <= owed => points[i].at = lastContent
        /\ overlapped = FALSE /\ sinceSwitch + i > owed => points[i].at = Centre

HoldInv ==
    /\ appPc = "startup" => armed
    /\ armed = FALSE /\ appPc # "shutdown" /\ ~(fresh /\ wpc \in Stored) =>
           HoldLeft(shutdownBlank, 0)
    /\ armed = FALSE /\ fresh /\ wpc = "storeShutdown" => HoldLeft(loaded, 0)
    /\ armed = FALSE /\ fresh /\ wpc \in Stored => HoldLeft(shutdownBlank, Len(batch))
    /\ armed = FALSE /\ fresh /\ wpc \in PastArming => Placed(batch)
    /\ HoldThenCentre

\* All of n is left before the first point,
LEMMA AllLeft ==
    ASSUME NEW m \in Nat, NEW n \in 0 .. m
    PROVE  n = AtLeastZero(n - (0 + 0)) /\ n + 0 + 0 <= m
BY DEF AtLeastZero

\* and a batch of k points takes its share of what is left.
LEMMA BatchTakes ==
    ASSUME NEW n \in Nat, NEW k \in Nat, HoldLeft(n, 0),
           sinceSwitch \in Nat, owed \in Nat, MaxHold \in Nat
    PROVE  HoldLeft(AtLeastZero(n - k), k)
<1>1. CASE n <= k
  BY <1>1 DEF HoldLeft, AtLeastZero
<1>2. CASE n > k
  BY <1>2 DEF HoldLeft, AtLeastZero
<1>. QED
  BY <1>1, <1>2

\* The disarmed loop puts every point where its place asks.
LEMMA HoldThenParkPlaces ==
    ASSUME NEW points \in Seq(Point), NEW n \in Nat, HoldLeft(n, 0),
           sinceSwitch \in Nat, owed \in Nat, MaxHold \in Nat
    PROVE  Placed(HoldThenPark(points, n))
<1>1. DOMAIN points = 1 .. Len(points) /\ Len(points) \in Nat
  BY SequenceIsFunction
<1>. QED
  BY <1>1 DEF HoldThenPark, Placed, HoldLeft, AtLeastZero

\* The delay moves no point.
LEMMA DelayMovesNothing ==
    ASSUME NEW line \in Seq(Colour), NEW points \in Seq(Point)
    PROVE  /\ DOMAIN DelayedPoints(line, points) = DOMAIN points
           /\ \A i \in DOMAIN points : DelayedPoints(line, points)[i].at = points[i].at
<1>1. points \in [1 .. Len(points) -> Point] /\ DOMAIN points = 1 .. Len(points)
  BY SequenceIsFunction
<1>. QED
  BY <1>1 DEF DelayedPoints, Point

\* Handing a batch over keeps the account of the hold.
LEMMA HandOverHolds ==
    ASSUME TypeOK, LeakInv, HoldInv, wpc \in {"bypass", "delay"},
           NEW points \in Seq(Point), HandOver(points), Len(points) = Len(batch),
           DOMAIN points = DOMAIN batch, \A i \in DOMAIN batch : points[i].at = batch[i].at
    PROVE  HoldInv'
<1>0. MaxHold \in Nat /\ sinceSwitch \in 0 .. MaxHold /\ owed \in 0 .. MaxHold
      /\ shutdownBlank \in Nat /\ Len(batch) \in Nat
  <2>1. MaxHold \in Nat
    BY PipelineAssumption, SettingsBound
  <2>. QED
    BY <2>1, SequenceIsFunction DEF TypeOK
<1>1. /\ UNCHANGED <<armed, appPc, shutdownBlank, lastContent, overlapped, owed>>
      /\ wpc' = "idle" /\ fresh' = FALSE
      /\ sinceSwitch' = IF fresh THEN AtMostHold(sinceSwitch + Len(points)) ELSE sinceSwitch
      /\ out' = IF fresh THEN [points |-> points, fresh |-> TRUE, from |-> sinceSwitch]
                ELSE NoOutput
  BY DEF HandOver, UnchangedApp
<1>2. CASE armed \/ appPc = "shutdown"
  <2>1. appPc = "shutdown" => fresh = FALSE
    BY DEF LeakInv, Switching
  <2>. QED
    BY <1>1, <1>2, <2>1 DEF HoldInv, HoldThenCentre, NoOutput
<1>3. CASE ~armed /\ appPc # "shutdown" /\ fresh
  <2>1. HoldLeft(shutdownBlank, Len(batch)) /\ Placed(batch)
    BY <1>3 DEF HoldInv, Stored, PastArming
  <2>2. sinceSwitch' = AtMostHold(sinceSwitch + Len(batch))
    BY <1>1, <1>3
  <2>3. HoldLeft(shutdownBlank, 0)'
    BY <1>0, <1>1, <2>1, <2>2 DEF HoldLeft, AtMostHold, AtLeastZero
  <2>4. out' = [points |-> points, fresh |-> TRUE, from |-> sinceSwitch]
    BY <1>1, <1>3
  <2>5. HoldThenCentre'
    BY <1>1, <2>1, <2>4 DEF HoldThenCentre, PlaceOf, Placed
  <2>. QED
    BY <1>1, <2>3, <2>5 DEF HoldInv, Stored, PastArming
<1>4. CASE ~armed /\ appPc # "shutdown" /\ ~fresh
  <2>1. HoldLeft(shutdownBlank, 0)
    BY <1>4 DEF HoldInv
  <2>2. HoldLeft(shutdownBlank, 0)'
    BY <1>1, <1>4, <2>1 DEF HoldLeft
  <2>. QED
    BY <1>1, <1>4, <2>2 DEF HoldInv, HoldThenCentre, NoOutput, Stored, PastArming
<1>. QED
  BY <1>2, <1>3, <1>4

\* Every step keeps the account of the hold.
LEMMA HoldKept ==
    ASSUME TypeOK, TypeOK', LeakInv, HoldInv, [Next]_vars
    PROVE  HoldInv'
<1>0. /\ MaxHold \in Nat /\ sinceSwitch \in 0 .. MaxHold /\ owed \in 0 .. MaxHold
      /\ shutdownBlank \in 0 .. MaxHold /\ loaded \in Nat
      /\ batch \in Seq(Point) /\ Len(batch) \in Nat /\ DOMAIN batch = 1 .. Len(batch)
      /\ armed \in BOOLEAN /\ delayLine \in Seq(Colour) /\ shift \in Nat
  <2>1. MaxHold \in Nat /\ MaxShift \in Nat /\ MaxRate \in Nat
    BY PipelineAssumption, SettingsBound
  <2>. QED
    BY <2>1, SequenceIsFunction DEF TypeOK
<1>a. Switching => fresh = FALSE /\ sinceSwitch = 0 /\ out.fresh = FALSE
  BY DEF LeakInv
<1>b. InBatch /\ fresh = FALSE => sinceSwitch = 0 /\ overlapped
  BY DEF LeakInv
<1>c. ASSUME UNCHANGED <<armed, fresh, shutdownBlank, overlapped, sinceSwitch, owed, lastContent, out>>,
             appPc' # "shutdown" => appPc # "shutdown", appPc' = "startup" => appPc = "startup",
             \/ UNCHANGED <<wpc, loaded, batch>>
             \/ wpc' \notin PastArming /\ wpc \notin PastArming
             \/ wpc \in Stored /\ wpc' \in Stored /\ UNCHANGED batch
      PROVE  HoldInv'
  BY <1>c DEF HoldInv, HoldLeft, Placed, HoldThenCentre, PlaceOf, Stored, PastArming
<1>1. ASSUME NEW state \in BOOLEAN, SetArmed(state) PROVE HoldInv'
  <2>1. CASE state = armed
    BY <1>c, <1>1, <2>1 DEF SetArmed, UnchangedWorker, observed
  <2>2. CASE state # armed
    <3>1. appPc' = (IF state THEN "startup" ELSE "shutdown") /\ fresh' = FALSE
          /\ out' = NoOutput /\ armed' = state
      BY <1>1, <2>2 DEF SetArmed
    <3>. QED
      BY <3>1 DEF HoldInv, HoldThenCentre, NoOutput
  <2>. QED
    BY <2>1, <2>2
<1>2. CASE StoreStartupBlank
  <2>1. /\ appPc = "startup" /\ appPc' = "clearArm"
        /\ UNCHANGED <<armed, shutdownBlank, out, overlapped, fresh, sinceSwitch, wpc>>
    BY <1>2 DEF StoreStartupBlank, UnchangedWorker, settings
  <2>. QED
    BY <1>a, <2>1 DEF HoldInv, HoldThenCentre, Switching
<1>3. CASE StoreShutdownBlank
  <2>1. /\ appPc = "shutdown" /\ shutdownBlank' = owed'
        /\ appPc' = "clearArm" /\ UNCHANGED <<armed, out, overlapped, fresh, sinceSwitch, wpc>>
    BY <1>3 DEF StoreShutdownBlank, UnchangedWorker, settings
  <2>2. fresh = FALSE /\ sinceSwitch' = 0 /\ out'.fresh = FALSE
    BY <1>a, <2>1 DEF Switching
  <2>3. shutdownBlank' \in 0 .. MaxHold
    BY DEF TypeOK
  <2>4. HoldLeft(shutdownBlank, 0)'
    <3>1. owed' = AtLeastZero(owed' - (0 + 0)) /\ owed' + 0 + 0 <= MaxHold
      BY <1>0, <2>1, <2>3, AllLeft
    <3>. QED
      BY <2>1, <2>2, <3>1 DEF HoldLeft
  <2>. QED
    BY <2>1, <2>2, <2>4 DEF HoldInv, HoldThenCentre
<1>4. CASE AppClearLine
  BY <1>c, <1>4 DEF AppClearLine, UnchangedWorker, settings, observed
<1>5. ASSUME NEW enabled \in BOOLEAN, SetScannerSyncEnabled(enabled) PROVE HoldInv'
  BY <1>c, <1>5 DEF SetScannerSyncEnabled, UnchangedWorker, observed
<1>6. ASSUME NEW ms \in SyncTimes, SetScannerSync(ms) PROVE HoldInv'
  BY <1>c, <1>6 DEF SetScannerSync, UnchangedWorker, observed
<1>7. ASSUME NEW pointsPerMs \in Rates, SetPointRate(pointsPerMs) PROVE HoldInv'
  BY <1>c, <1>7 DEF SetPointRate, UnchangedWorker, observed
<1>8. CASE ResetStartupBlank
  <2>1. /\ UNCHANGED <<armed, fresh, shutdownBlank, overlapped, sinceSwitch, lastContent, out, appPc>>
        /\ wpc = "idle" /\ wpc' = "resetStore"
        /\ armed = FALSE => owed' = owed
    BY <1>8 DEF ResetStartupBlank, UnchangedApp
  <2>2. CASE armed
    BY <2>1, <2>2 DEF HoldInv, HoldThenCentre
  <2>3. CASE armed = FALSE
    BY <1>c, <2>1, <2>3 DEF PastArming
  <2>. QED
    BY <1>0, <2>2, <2>3
<1>s. CASE StoreReset
  BY <1>c, <1>s DEF StoreReset, UnchangedApp, observed, PastArming
<1>9. ASSUME NEW flag \in BOOLEAN, SetSuppressed(flag) PROVE HoldInv'
  BY <1>c, <1>9 DEF SetSuppressed, UnchangedApp, observed, PastArming
<1>10. CASE WorkerClearLine
  BY <1>c, <1>10 DEF WorkerClearLine, UnchangedApp, observed, PastArming
<1>11. ASSUME NEW points \in Batches, Request(points) PROVE HoldInv'
  <2>1. /\ UNCHANGED <<armed, shutdownBlank, sinceSwitch, owed, lastContent, appPc>>
        /\ wpc = "idle" /\ wpc' = "loadStartup" /\ out' = NoOutput
        /\ overlapped' = (overlapped \/ Switching)
    BY <1>11 DEF Request, UnchangedApp
  <2>2. overlapped' = FALSE => overlapped = FALSE
    BY <2>1 DEF TypeOK
  <2>3. armed = FALSE /\ appPc # "shutdown" => HoldLeft(shutdownBlank, 0)
    BY <2>1 DEF HoldInv, Stored, PastArming
  <2>. QED
    BY <2>1, <2>2, <2>3 DEF HoldInv, HoldLeft, HoldThenCentre, NoOutput, Stored, PastArming
<1>12. CASE LoadStartupBlank
  BY <1>c, <1>12 DEF LoadStartupBlank, UnchangedApp, observed, PastArming
<1>13. CASE StoreStartupRemainder
  BY <1>c, <1>13 DEF StoreStartupRemainder, UnchangedApp, observed, PastArming
<1>14. CASE LoadArmed
  <2>1. /\ UNCHANGED <<armed, fresh, shutdownBlank, overlapped, sinceSwitch, owed, out, appPc>>
        /\ wpc = "loadArmed" /\ wpc' = IF armed THEN "loadSuppressed" ELSE "loadShutdown"
        /\ armed = FALSE => lastContent' = lastContent
    BY <1>14 DEF LoadArmed, UnchangedApp, observed
  <2>2. CASE armed
    BY <2>1, <2>2 DEF HoldInv, HoldThenCentre
  <2>3. CASE armed = FALSE
    BY <1>c, <2>1, <2>3 DEF PastArming
  <2>. QED
    BY <1>0, <2>2, <2>3
<1>15. CASE LoadShutdownBlank
  <2>1. /\ UNCHANGED <<armed, fresh, shutdownBlank, overlapped, sinceSwitch, owed, lastContent, out,
                       appPc>>
        /\ wpc = "loadShutdown" /\ wpc' = "storeShutdown"
        /\ loaded' = shutdownBlank /\ batch' = HoldThenPark(batch, shutdownBlank)
    BY <1>15 DEF LoadShutdownBlank, UnchangedApp, observed
  <2>2. fresh => appPc # "shutdown"
    BY <1>a DEF Switching
  <2>3. armed = FALSE /\ appPc # "shutdown" => HoldLeft(shutdownBlank, 0)
    BY <2>1 DEF HoldInv, Stored, PastArming
  <2>4. armed = FALSE /\ fresh => Placed(HoldThenPark(batch, shutdownBlank))
    BY <1>0, <2>2, <2>3, HoldThenParkPlaces
  <2>5. armed = FALSE /\ fresh => Placed(batch)'
    BY <2>1, <2>4 DEF Placed
  <2>. QED
    BY <2>1, <2>2, <2>3, <2>5 DEF HoldInv, HoldLeft, HoldThenCentre, PlaceOf, Stored, PastArming
<1>16. CASE StoreShutdownRemainder
  <2>1. /\ UNCHANGED <<armed, fresh, overlapped, sinceSwitch, owed, lastContent, out, appPc, batch>>
        /\ wpc = "storeShutdown" /\ wpc' = "loadSuppressed"
        /\ shutdownBlank' = AtLeastZero(loaded - Len(batch))
    BY <1>16 DEF StoreShutdownRemainder, UnchangedApp, observed
  <2>2. CASE armed
    BY <2>1, <2>2 DEF HoldInv, HoldThenCentre
  <2>3. CASE armed = FALSE /\ fresh
    <3>1. HoldLeft(loaded, 0) /\ Placed(batch)
      BY <2>1, <2>3 DEF HoldInv, PastArming
    <3>2. HoldLeft(shutdownBlank, Len(batch))'
      <4>1. sinceSwitch \in Nat /\ owed \in Nat
        BY <1>0
      <4>2. HoldLeft(AtLeastZero(loaded - Len(batch)), Len(batch))
        BY <1>0, <3>1, <4>1, BatchTakes
      <4>. QED
        BY <2>1, <4>2 DEF HoldLeft
    <3>3. Placed(batch)'
      BY <2>1, <3>1 DEF Placed
    <3>. QED
      BY <2>1, <2>3, <3>2, <3>3 DEF HoldInv, HoldThenCentre, PlaceOf, Stored, PastArming
  <2>4. CASE armed = FALSE /\ ~fresh
    <3>1. sinceSwitch = 0 /\ overlapped
      BY <1>b, <2>1, <2>4 DEF InBatch, TypeOK
    <3>2. shutdownBlank' \in 0 .. MaxHold
      BY DEF TypeOK
    <3>3. HoldLeft(shutdownBlank, 0)'
      BY <1>0, <2>1, <3>1, <3>2 DEF HoldLeft
    <3>. QED
      BY <2>1, <2>4, <3>3 DEF HoldInv, HoldThenCentre, PlaceOf, Stored, PastArming
  <2>. QED
    BY <1>0, <2>2, <2>3, <2>4
<1>17. CASE LoadSuppressed \/ LoadEnabled \/ LoadSync \/ LoadShift
  <2>1. /\ UNCHANGED <<armed, fresh, shutdownBlank, overlapped, sinceSwitch, owed, lastContent, out,
                       appPc, batch>>
        /\ wpc \in Stored /\ wpc' \in Stored
    BY <1>17 DEF LoadSuppressed, LoadEnabled, LoadSync, LoadShift, UnchangedApp, observed,
         Stored, PastArming
  <2>. QED
    BY <1>c, <2>1
<1>18. CASE BypassDelay
  BY <1>0, <1>18, HandOverHolds DEF BypassDelay
<1>19. CASE ApplyDelay
  <2>. DEFINE line == Resize(delayLine, shift)
              shown == DelayedPoints(line, batch)
  <2>1. line \in Seq(Colour)
    BY <1>0, ResizeType
  <2>2. wpc = "delay" /\ HandOver(shown)
    BY <1>19 DEF ApplyDelay
  <2>3. shown \in Seq(Point) /\ Len(shown) = Len(batch)
    BY <1>0, <2>1, DelayType
  <2>4. DOMAIN shown = DOMAIN batch /\ \A i \in DOMAIN batch : shown[i].at = batch[i].at
    BY <1>0, <2>1, DelayMovesNothing
  <2>. HIDE DEF line, shown
  <2>. QED
    BY <2>2, <2>3, <2>4, HandOverHolds
<1>20. CASE UNCHANGED vars
  BY <1>c, <1>20 DEF vars, settings, observed
<1>. QED
  BY <1>1, <1>2, <1>3, <1>4, <1>5, <1>6, <1>7, <1>8, <1>9, <1>10, <1>11, <1>12, <1>13, <1>14,
     <1>15, <1>16, <1>17, <1>18, <1>19, <1>20, <1>s DEF Next, App, Worker, PostProcess

\* HoldThenCentre is an invariant: after a disarm that overlapped no batch the
\* galvos hold exactly the points resetShutdownBlank asked for, through any
\* split into batches, and after any disarm they end at the centre.
THEOREM HoldsThenCentres == Spec => []HoldThenCentre
<1>0. MaxHold \in Nat
  BY PipelineAssumption, SettingsBound
<1>1. Init => HoldInv
  BY <1>0 DEF Init, HoldInv, HoldLeft, HoldThenCentre, NoOutput, AtLeastZero, Stored, PastArming
<1>2. TypeOK /\ TypeOK' /\ LeakInv /\ HoldInv /\ [Next]_vars => HoldInv'
  BY HoldKept
<1>3. HoldInv => HoldThenCentre
  BY DEF HoldInv
<1>. QED
  BY <1>1, <1>2, <1>3, TypeCorrect, LeakInvariant, PTL DEF Spec

(***************************************************************************)
(* Arming.  A lit colour, in the batch or in the delay line, will be shown *)
(* after the last point of the startup blank.                              *)
(***************************************************************************)
Blanked == PastArming \cup {"storeStartup", "loadArmed", "loadShutdown"}

\* Lit points of a batch, and lit colours of a line, come after the blank.
LateBatch(points) ==
    \A i \in DOMAIN points : points[i].rgb = "lit" => sinceSwitch + i > owed
LateLine(line) ==
    \A i \in 1 .. Len(line) : line[i] = "lit" => sinceSwitch + i > owed

BlankInv ==
    /\ appPc = "shutdown" => armed = FALSE
    /\ armed /\ overlapped = FALSE =>
        /\ wpc \notin Blanked => sinceSwitch + startupBlank >= owed
        /\ wpc \in {"storeStartup", "resetStore"} => sinceSwitch + loaded >= owed
        /\ wpc = "resetStore" /\ appPc = "startup" => loaded = MillisToPoints(1)
        /\ wpc \in Blanked \ {"storeStartup"} =>
               sinceSwitch + Len(batch) + startupBlank >= owed
        /\ wpc \in Blanked => LateBatch(batch)
        /\ ~Switching => LateLine(delayLine)
    /\ StartupBlanked

\* A count covers the blank before the first point and after a batch of k.
LEMMA BlankCovers ==
    /\ \A n \in Nat : 0 + n >= n
    /\ \A s, n, k, o \in Nat : s + n >= o => s + k + AtLeastZero(n - k) >= o
BY DEF AtLeastZero

\* The startup loop leaves no lit point among those it counts.
LEMMA BlankFirstLate ==
    ASSUME NEW points \in Seq(Point), NEW n \in Nat, sinceSwitch \in Nat, owed \in Nat,
           sinceSwitch + n >= owed
    PROVE  LateBatch(BlankFirst(points, n))
<1>1. points \in [1 .. Len(points) -> Point] /\ DOMAIN points = 1 .. Len(points)
      /\ Len(points) \in Nat
  BY SequenceIsFunction
<1>. QED
  BY <1>1 DEF BlankFirst, LateBatch, Point

\* A resized line shows no colour earlier.
LEMMA ResizeLate ==
    ASSUME NEW line \in Seq(Colour), NEW n \in Nat, LateLine(line)
    PROVE  LateLine(Resize(line, n))
<1>1. Len(Resize(line, n)) = n /\ DOMAIN line = 1 .. Len(line)
  BY ResizeType, SequenceIsFunction
<1>2. \A i \in 1 .. n : Resize(line, n)[i] = "lit" => i \in DOMAIN line /\ line[i] = "lit"
  BY ResizeType
<1>. QED
  BY <1>1, <1>2 DEF LateLine

\* The delay shows no colour earlier, and the line holds the later ones.
LEMMA DelayLate ==
    ASSUME NEW line \in Seq(Colour), NEW points \in Seq(Point), LateLine(line), LateBatch(points),
           sinceSwitch \in Nat, owed \in Nat
    PROVE  /\ LateBatch(DelayedPoints(line, points))
           /\ \A i \in 1 .. Len(line) : DelayedLine(line, points)[i] = "lit" =>
                  sinceSwitch + Len(points) + i > owed
<1>1. /\ line \in [1 .. Len(line) -> Colour] /\ Len(line) \in Nat
      /\ DOMAIN line = 1 .. Len(line)
  BY SequenceIsFunction
<1>2. /\ points \in [1 .. Len(points) -> Point] /\ Len(points) \in Nat
      /\ DOMAIN points = 1 .. Len(points)
  BY SequenceIsFunction
<1>3. ASSUME NEW i \in 1 .. (Len(line) + Len(points)), Queued(line, points, i) = "lit"
      PROVE  sinceSwitch + i > owed
  <2>1. CASE i <= Len(line)
    BY <1>1, <1>2, <1>3, <2>1 DEF Queued, LateLine
  <2>2. CASE i > Len(line)
    <3>1. i - Len(line) \in DOMAIN points /\ points[i - Len(line)].rgb = "lit"
      BY <1>1, <1>2, <1>3, <2>2 DEF Queued
    <3>2. sinceSwitch + (i - Len(line)) > owed
      BY <3>1 DEF LateBatch
    <3>. QED
      BY <1>1, <1>2, <3>2
  <2>. QED
    BY <1>1, <1>2, <2>1, <2>2
<1>4. \A i \in 1 .. Len(points) : DelayedPoints(line, points)[i].rgb = Queued(line, points, i)
  BY <1>2 DEF DelayedPoints, Point
<1>5. LateBatch(DelayedPoints(line, points))
  <2>1. DOMAIN DelayedPoints(line, points) = 1 .. Len(points)
    BY <1>2 DEF DelayedPoints
  <2>. QED
    BY <1>1, <1>2, <1>3, <1>4, <2>1 DEF LateBatch
<1>6. \A i \in 1 .. Len(line) : DelayedLine(line, points)[i] = Queued(line, points, Len(points) + i)
  BY <1>1 DEF DelayedLine
<1>7. ASSUME NEW i \in 1 .. Len(line), DelayedLine(line, points)[i] = "lit"
      PROVE  sinceSwitch + Len(points) + i > owed
  <2>1. Len(points) + i \in 1 .. (Len(line) + Len(points))
    BY <1>1, <1>2
  <2>2. sinceSwitch + (Len(points) + i) > owed
    BY <1>3, <1>6, <1>7, <2>1
  <2>. QED
    BY <1>1, <1>2, <2>2
<1>. QED
  BY <1>5, <1>7

\* Handing a batch over keeps the blank, when the points are late and the line
\* that is left is late for the place reached.
LEMMA HandOverBlanks ==
    ASSUME TypeOK, LeakInv, BlankInv, wpc \in {"bypass", "delay"},
           NEW points \in Seq(Point), HandOver(points), Len(points) = Len(batch),
           LateBatch(batch) => LateBatch(points),
           armed /\ overlapped = FALSE =>
             \A i \in 1 .. Len(delayLine') : delayLine'[i] = "lit" =>
                 sinceSwitch + Len(points) + i > owed,
           Len(delayLine') \in Nat
    PROVE  BlankInv'
<1>0. MaxHold \in Nat /\ sinceSwitch \in 0 .. MaxHold /\ owed \in 0 .. MaxHold
      /\ startupBlank \in Nat /\ Len(batch) \in Nat
  <2>1. MaxHold \in Nat /\ MaxRate \in Nat
    BY PipelineAssumption, SettingsBound
  <2>. QED
    BY <2>1, SequenceIsFunction DEF TypeOK
<1>1. /\ UNCHANGED <<armed, appPc, startupBlank, overlapped, owed>>
      /\ wpc' = "idle" /\ fresh' = FALSE
      /\ sinceSwitch' = IF fresh THEN AtMostHold(sinceSwitch + Len(points)) ELSE sinceSwitch
      /\ out' = IF fresh THEN [points |-> points, fresh |-> TRUE, from |-> sinceSwitch]
                ELSE NoOutput
  BY DEF HandOver, UnchangedApp
<1>2. CASE ~(armed /\ overlapped = FALSE)
  BY <1>1, <1>2 DEF BlankInv, StartupBlanked, TypeOK
<1>3. CASE armed /\ overlapped = FALSE
  <2>1. fresh
    BY <1>3 DEF LeakInv, InBatch, TypeOK
  <2>2. sinceSwitch + Len(batch) + startupBlank >= owed /\ LateBatch(batch)
    BY <1>3 DEF BlankInv, Blanked, PastArming
  <2>3. sinceSwitch' = AtMostHold(sinceSwitch + Len(batch))
        /\ out' = [points |-> points, fresh |-> TRUE, from |-> sinceSwitch]
    BY <1>1, <2>1
  <2>4. sinceSwitch' = sinceSwitch + Len(batch) \/ (sinceSwitch' = MaxHold /\ sinceSwitch' >= owed)
    BY <1>0, <2>3 DEF AtMostHold
  <2>5. sinceSwitch' + startupBlank >= owed
    BY <1>0, <2>2, <2>4
  <2>6. LateLine(delayLine)'
    <3>. SUFFICES ASSUME NEW i \in 1 .. Len(delayLine'), delayLine'[i] = "lit"
                  PROVE  sinceSwitch' + i > owed
      BY <1>1 DEF LateLine
    <3>1. sinceSwitch + Len(batch) + i > owed /\ i \in Nat /\ i > 0
      BY <1>3
    <3>. QED
      BY <1>0, <2>4, <3>1
  <2>7. StartupBlanked'
    <3>1. LateBatch(points)
      BY <2>2
    <3>2. \A i \in DOMAIN points : points[i].rgb \in Colour /\ i \in Nat
      <4>1. points \in [1 .. Len(points) -> Point] /\ DOMAIN points = 1 .. Len(points)
        BY SequenceIsFunction
      <4>. QED
        BY <4>1 DEF Point
    <3>3. \A i \in DOMAIN points : sinceSwitch + i <= owed => points[i].rgb = "dark"
      BY <1>0, <3>1, <3>2 DEF LateBatch, Colour
    <3>. QED
      BY <1>1, <2>3, <3>3 DEF StartupBlanked, PlaceOf
  <2>. QED
    BY <1>1, <1>3, <2>5, <2>6, <2>7 DEF BlankInv, Blanked, PastArming
<1>. QED
  BY <1>2, <1>3

\* Every step keeps the blank.
LEMMA BlankKept ==
    ASSUME TypeOK, TypeOK', LeakInv, BlankInv, [Next]_vars
    PROVE  BlankInv'
<1>0. /\ MaxHold \in Nat /\ sinceSwitch \in 0 .. MaxHold /\ owed \in 0 .. MaxHold
      /\ startupBlank \in Nat /\ loaded \in Nat /\ sinceSwitch \in Nat /\ owed \in Nat
      /\ batch \in Seq(Point) /\ Len(batch) \in Nat /\ DOMAIN batch = 1 .. Len(batch)
      /\ armed \in BOOLEAN /\ overlapped \in BOOLEAN
      /\ delayLine \in Seq(Colour) /\ shift \in Nat /\ rate \in Nat
  <2>1. MaxHold \in Nat /\ MaxShift \in Nat /\ MaxRate \in Nat /\ Rates \subseteq 0 .. MaxRate
    BY PipelineAssumption, SettingsBound
  <2>. QED
    BY <2>1, SequenceIsFunction DEF TypeOK
<1>a. Switching => fresh = FALSE /\ sinceSwitch = 0 /\ out.fresh = FALSE
  BY DEF LeakInv
<1>b. ASSUME UNCHANGED <<armed, fresh, startupBlank, overlapped, sinceSwitch, owed, out, delayLine>>,
             appPc' = "shutdown" => appPc = "shutdown", ~Switching' => ~Switching,
             appPc' = "startup" => appPc = "startup" /\ UNCHANGED rate,
             \/ UNCHANGED <<wpc, loaded, batch>>
             \/ /\ wpc' \notin Blanked /\ wpc \notin Blanked
                /\ wpc' # "resetStore"
             \/ /\ wpc \in Blanked \ {"storeStartup"} /\ wpc' \in Blanked \ {"storeStartup"}
                /\ UNCHANGED batch
      PROVE  BlankInv'
  BY <1>b DEF BlankInv, LateBatch, LateLine, StartupBlanked, PlaceOf, Blanked, PastArming,
       MillisToPoints
<1>1. ASSUME NEW state \in BOOLEAN, SetArmed(state) PROVE BlankInv'
  <2>1. CASE state = armed
    BY <1>b, <1>1, <2>1 DEF SetArmed, UnchangedWorker, observed, Switching
  <2>2. CASE state # armed
    <3>1. /\ appPc' = (IF state THEN "startup" ELSE "shutdown") /\ armed' = state
          /\ out' = NoOutput /\ overlapped' = Overlaps(state) /\ sinceSwitch' = 0
          /\ owed' = 0
          /\ UNCHANGED <<wpc, startupBlank, loaded, batch>>
      BY <1>1, <2>2 DEF SetArmed, UnchangedWorker
    <3>2. StartupBlanked' /\ Switching'
      BY <3>1 DEF StartupBlanked, NoOutput, Switching
    <3>3. armed' /\ overlapped' = FALSE => wpc' \notin Blanked /\ wpc' # "resetStore"
      BY <3>1 DEF Overlaps, InBatch, Blanked, PastArming
    <3>4. sinceSwitch' + startupBlank' >= owed'
      BY <1>0, <3>1
    <3>. QED
      BY <3>1, <3>2, <3>3, <3>4 DEF BlankInv, Blanked
  <2>. QED
    BY <2>1, <2>2
<1>2. CASE StoreStartupBlank
  <2>1. /\ appPc = "startup" /\ appPc' = "clearArm" /\ startupBlank' = owed'
        /\ owed' = MillisToPoints(1)
        /\ UNCHANGED <<armed, out, overlapped, fresh, sinceSwitch, wpc, loaded>>
    BY <1>2 DEF StoreStartupBlank, UnchangedWorker, settings
  <2>2. sinceSwitch' = 0 /\ out'.fresh = FALSE /\ fresh = FALSE
    BY <1>a, <2>1 DEF Switching
  <2>3. overlapped' = FALSE => wpc' \notin Blanked
    BY <2>1, <2>2 DEF LeakInv, InBatch, Blanked, PastArming
  <2>4. startupBlank' \in Nat
    BY PipelineAssumption DEF TypeOK
  <2>5. sinceSwitch' + startupBlank' >= owed'
    BY <2>1, <2>2, <2>4, BlankCovers
  <2>6. armed /\ overlapped = FALSE /\ wpc = "resetStore" => sinceSwitch' + loaded' >= owed'
    BY <1>0, <2>1, <2>2 DEF BlankInv, MillisToPoints
  <2>. QED
    BY <2>1, <2>2, <2>3, <2>5, <2>6 DEF BlankInv, StartupBlanked, Switching, Blanked
<1>3. CASE StoreShutdownBlank
  <2>1. appPc = "shutdown" /\ appPc' = "clearArm" /\ UNCHANGED armed
    BY <1>3 DEF StoreShutdownBlank, settings
  <2>2. armed' = FALSE
    BY <2>1 DEF BlankInv
  <2>. QED
    BY <2>1, <2>2 DEF BlankInv, StartupBlanked
<1>4. CASE AppClearLine
  <2>1. /\ UNCHANGED <<armed, fresh, startupBlank, overlapped, sinceSwitch, owed, out, wpc, loaded,
                       batch>>
        /\ delayLine' = << >> /\ appPc' = "idle"
    BY <1>4 DEF AppClearLine, UnchangedWorker, settings, observed
  <2>2. LateLine(delayLine)'
    BY <2>1 DEF LateLine
  <2>. QED
    BY <2>1, <2>2 DEF BlankInv, LateBatch, StartupBlanked, PlaceOf
<1>5. ASSUME NEW enabled \in BOOLEAN, SetScannerSyncEnabled(enabled) PROVE BlankInv'
  BY <1>b, <1>5 DEF SetScannerSyncEnabled, UnchangedWorker, observed, Switching
<1>6. ASSUME NEW ms \in SyncTimes, SetScannerSync(ms) PROVE BlankInv'
  BY <1>b, <1>6 DEF SetScannerSync, UnchangedWorker, observed, Switching
<1>7. ASSUME NEW pointsPerMs \in Rates, SetPointRate(pointsPerMs) PROVE BlankInv'
  BY <1>b, <1>7 DEF SetPointRate, UnchangedWorker, observed, Switching
<1>8. CASE ResetStartupBlank
  <2>. DEFINE due == sinceSwitch + MillisToPoints(1)
  <2>1. /\ UNCHANGED <<armed, fresh, overlapped, sinceSwitch, out, appPc, delayLine>>
        /\ wpc = "idle" /\ wpc' = "resetStore" /\ loaded' = MillisToPoints(1)
        /\ UNCHANGED <<startupBlank, rate>>
        /\ armed => owed' = IF due < owed THEN due ELSE owed
    BY <1>8 DEF ResetStartupBlank, UnchangedApp
  <2>2. MillisToPoints(1) \in Nat /\ due \in Nat
    BY <1>0 DEF MillisToPoints
  <2>3. armed => owed' \in Nat /\ owed' <= owed /\ due >= owed'
    BY <1>0, <2>1, <2>2
  <2>4. CASE ~armed
    BY <2>1, <2>4 DEF BlankInv, StartupBlanked
  <2>5. CASE armed
    <3>1. owed' \in Nat /\ owed' <= owed /\ sinceSwitch' + loaded' >= owed'
      BY <2>1, <2>3, <2>5
    <3>a. overlapped = FALSE => sinceSwitch' + startupBlank' >= owed'
      <4>1. overlapped = FALSE => sinceSwitch + startupBlank >= owed
        BY <2>1, <2>5 DEF BlankInv, Blanked, PastArming
      <4>. QED
        BY <1>0, <2>1, <3>1, <4>1
    <3>2. overlapped = FALSE /\ ~Switching => LateLine(delayLine)'
      <4>1. ASSUME overlapped = FALSE, ~Switching, NEW i \in 1 .. Len(delayLine), delayLine[i] = "lit"
            PROVE  sinceSwitch + i > owed'
        <5>1. sinceSwitch + i > owed /\ i \in Int
          BY <2>5, <4>1 DEF BlankInv, LateLine
        <5>. QED
          BY <1>0, <3>1, <5>1
      <4>. QED
        BY <2>1, <4>1 DEF LateLine
    <3>3. StartupBlanked'
      <4>1. ASSUME out.fresh, overlapped = FALSE, NEW i \in DOMAIN out.points, PlaceOf(i) <= owed'
            PROVE  out.points[i].rgb = "dark"
        <5>1. out.points \in Seq(Point) /\ out.from \in Nat
          BY <1>0 DEF TypeOK
        <5>2. i \in Nat
          BY <5>1, SequenceIsFunction
        <5>3. PlaceOf(i) <= owed
          BY <1>0, <3>1, <4>1, <5>1, <5>2 DEF PlaceOf
        <5>. QED
          BY <2>5, <4>1, <5>3 DEF BlankInv, StartupBlanked
      <4>. QED
        BY <1>0, <2>1, <4>1 DEF StartupBlanked, PlaceOf
    <3>. QED
      BY <2>1, <3>1, <3>a, <3>2, <3>3 DEF BlankInv, Blanked, PastArming, Switching,
           MillisToPoints
  <2>. QED
    BY <2>4, <2>5
<1>s. CASE StoreReset
  <2>1. /\ wpc = "resetStore" /\ wpc' = "resetClear" /\ startupBlank' = loaded
        /\ UNCHANGED <<armed, fresh, overlapped, sinceSwitch, owed, out, appPc, delayLine>>
    BY <1>s DEF StoreReset, UnchangedApp, observed
  <2>2. armed /\ overlapped = FALSE => sinceSwitch' + startupBlank' >= owed'
    BY <2>1 DEF BlankInv
  <2>. QED
    BY <2>1, <2>2 DEF BlankInv, LateLine, StartupBlanked, PlaceOf, Blanked, PastArming, Switching
<1>9. ASSUME NEW flag \in BOOLEAN, SetSuppressed(flag) PROVE BlankInv'
  BY <1>b, <1>9 DEF SetSuppressed, UnchangedApp, observed, Blanked, PastArming, Switching
<1>10. CASE WorkerClearLine
  <2>1. /\ UNCHANGED <<armed, startupBlank, overlapped, sinceSwitch, owed, out, appPc>>
        /\ delayLine' = << >> /\ wpc = "resetClear" /\ wpc' = "idle"
    BY <1>10 DEF WorkerClearLine, UnchangedApp, observed
  <2>2. LateLine(delayLine)'
    BY <2>1 DEF LateLine
  <2>. QED
    BY <2>1, <2>2 DEF BlankInv, StartupBlanked, PlaceOf, Blanked, PastArming
<1>11. ASSUME NEW points \in Batches, Request(points) PROVE BlankInv'
  <2>1. /\ UNCHANGED <<armed, startupBlank, sinceSwitch, owed, appPc, delayLine>>
        /\ wpc = "idle" /\ wpc' = "loadStartup" /\ out' = NoOutput
        /\ overlapped' = (overlapped \/ Switching)
    BY <1>11 DEF Request, UnchangedApp
  <2>2. overlapped' = FALSE => overlapped = FALSE
    BY <1>0, <2>1
  <2>. QED
    BY <2>1, <2>2 DEF BlankInv, LateLine, StartupBlanked, NoOutput, Blanked, PastArming, Switching
<1>12. CASE LoadStartupBlank
  <2>1. /\ UNCHANGED <<armed, startupBlank, overlapped, sinceSwitch, owed, out, appPc, delayLine>>
        /\ wpc = "loadStartup" /\ loaded' = startupBlank
        /\ batch' = BlankFirst(batch, startupBlank)
        /\ wpc' = IF startupBlank > 0 THEN "storeStartup" ELSE "loadArmed"
    BY <1>12 DEF LoadStartupBlank, UnchangedApp, observed
  <2>2. CASE ~(armed /\ overlapped = FALSE)
    BY <2>1, <2>2 DEF BlankInv, StartupBlanked, PlaceOf
  <2>3. CASE armed /\ overlapped = FALSE
    <3>1. sinceSwitch + startupBlank >= owed
      BY <2>1, <2>3 DEF BlankInv, Blanked, PastArming
    <3>2. LateBatch(BlankFirst(batch, startupBlank))
      BY <1>0, <3>1, BlankFirstLate
    <3>3. LateBatch(batch)'
      BY <2>1, <3>2 DEF LateBatch
    <3>4. Len(batch') = Len(batch)
      BY <1>0, <2>1, BlankFirstType
    <3>5. sinceSwitch + Len(batch) + startupBlank >= owed
      BY <1>0, <3>1
    <3>. QED
      BY <2>1, <2>3, <3>1, <3>3, <3>4, <3>5
         DEF BlankInv, LateLine, StartupBlanked, PlaceOf, Blanked, PastArming, Switching
  <2>. QED
    BY <2>2, <2>3
<1>13. CASE StoreStartupRemainder
  <2>1. /\ UNCHANGED <<armed, overlapped, sinceSwitch, owed, out, appPc, delayLine, batch>>
        /\ wpc = "storeStartup" /\ wpc' = "loadArmed"
        /\ startupBlank' = AtLeastZero(loaded - Len(batch))
    BY <1>13 DEF StoreStartupRemainder, UnchangedApp, observed
  <2>2. CASE ~(armed /\ overlapped = FALSE)
    BY <2>1, <2>2 DEF BlankInv, StartupBlanked, PlaceOf
  <2>3. CASE armed /\ overlapped = FALSE
    <3>1. sinceSwitch + loaded >= owed /\ LateBatch(batch)
      BY <2>1, <2>3 DEF BlankInv, Blanked
    <3>2. sinceSwitch + Len(batch) + AtLeastZero(loaded - Len(batch)) >= owed
      BY <1>0, <3>1, BlankCovers
    <3>. QED
      BY <2>1, <2>3, <3>1, <3>2
         DEF BlankInv, LateBatch, LateLine, StartupBlanked, PlaceOf, Blanked, PastArming, Switching
  <2>. QED
    BY <2>2, <2>3
<1>14. CASE LoadArmed
  <2>1. /\ UNCHANGED <<armed, fresh, startupBlank, overlapped, sinceSwitch, owed, out, delayLine, appPc,
                       batch, rate>>
        /\ wpc = "loadArmed" /\ wpc' \in {"loadSuppressed", "loadShutdown"}
    BY <1>14 DEF LoadArmed, UnchangedApp, observed
  <2>. QED
    BY <1>b, <2>1 DEF Blanked, PastArming, Switching
<1>15. CASE LoadShutdownBlank
  <2>1. /\ UNCHANGED <<armed, startupBlank, overlapped, sinceSwitch, owed, out, appPc, delayLine>>
        /\ wpc = "loadShutdown" /\ wpc' = "storeShutdown"
        /\ batch' = HoldThenPark(batch, shutdownBlank)
    BY <1>15 DEF LoadShutdownBlank, UnchangedApp, observed
  <2>2. shutdownBlank \in Nat /\ lastContent \in Positions \cup {Centre}
    BY <1>0 DEF TypeOK
  <2>3. Dark(batch') /\ Len(batch') = Len(batch)
    BY <1>0, <2>1, <2>2, HoldThenParkType
  <2>4. LateBatch(batch)'
    BY <2>3 DEF LateBatch, Dark
  <2>. QED
    BY <2>1, <2>3, <2>4
       DEF BlankInv, LateLine, StartupBlanked, PlaceOf, Blanked, PastArming, Switching
<1>16. CASE StoreShutdownRemainder \/ LoadSuppressed \/ LoadEnabled \/ LoadSync \/ LoadShift
  <2>1. /\ UNCHANGED <<armed, fresh, startupBlank, overlapped, sinceSwitch, owed, out, delayLine, appPc,
                       batch, rate>>
        /\ wpc \in PastArming /\ wpc' \in PastArming
    BY <1>16 DEF StoreShutdownRemainder, LoadSuppressed, LoadEnabled, LoadSync, LoadShift, UnchangedApp,
         observed, PastArming
  <2>. QED
    BY <1>b, <2>1 DEF Blanked, PastArming, Switching
<1>17. CASE BypassDelay
  <2>1. wpc = "bypass" /\ HandOver(batch) /\ delayLine' = << >>
    BY <1>17 DEF BypassDelay
  <2>2. Len(delayLine') = 0
    BY <2>1
  <2>. QED
    BY <1>0, <2>1, <2>2, HandOverBlanks
<1>18. CASE ApplyDelay
  <2>. DEFINE line == Resize(delayLine, shift)
              shown == DelayedPoints(line, batch)
  <2>1. line \in Seq(Colour)
    BY <1>0, ResizeType
  <2>2. wpc = "delay" /\ HandOver(shown) /\ delayLine' = DelayedLine(line, batch)
    BY <1>18 DEF ApplyDelay
  <2>3. shown \in Seq(Point) /\ Len(shown) = Len(batch) /\ Len(delayLine') = Len(line)
    BY <1>0, <2>1, <2>2, DelayType
  <2>4. Len(line) \in Nat
    BY <2>1, SequenceIsFunction
  <2>5. CASE armed /\ overlapped = FALSE
    <3>1. ~Switching
      BY <1>0, <1>a, <2>2, <2>5 DEF LeakInv, InBatch
    <3>2. LateBatch(batch) /\ LateLine(delayLine)
      BY <2>2, <2>5, <3>1 DEF BlankInv, Blanked, PastArming
    <3>3. LateLine(line)
      BY <1>0, <3>2, ResizeLate
    <3>4. /\ LateBatch(shown)
          /\ \A i \in 1 .. Len(line) : delayLine'[i] = "lit" =>
                 sinceSwitch + Len(batch) + i > owed
      BY <1>0, <2>1, <2>2, <3>2, <3>3, DelayLate
    <3>. HIDE DEF line, shown
    <3>. QED
      BY <2>2, <2>3, <2>4, <3>4, HandOverBlanks
  <2>6. CASE ~(armed /\ overlapped = FALSE)
    <3>1. UNCHANGED <<armed, overlapped, appPc>>
      BY <2>2 DEF HandOver, UnchangedApp
    <3>. QED
      BY <1>0, <2>6, <3>1 DEF BlankInv, StartupBlanked
  <2>. QED
    BY <2>5, <2>6
<1>19. CASE UNCHANGED vars
  BY <1>b, <1>19 DEF vars, settings, observed, Switching
<1>. QED
  BY <1>1, <1>2, <1>3, <1>4, <1>5, <1>6, <1>7, <1>8, <1>9, <1>10, <1>11, <1>12, <1>13, <1>14,
     <1>15, <1>16, <1>17, <1>18, <1>19, <1>s DEF Next, App, Worker, PostProcess

\* StartupBlanked is an invariant: after an arming that overlapped neither a
\* batch nor a reset of the worker's, the points of the startup blank come out
\* dark, whatever the delay line does to their colours, however settings change
\* meanwhile and however often the worker resets the count again.
THEOREM BlanksAtStartup == Spec => []StartupBlanked
<1>1. Init => BlankInv
  BY DEF Init, BlankInv, StartupBlanked, NoOutput
<1>2. TypeOK /\ TypeOK' /\ LeakInv /\ BlankInv /\ [Next]_vars => BlankInv'
  BY BlankKept
<1>3. BlankInv => StartupBlanked
  BY DEF BlankInv
<1>. QED
  BY <1>1, <1>2, <1>3, TypeCorrect, LeakInvariant, PTL DEF Spec
=============================================================================
