--------------------------- MODULE OutputPipeline ---------------------------
(***************************************************************************)
(* The last stage every point passes before a backend sends it:            *)
(* LaserControllerStreaming::postProcessOutputPoints, run by the           *)
(* controller's worker thread, against the setters an application thread   *)
(* calls at the same time (setArmed, setScannerSyncEnabled,                *)
(* setScannerSync, setPointRate).                                          *)
(*                                                                         *)
(* The settings are relaxed atomics and only the colour delay line has a   *)
(* mutex, so an action is one access to one shared variable, or one        *)
(* critical section.  A colour is lit or dark: blanking, delaying and      *)
(* arming tell no other colours apart.                                     *)
(***************************************************************************)
EXTENDS Integers, Sequences, FiniteSets

CONSTANTS
    Positions,   \* where content may point the galvos
    Centre,      \* (0, 0), where a disarmed controller parks them
    Content,     \* the points a content source produces
    MaxBatch,    \* the most points one request returns
    SyncTimes,   \* the scanner-sync times an application sets, in ms
    Rates,       \* the point rates an application sets, in points per ms
    MaxRate,     \* bounds of the two sets above
    MaxSync

Colour == {"dark", "lit"}
Point == [at : Positions \cup {Centre}, rgb : Colour]

ASSUME PipelineAssumption ==
    /\ Content \subseteq Point
    /\ MaxBatch \in Nat \ {0} /\ MaxRate \in Nat /\ MaxSync \in Nat
    /\ SyncTimes \subseteq 0 .. MaxSync /\ SyncTimes # {}
    /\ Rates \subseteq 0 .. MaxRate /\ Rates # {}

VARIABLES
    armed, syncEnabled, suppressed, \* flags
    syncTime, rate,                 \* settings
    startupBlank, shutdownBlank,    \* points still to blank, and to hold
    delayLine,                      \* colours not shown yet, oldest first
    lastContent,                    \* the worker's last armed position
    appPc,                          \* where the application's call is
    wpc, batch, loaded, shift,      \* the worker: place, points, locals
    out,                            \* observed: the last batch handed over
    overlapped,                     \* observed: the last arming switch was
                                    \*   made during a batch or, arming,
                                    \*   during the worker's reset
    fresh,                          \* observed: this batch began after it
    sinceSwitch,                    \* observed: fresh points handed over
    owed                            \* observed: points the switch darkens
                                    \*   (arming) or holds (disarming)

settings == <<armed, syncEnabled, suppressed, syncTime, rate>>
observed == <<out, overlapped, fresh, sinceSwitch, owed>>
vars == <<settings, startupBlank, shutdownBlank, delayLine, lastContent,
          appPc, wpc, batch, loaded, shift, observed>>

Batches == UNION {[1 .. n -> Content] : n \in 0 .. MaxBatch}

\* llround(seconds * rate) for the whole numbers of points per ms used here.
MillisToPoints(ms) == ms * rate

MaxShift == MaxSync * MaxRate
MaxHold == MaxShift + MaxRate
AtMostHold(n) == IF n > MaxHold THEN MaxHold ELSE n
\* Mutant: the remainder is stored without clamping it at zero.
AtLeastZeroUnclamped(n) == n

AtLeastZero(n) == IF n > 0 THEN n ELSE 0

NoOutput == [points |-> <<>>, fresh |-> FALSE, from |-> 0]

(***************************************************************************)
(* What the code does to a batch.                                          *)
(***************************************************************************)
\* Mutant: the startup loop skips the first point of the batch.
BlankFirstOffByOne(points, n) ==
    [i \in DOMAIN points |->
        [points[i] EXCEPT !.rgb = IF 1 < i /\ i <= n THEN "dark" ELSE @]]

\* The loop of applyStartupBlankToOutputPoints.
BlankFirst(points, n) ==
    [i \in DOMAIN points |->
        [points[i] EXCEPT !.rgb = IF i <= n THEN "dark" ELSE @]]

\* Mutant: the hold ends one point early.
HoldThenParkShort(points, n) ==
    [i \in DOMAIN points |->
        [at |-> IF i < n THEN lastContent ELSE Centre, rgb |-> "dark"]]

\* The disarmed loop: everything dark, the first n points held at the last
\* content position, the rest at the centre.
HoldThenPark(points, n) ==
    [i \in DOMAIN points |->
        [at |-> IF i <= n THEN lastContent ELSE Centre, rgb |-> "dark"]]

\* deque::resize: drops from the back, or adds default (dark) points there.
Resize(line, n) ==
    [i \in 1 .. n |-> IF i <= Len(line) THEN line[i] ELSE "dark"]

\* The i-th colour of the line followed by the colours of the points.
Queued(line, points, i) ==
    IF i <= Len(line) THEN line[i] ELSE points[i - Len(line)].rgb

\* push_back, front and pop_front for every point: the points take the
\* colours from the front of the queue and the line keeps the rest.
DelayedPoints(line, points) ==
    [i \in DOMAIN points |->
        [points[i] EXCEPT !.rgb = Queued(line, points, i)]]
DelayedLine(line, points) ==
    [i \in DOMAIN line |-> Queued(line, points, Len(points) + i)]

(***************************************************************************)
(* The application thread.                                                 *)
(***************************************************************************)
Switching == appPc \in {"startup", "shutdown", "clearArm"}
InBatch == wpc \notin {"idle", "resetStore", "resetClear"}
Overlaps(state) == InBatch \/ (state /\ wpc = "resetStore")

UnchangedWorker == UNCHANGED <<lastContent, wpc, batch, loaded, shift>>

\* setArmed: exchange first; the counters are reset after it.
SetArmed(state) ==
    /\ appPc = "idle"
    /\ armed' = state
    /\ IF state = armed
       THEN UNCHANGED <<appPc, observed>>
       ELSE /\ appPc' = IF state THEN "startup" ELSE "shutdown"
            /\ overlapped' = Overlaps(state)
            /\ fresh' = FALSE
            /\ sinceSwitch' = 0
            /\ owed' = 0
            /\ out' = NoOutput
    /\ UNCHANGED <<syncEnabled, suppressed, syncTime, rate, startupBlank,
                   shutdownBlank, delayLine>>
    /\ UnchangedWorker

\* resetStartupBlank called by setArmed(true): the store.  The rate it
\* loads just before is one that only this thread writes.
StoreStartupBlank ==
    /\ appPc = "startup"
    /\ startupBlank' = MillisToPoints(1)
    /\ owed' = MillisToPoints(1)
    /\ appPc' = "clearArm"
    /\ UNCHANGED <<settings, shutdownBlank, delayLine, out, overlapped,
                   fresh, sinceSwitch>>
    /\ UnchangedWorker

\* resetShutdownBlank called by setArmed(false): the store.  It reads the
\* sync settings, which only this thread writes.
StoreShutdownBlank ==
    LET hold == MillisToPoints(IF syncEnabled THEN syncTime ELSE 0)
                    + MillisToPoints(1)
    IN  /\ appPc = "shutdown"
        /\ shutdownBlank' = hold
        /\ owed' = hold
        /\ appPc' = "clearArm"
        /\ UNCHANGED <<settings, startupBlank, delayLine, out, overlapped,
                       fresh, sinceSwitch>>
        /\ UnchangedWorker

\* Mutant: the resets forget the delay line.
AppKeepLine ==
    /\ appPc \in {"clearArm", "clearSync"}
    /\ appPc' = "idle"
    /\ UNCHANGED <<delayLine, settings, startupBlank, shutdownBlank, observed>>
    /\ UnchangedWorker

\* The critical section that ends resetStartupBlank, resetShutdownBlank and
\* a setScannerSyncEnabled that changed the flag.
AppClearLine ==
    /\ appPc \in {"clearArm", "clearSync"}
    /\ delayLine' = <<>>
    /\ appPc' = "idle"
    /\ UNCHANGED <<settings, startupBlank, shutdownBlank, observed>>
    /\ UnchangedWorker

SetScannerSyncEnabled(enabled) ==
    /\ appPc = "idle"
    /\ syncEnabled' = enabled
    /\ appPc' = IF enabled # syncEnabled THEN "clearSync" ELSE "idle"
    /\ UNCHANGED <<armed, suppressed, syncTime, rate, startupBlank,
                   shutdownBlank, delayLine, observed>>
    /\ UnchangedWorker

SetScannerSync(ms) ==
    /\ appPc = "idle"
    /\ syncTime' = ms
    /\ UNCHANGED <<armed, syncEnabled, suppressed, rate, startupBlank,
                   shutdownBlank, delayLine, appPc, observed>>
    /\ UnchangedWorker

SetPointRate(pointsPerMs) ==
    /\ appPc = "idle"
    /\ rate' = pointsPerMs
    /\ UNCHANGED <<armed, syncEnabled, suppressed, syncTime, startupBlank,
                   shutdownBlank, delayLine, appPc, observed>>
    /\ UnchangedWorker

(***************************************************************************)
(* The worker thread, between batches.                                     *)
(***************************************************************************)
UnchangedApp == UNCHANGED <<armed, syncEnabled, syncTime, rate, appPc>>

\* resetStartupBlank called by the backend when a transport (re)starts: the
\* load of the point rate.  A reset that begins after an arm may shorten the
\* blank still owed, if the rate went down since.
ResetStartupBlank ==
    LET due == sinceSwitch + MillisToPoints(1)
    IN  /\ wpc = "idle"
        /\ loaded' = MillisToPoints(1)
        /\ owed' = IF armed /\ due < owed THEN due ELSE owed
        /\ wpc' = "resetStore"
        /\ UNCHANGED <<suppressed, startupBlank, shutdownBlank, delayLine,
                       lastContent, batch, shift, out, overlapped, fresh,
                       sinceSwitch>>
        /\ UnchangedApp

\* Its store, which may overwrite the longer blank of an arm made since the
\* load; then WorkerClearLine.
StoreReset ==
    /\ wpc = "resetStore"
    /\ startupBlank' = loaded
    /\ loaded' = 0
    /\ wpc' = "resetClear"
    /\ UNCHANGED <<suppressed, shutdownBlank, delayLine, lastContent, batch,
                   shift, observed>>
    /\ UnchangedApp

\* setScannerSyncPostProcessSuppressed, which the Libera protocol's worker
\* wraps around a request when the device applies scanner sync itself.
SetSuppressed(flag) ==
    /\ wpc = "idle"
    /\ suppressed' = flag
    /\ wpc' = IF flag # suppressed THEN "resetClear" ELSE "idle"
    /\ UNCHANGED <<startupBlank, shutdownBlank, delayLine, lastContent,
                   batch, loaded, shift, observed>>
    /\ UnchangedApp

WorkerClearLine ==
    /\ wpc = "resetClear"
    /\ delayLine' = <<>>
    /\ wpc' = "idle"
    /\ UNCHANGED <<suppressed, startupBlank, shutdownBlank, lastContent,
                   batch, loaded, shift, observed>>
    /\ UnchangedApp

(***************************************************************************)
(* The worker thread, through postProcessOutputPoints.                     *)
(***************************************************************************)
\* requestPoints or requestFrame obtained a batch from the content source.
Request(points) ==
    /\ wpc = "idle"
    /\ batch' = points
    /\ wpc' = "loadStartup"
    /\ fresh' = ~Switching
    /\ overlapped' = (overlapped \/ Switching)
    /\ out' = NoOutput
    /\ UNCHANGED <<suppressed, startupBlank, shutdownBlank, delayLine,
                   lastContent, loaded, shift, sinceSwitch, owed>>
    /\ UnchangedApp

LoadStartupBlank ==
    /\ wpc = "loadStartup"
    /\ loaded' = startupBlank
    /\ batch' = BlankFirst(batch, startupBlank)
    /\ wpc' = IF startupBlank > 0 THEN "storeStartup" ELSE "loadArmed"
    /\ UNCHANGED <<suppressed, startupBlank, shutdownBlank, delayLine,
                   lastContent, shift, observed>>
    /\ UnchangedApp

StoreStartupRemainder ==
    /\ wpc = "storeStartup"
    /\ startupBlank' = AtLeastZero(loaded - Len(batch))
    /\ loaded' = 0
    /\ wpc' = "loadArmed"
    /\ UNCHANGED <<suppressed, shutdownBlank, delayLine, lastContent, batch,
                   shift, observed>>
    /\ UnchangedApp

LoadArmed ==
    /\ wpc = "loadArmed"
    /\ wpc' = IF armed THEN "loadSuppressed" ELSE "loadShutdown"
    /\ lastContent' = IF armed /\ batch # <<>>
                      THEN batch[Len(batch)].at ELSE lastContent
    /\ UNCHANGED <<suppressed, startupBlank, shutdownBlank, delayLine, batch,
                   loaded, shift, observed>>
    /\ UnchangedApp

LoadShutdownBlank ==
    /\ wpc = "loadShutdown"
    /\ loaded' = shutdownBlank
    /\ batch' = HoldThenPark(batch, shutdownBlank)
    /\ wpc' = "storeShutdown"
    /\ UNCHANGED <<suppressed, startupBlank, shutdownBlank, delayLine,
                   lastContent, shift, observed>>
    /\ UnchangedApp

StoreShutdownRemainder ==
    /\ wpc = "storeShutdown"
    /\ shutdownBlank' = AtLeastZero(loaded - Len(batch))
    /\ loaded' = 0
    /\ wpc' = "loadSuppressed"
    /\ UNCHANGED <<suppressed, startupBlank, delayLine, lastContent, batch,
                   shift, observed>>
    /\ UnchangedApp

LoadSuppressed ==
    /\ wpc = "loadSuppressed"
    /\ wpc' = IF suppressed THEN "bypass" ELSE "loadEnabled"
    /\ UNCHANGED <<suppressed, startupBlank, shutdownBlank, delayLine,
                   lastContent, batch, loaded, shift, observed>>
    /\ UnchangedApp

LoadEnabled ==
    /\ wpc = "loadEnabled"
    /\ wpc' = IF syncEnabled THEN "loadSync" ELSE "bypass"
    /\ UNCHANGED <<suppressed, startupBlank, shutdownBlank, delayLine,
                   lastContent, batch, loaded, shift, observed>>
    /\ UnchangedApp

\* The shift is computed from two loads.
LoadSync ==
    /\ wpc = "loadSync"
    /\ loaded' = syncTime
    /\ wpc' = "loadShift"
    /\ UNCHANGED <<suppressed, startupBlank, shutdownBlank, delayLine,
                   lastContent, batch, shift, observed>>
    /\ UnchangedApp

LoadShift ==
    /\ wpc = "loadShift"
    /\ shift' = MillisToPoints(loaded)
    /\ loaded' = 0
    /\ wpc' = "delay"
    /\ UNCHANGED <<suppressed, startupBlank, shutdownBlank, delayLine,
                   lastContent, batch, observed>>
    /\ UnchangedApp

\* Handing the points to the backend, which ends the request.  Only a batch
\* begun after the last switch is observed.
HandOver(points) ==
    /\ out' = IF fresh
              THEN [points |-> points, fresh |-> TRUE, from |-> sinceSwitch]
              ELSE NoOutput
    /\ sinceSwitch' = IF fresh THEN AtMostHold(sinceSwitch + Len(points))
                      ELSE sinceSwitch
    /\ batch' = <<>>
    /\ loaded' = 0
    /\ shift' = 0
    /\ wpc' = "idle"
    /\ UNCHANGED <<suppressed, startupBlank, shutdownBlank, lastContent,
                   overlapped, owed>>
    /\ fresh' = FALSE
    /\ UnchangedApp

\* Scanner sync is off or done by the device: clear the line and return.
BypassDelay ==
    /\ wpc = "bypass"
    /\ delayLine' = <<>>
    /\ HandOver(batch)

\* The critical section that shifts the colours.
ApplyDelay ==
    LET line == Resize(delayLine, shift)
    IN  /\ wpc = "delay"
        /\ delayLine' = DelayedLine(line, batch)
        /\ HandOver(DelayedPoints(line, batch))

(***************************************************************************)
(* The specification.                                                      *)
(***************************************************************************)
Init ==
    /\ armed = FALSE /\ syncEnabled = TRUE /\ suppressed = FALSE
    /\ syncTime \in SyncTimes /\ rate \in Rates
    /\ startupBlank = 0 /\ shutdownBlank = 0
    /\ delayLine = <<>>
    /\ lastContent = Centre
    /\ appPc = "idle"
    /\ wpc = "idle" /\ batch = <<>> /\ loaded = 0 /\ shift = 0
    /\ out = NoOutput /\ overlapped = FALSE /\ fresh = FALSE
    /\ sinceSwitch = 0 /\ owed = 0

App ==
    \/ \E state \in BOOLEAN : SetArmed(state)
    \/ StoreStartupBlank
    \/ StoreShutdownBlank
    \/ AppClearLine
    \/ \E enabled \in BOOLEAN : SetScannerSyncEnabled(enabled)
    \/ \E ms \in SyncTimes : SetScannerSync(ms)
    \/ \E pointsPerMs \in Rates : SetPointRate(pointsPerMs)

PostProcess ==
    \/ LoadStartupBlank
    \/ StoreStartupRemainder
    \/ LoadArmed
    \/ LoadShutdownBlank
    \/ StoreShutdownRemainder
    \/ LoadSuppressed
    \/ LoadEnabled
    \/ LoadSync
    \/ LoadShift
    \/ BypassDelay
    \/ ApplyDelay

Worker ==
    \/ ResetStartupBlank
    \/ StoreReset
    \/ \E flag \in BOOLEAN : SetSuppressed(flag)
    \/ WorkerClearLine
    \/ \E points \in Batches : Request(points)
    \/ PostProcess

Next == App \/ Worker

Spec == Init /\ [][Next]_vars

(***************************************************************************)
(* Properties.                                                             *)
(***************************************************************************)
\* What the worker's local may hold, by what it was loaded from.
LargestLoad ==
    CASE wpc \in {"storeStartup", "resetStore"} -> MaxRate
      [] wpc = "loadShift" -> MaxSync
      [] OTHER -> MaxHold

\* Every variable of the pipeline keeps its type: the counters of
\* resetStartupBlank and resetShutdownBlank stay within what the settings
\* allow and the delay line never outgrows the largest shift.
TypeOK ==
    /\ armed \in BOOLEAN /\ syncEnabled \in BOOLEAN /\ suppressed \in BOOLEAN
    /\ syncTime \in SyncTimes /\ rate \in Rates
    /\ startupBlank \in 0 .. MaxRate /\ shutdownBlank \in 0 .. MaxHold
    /\ delayLine \in Seq(Colour) /\ Len(delayLine) <= MaxShift
    /\ lastContent \in Positions \cup {Centre}
    /\ appPc \in {"idle", "startup", "shutdown", "clearArm", "clearSync"}
    /\ wpc \in {"idle", "resetStore", "resetClear", "loadStartup",
               "storeStartup", "loadArmed", "loadShutdown", "storeShutdown",
               "loadSuppressed", "loadEnabled", "loadSync", "loadShift",
               "delay", "bypass"}
    /\ batch \in Seq(Point) /\ Len(batch) <= MaxBatch
    /\ loaded \in 0 .. LargestLoad
    /\ shift \in 0 .. MaxShift
    /\ out \in [points : Seq(Point), fresh : BOOLEAN, from : 0 .. MaxHold]
    /\ overlapped \in BOOLEAN /\ fresh \in BOOLEAN
    /\ sinceSwitch \in 0 .. MaxHold /\ owed \in 0 .. MaxHold

\* The place in the stream since the switch of the i-th point handed over.
PlaceOf(i) == out.from + i

\* What is left of "disarming stops the output": a batch that
\* postProcessOutputPoints began after setArmed(false) returned shows a lit
\* point only if another batch overlapped the call, and then only among
\* the first points, as many as the longest delay line holds.
DisarmLeakBounded ==
    ~armed /\ out.fresh =>
        \A i \in DOMAIN out.points :
            out.points[i].rgb = "lit" => overlapped /\ PlaceOf(i) <= MaxShift

\* After a disarm that no batch overlapped the galvos rest at the last
\* content position for exactly the points resetShutdownBlank asked for and
\* are at the centre from then on; after an overlapped one they have left
\* for the centre once the longest hold has passed.
HoldThenCentre ==
    ~armed /\ out.fresh =>
        \A i \in DOMAIN out.points :
            LET at == out.points[i].at
            IN  /\ PlaceOf(i) > MaxHold => at = Centre
                /\ ~overlapped /\ PlaceOf(i) <= owed => at = lastContent
                /\ ~overlapped /\ PlaceOf(i) > owed => at = Centre

\* After an arming that overlapped neither a batch nor a resetStartupBlank of
\* the worker between its load and its store, every point of the startup
\* blank comes out dark, whatever count an earlier session left behind and
\* whatever the delay line held.  Either overlap can lose the blank.
StartupBlanked ==
    armed /\ out.fresh /\ ~overlapped =>
        \A i \in DOMAIN out.points :
            PlaceOf(i) <= owed => out.points[i].rgb = "dark"

=============================================================================
