----------------------------- MODULE EtherDream -----------------------------
(***************************************************************************)
(* EtherDreamController: the worker thread that connects to an Ether Dream *)
(* DAC, takes it through stop / clear / prepare / begin and keeps its point*)
(* buffer at the latency target, against a DAC with a mind of its own.     *)
(*                                                                         *)
(* The worker has one command outstanding at a time and reads answers from *)
(* a byte stream it matches by opcode only, so an answer that comes after  *)
(* its read timed out stays in the stream for the next reader.  The DAC is *)
(* the one the protocol probe of the tests describes: prepare is refused   *)
(* unless idle, clear unless in E-stop, begin on an empty buffer, data when*)
(* idle, and starving it returns it to idle with the underflow flag set.   *)
(***************************************************************************)
EXTENDS Naturals, Sequences, BufferEstimator

CONSTANTS
    Capacity,       \* points the DAC's FIFO holds (advertised)
    Floor,          \* ETHERDREAM_MIN_BUFFER_POINTS
    Headroom,       \* ETHERDREAM_SAFETY_HEADROOM_POINTS
    WriteHeadroom,  \* ETHERDREAM_WRITE_HEADROOM_POINTS
    MaxPacket,      \* ETHERDREAM_MAX_PACKET_POINTS
    RefillMin,      \* ETHERDREAM_NORMAL_REFILL_MIN_DEFICIT_POINTS
    UnderrunLevel,  \* playingUnderrunBufferThreshold()
    Rates,          \* point rates the application may ask for
    Latencies,      \* target latencies the application may ask for
    DefaultRate, DefaultLatency, \* the ones in force before it asks
    MaxFaults,      \* bound on timeouts, refused connections and DAC upsets
    MaxChanges      \* bound on the application's setting changes

ASSUME EtherDreamAssumption ==
    /\ Capacity \in Nat \ {0} /\ Floor \in Nat \ {0} /\ UnderrunLevel \in Nat
    /\ Headroom \in Nat /\ WriteHeadroom \in Nat /\ RefillMin \in Nat
    /\ MaxPacket \in Nat \ {0}
    /\ Rates \subseteq Nat \ {0} /\ DefaultRate \in Rates
    /\ Latencies \subseteq Nat /\ DefaultLatency \in Latencies
    /\ MaxFaults \in Nat /\ MaxChanges \in Nat

VARIABLES
    running,    \* LaserControllerStreaming::running, cleared by stopThread()
    rate,       \* the desired point rate
    latency,    \* the global target latency
    pc,         \* where the worker is
    cmd,        \* the command whose answer it waits for
    drv,        \* its protocol state (see Drivers)
    firmware,   \* firmwareVersionString: none, the DAC's, or garbage
    probeOff,   \* firmwareProbeDisabledForSession
    link,       \* the TCP connection: down, open, or open and greeted
    inbox,      \* commands on their way to the DAC
    wire,       \* answers on their way to the worker
    dac,        \* the DAC
    faults, changes

vars == <<running, rate, latency, pc, cmd, drv, firmware, probeOff,
          link, inbox, wire, dac, faults, changes>>
app == <<running, rate, latency, changes>>
probe == <<firmware, probeOff>>

-----------------------------------------------------------------------------
(* States and messages.                                                    *)

Opcodes == {"?", "s", "c", "p", "b", "d", "v"}
LightEngine == {"ready", "warmup", "estop"}
Playback == {"idle", "prepared", "playing"}
Actions == {"stop", "clear", "prepare", "begin", "none"}

\* What an answer says of the DAC; "bad" stands for an implausible point rate.
Statuses == [le: LightEngine, pb: Playback, full: 0..Capacity, bad: BOOLEAN, under: BOOLEAN]
NoStatus == [le |-> "ready", pb |-> "idle", full |-> 0, bad |-> FALSE, under |-> FALSE]

\* "text" is the 32-byte firmware string, "junk" what is left of one.
Replies == [reply: {"a", "I", "F", "!", "text", "junk"}, op: Opcodes, status: Statuses]

\* A data command carries its point count and whether its points start blanked.
Commands == [op: Opcodes, n: 0..Capacity, lead: BOOLEAN]
Bare(op) == [op |-> op, n |-> 0, lead |-> FALSE]

\* The worker's members: the next lifecycle action, the last status and the
\* points played since it came, the two implausible-rate latches, the rate of
\* the last accepted begin (0: none), clearOnFreshConnection, whether the
\* startup blank is armed, and connectionActive.
Drivers == [action: Actions, known: Statuses, played: 0..Capacity,
            implausible: BOOLEAN, reboot: BOOLEAN, sentRate: Rates \cup {0},
            clearFresh: BOOLEAN, blank: BOOLEAN, active: BOOLEAN]

-----------------------------------------------------------------------------
(* Decisions the worker takes from a status.                               *)

\* targetBufferPoints(), also the level at which begin is due.
Target == TargetBufferPoints(rate, Capacity, latency, Floor, Headroom)


\* actionForStatus: the lifecycle command a status calls for.
ActionForStatus(s) ==
    CASE s.le = "estop" -> "clear"
      [] s.le = "warmup" -> "none"
      [] s.pb = "idle" -> "prepare"
      [] s.pb = "prepared" /\ Target > 0 /\ s.full >= Target -> "begin"
      [] OTHER -> "none"

RateImplausible(s) == s.le = "ready" /\ s.pb # "idle" /\ s.bad

\* Mutant: the underflow flag does not re-arm the startup blank.
UpdatePlaybackRequirementsNoBlank(d, s) ==
    [d EXCEPT !.known = s, !.played = 0, !.action = ActionForStatus(s)]

\* updatePlaybackRequirements: adopt a status and choose the next action.  An
\* implausible rate is first cleared, then, if it is still there, stopped.
UpdatePlaybackRequirements(d, s) ==
    LET seen == [d EXCEPT !.known = s, !.played = 0, !.action = ActionForStatus(s),
                          !.blank = @ \/ (s.under /\ ~d.known.under)]
    IN  CASE RateImplausible(s) /\ ~d.implausible /\ ~d.reboot ->
               [seen EXCEPT !.implausible = TRUE, !.action = "clear"]
          [] RateImplausible(s) /\ (d.implausible \/ d.reboot) ->
               [seen EXCEPT !.reboot = TRUE, !.action = "stop"]
          [] ~RateImplausible(s) /\ s.le = "ready" ->
               [seen EXCEPT !.implausible = FALSE, !.reboot = FALSE]
          [] OTHER -> seen

\* applyFreshConnectionStatus: what to do first on a new connection.
ApplyFreshConnectionStatus(d, s) ==
    CASE d.clearFresh /\ s.le \in {"ready", "estop"} ->
           [d EXCEPT !.clearFresh = FALSE, !.action = "clear"]
      [] ~d.clearFresh /\ s.le = "estop" -> [d EXCEPT !.action = "clear"]
      [] s.le = "warmup" -> [d EXCEPT !.action = "none"]
      [] ~d.clearFresh /\ s.le = "ready" ->
           [d EXCEPT !.action = IF s.pb = "idle" THEN "prepare" ELSE "stop"]

\* handleStopCondition / InvalidCommand / BufferFull / plain ACK: every matched
\* answer updates the requirements; a refused data command schedules a clear,
\* and re-arms the startup blank if it was refused because playback is idle.
HandleResponseFrame(d, op, m) ==
    LET u == UpdatePlaybackRequirements(d, m.status)
        refused == op = "d" /\ m.reply \in {"I", "F"}
        starved == op = "d" /\ m.reply = "I" /\ m.status.le = "ready" /\ m.status.pb = "idle"
    IN  [u EXCEPT !.action = IF refused THEN "clear" ELSE @,
                  !.blank = @ \/ starved]

\* What sendStop, sendPrepare, sendBegin and pollStatus do with an ACK.
AfterAck(d, c) ==
    LET s == d.known
        ready == s.le = "ready"
    IN  CASE c.op = "s" -> [d EXCEPT !.sentRate = 0,
                              !.action = IF ready /\ s.pb # "idle" THEN "stop" ELSE @]
          [] c.op = "p" -> [d EXCEPT
                              !.action = IF ready /\ s.pb = "playing" THEN "stop" ELSE @]
          [] c.op = "b" -> [d EXCEPT
                              !.sentRate = IF s.pb = "playing" THEN c.rate ELSE @]
          [] c.op = "?" -> [d EXCEPT !.blank = @ \/ (ready /\ s.pb = "playing"
                                                     /\ s.full < UnderrunLevel)]
          [] OTHER -> d

\* handleNetworkFailure: the stream may be out of step, so it is given up.
HandleNetworkFailure(d) == [d EXCEPT !.active = FALSE, !.clearFresh = TRUE]

\* resetProtocolStateForConnection, and connectionActive set by run().
ResetProtocolState(d) ==
    [d EXCEPT !.action = "prepare", !.known = NoStatus, !.played = 0,
              !.implausible = FALSE, !.reboot = FALSE, !.sentRate = 0, !.active = TRUE]

-----------------------------------------------------------------------------
(* How many points to ask for.                                             *)

Least(a, b) == IF a <= b THEN a ELSE b

\* estimateBufferFullness: the snapshot, less what has been played since.
Estimate ==
    EstimateFromSnapshot(drv.known.full, IF drv.known.pb = "playing" THEN drv.played ELSE 0)

UsableBufferFreeSpace(fullness) ==
    LET raw == Capacity - fullness IN raw - Least(raw, WriteHeadroom)

PacketSpace == Least(UsableBufferFreeSpace(Estimate), MaxPacket)
Deficit == IF Estimate < Target THEN Target - Estimate ELSE 0
MinimumPoints == Least(Deficit, PacketSpace)

CanSendData ==
    /\ drv.action = "none"
    /\ drv.known.le = "ready"
    /\ drv.known.pb \in {"prepared", "playing"}

ShouldRequestPoints ==
    CASE drv.known.pb = "prepared" /\ drv.known.full < Target -> MinimumPoints > 0
      [] drv.known.pb = "playing" /\ Estimate < UnderrunLevel -> PacketSpace > 0
      [] OTHER -> MinimumPoints >= RefillMin

\* syncPointRate: the rate moved under a stream this connection began.
RateMoved ==
    drv.sentRate # 0 /\ rate # drv.sentRate /\ drv.known.pb = "playing"

-----------------------------------------------------------------------------
(* The worker.                                                             *)

\* Put a command on the wire and wait for its answer.  "for" says who asked:
\* the handshake, the streaming loop, or the orderly stop before close().
Send(c, for) ==
    /\ inbox' = Append(inbox, c)
    /\ cmd' = [op |-> c.op, rate |-> rate, for |-> for]
    /\ pc' = "await"

\* tcpClient.close(): answers are lost; a command already sent may still land.
Hangup == link' = "down" /\ wire' = <<>> /\ UNCHANGED inbox

\* Mutant: the outer loop connects again without looking at running.
ConnectRegardless ==
    /\ pc = "connect"
    /\ pc' = "greet"
    /\ drv' = ResetProtocolState(drv)
    /\ link' = "open" /\ inbox' = <<>> /\ wire' = <<>>
    /\ UNCHANGED <<cmd, dac, faults>> /\ UNCHANGED <<app, probe>>

\* ensureConnected() succeeds; the DAC keeps what it was doing or aborts it.
Connect ==
    /\ pc = "connect" /\ running
    /\ pc' = "greet"
    /\ drv' = ResetProtocolState(drv)
    /\ link' = "open" /\ inbox' = <<>> /\ wire' = <<>>
    /\ \/ dac' = dac
       \/ dac' = [dac EXCEPT !.pb = "idle", !.full = 0]
    /\ UNCHANGED <<cmd, faults>> /\ UNCHANGED <<app, probe>>

\* ensureConnected() fails: sleep and try again.
ConnectFails ==
    /\ pc = "connect" /\ running /\ faults < MaxFaults
    /\ faults' = faults + 1
    /\ UNCHANGED <<pc, cmd, drv, link, inbox, wire, dac>> /\ UNCHANGED <<app, probe>>

\* The worker's loop sees running cleared and run() returns.
Return ==
    /\ pc = "connect" /\ ~running
    /\ pc' = "done"
    /\ UNCHANGED <<cmd, drv, link, inbox, wire, dac, faults>> /\ UNCHANGED <<app, probe>>

\* The handshake has a status: query the firmware version, or start streaming
\* with the startup blank armed.
EnterStream(d) ==
    IF firmware = "none" /\ ~probeOff
    THEN /\ pc' = "probe" /\ drv' = d
         /\ inbox' = Append(inbox, Bare("v"))
    ELSE /\ pc' = "loop" /\ drv' = [d EXCEPT !.blank = TRUE]
         /\ UNCHANGED inbox

\* performHandshake gets the greeting every DAC sends on connect.
Greeted ==
    /\ pc = "greet" /\ wire # <<>>
    /\ LET s == Head(wire).status
           d == UpdatePlaybackRequirements(drv, s)
       IN  EnterStream(ApplyFreshConnectionStatus(d, s))
    /\ wire' = Tail(wire)
    /\ UNCHANGED <<cmd, link, dac, faults>> /\ UNCHANGED <<app, probe>>

\* No greeting in time: it is asked for with a ping on the same connection.
GreetingTimeout ==
    /\ pc = "greet" /\ wire = <<>> /\ running /\ faults < MaxFaults
    /\ faults' = faults + 1
    /\ Send(Bare("?"), "handshake")
    /\ UNCHANGED <<drv, link, wire, dac>> /\ UNCHANGED <<app, probe>>

\* Neither a greeting nor a ping once stopThread() was called.
GreetingCancelled ==
    /\ pc = "greet" /\ ~running
    /\ pc' = "connect" /\ drv' = HandleNetworkFailure(drv) /\ Hangup
    /\ UNCHANGED <<cmd, dac, faults>> /\ UNCHANGED <<app, probe>>

\* readFirmwareVersionString takes the next 32 bytes, whatever they are: the
\* string, or a 22-byte answer and the string's first 10, leaving 22 behind.
FirmwareRead ==
    /\ pc = "probe"
    /\ \/ /\ wire # <<>> /\ Head(wire).reply = "text"
          /\ firmware' = "dac" /\ wire' = Tail(wire)
       \/ /\ Len(wire) > 1 /\ Head(wire).reply # "text"
          /\ firmware' = "garbage"
          /\ wire' = <<[wire[2] EXCEPT !.reply = "junk"]>> \o Tail(Tail(wire))
    /\ pc' = "loop" /\ drv' = [drv EXCEPT !.blank = TRUE]
    /\ UNCHANGED <<cmd, probeOff, link, inbox, dac, faults>> /\ UNCHANGED app

\* The query times out, losing what it had read; it is not tried again.
FirmwareTimeout ==
    /\ pc = "probe" /\ faults < MaxFaults
    /\ Len(wire) < 2 /\ \A i \in 1..Len(wire) : wire[i].reply # "text"
    /\ faults' = faults + 1 /\ probeOff' = TRUE /\ wire' = <<>>
    /\ pc' = "loop" /\ drv' = [drv EXCEPT !.blank = TRUE]
    /\ UNCHANGED <<cmd, firmware, link, inbox, dac>> /\ UNCHANGED app

InLoop == pc = "loop" /\ running /\ drv.active

\* The lifecycle command the last status asked for.
SendAction ==
    /\ InLoop /\ drv.action # "none"
    /\ Send(Bare(CASE drv.action = "stop" -> "s" [] drv.action = "clear" -> "c"
                   [] drv.action = "prepare" -> "p" [] drv.action = "begin" -> "b"), "loop")
    /\ UNCHANGED <<drv, link, wire, dac, faults>> /\ UNCHANGED <<app, probe>>

SyncPointRate ==
    /\ InLoop /\ drv.action = "none" /\ RateMoved
    /\ drv' = [drv EXCEPT !.action = "stop"]
    /\ UNCHANGED <<pc, cmd, link, inbox, wire, dac, faults>> /\ UNCHANGED <<app, probe>>

PollStatus ==
    /\ InLoop /\ drv.action = "none" /\ ~RateMoved /\ ~CanSendData
    /\ Send(Bare("?"), "loop")
    /\ UNCHANGED <<drv, link, wire, dac, faults>> /\ UNCHANGED <<app, probe>>

\* getFillRequest, shouldRequestPoints, requestPoints and sendPoints: as many
\* points as the source chooses to give; producing them uses up the blank.
SendPoints ==
    /\ InLoop /\ ~RateMoved /\ CanSendData /\ ShouldRequestPoints
    /\ \E n \in MinimumPoints..PacketSpace :
         /\ n > 0
         /\ Send([op |-> "d", n |-> n, lead |-> drv.blank], "loop")
    /\ drv' = [drv EXCEPT !.blank = FALSE]
    /\ UNCHANGED <<link, wire, dac, faults>> /\ UNCHANGED <<app, probe>>

\* Mutant: the loop ends without stopping the DAC.
LeaveLoopPlaying ==
    /\ pc = "loop" /\ (~running \/ ~drv.active)
    /\ pc' = "connect" /\ drv' = [drv EXCEPT !.active = FALSE]
    /\ Hangup
    /\ UNCHANGED <<cmd, dac, faults>> /\ UNCHANGED <<app, probe>>

\* The loop ends: a DAC last seen ready and not idle is stopped, then close().
LeaveLoop ==
    /\ pc = "loop" /\ (~running \/ ~drv.active)
    /\ IF drv.active /\ drv.known.le = "ready" /\ drv.known.pb # "idle"
       THEN Send(Bare("s"), "close") /\ UNCHANGED <<drv, link, wire>>
       ELSE /\ pc' = "connect" /\ drv' = [drv EXCEPT !.active = FALSE]
            /\ Hangup /\ UNCHANGED cmd
    /\ UNCHANGED <<dac, faults>> /\ UNCHANGED <<app, probe>>

\* Back from an exchange to whoever asked for it, with protocol state d.
Resume(d) ==
    IF cmd.for = "loop" /\ d.active
    THEN /\ pc' = "loop" /\ drv' = d /\ wire' = Tail(wire)
         /\ UNCHANGED <<link, inbox>>
    ELSE /\ pc' = IF cmd.for = "loop" THEN "loop" ELSE "connect"
         /\ drv' = [d EXCEPT !.active = FALSE]
         /\ Hangup

Matches(m) == m.reply \in {"a", "I", "F", "!"} /\ m.op = cmd.op

\* The answer at the head of the stream accepts the command.
ReceiveAck ==
    /\ pc = "await" /\ wire # <<>> /\ Matches(Head(wire)) /\ Head(wire).reply = "a"
    /\ LET d == HandleResponseFrame(drv, cmd.op, Head(wire))
       IN  IF cmd.for = "handshake"
           THEN /\ EnterStream(ApplyFreshConnectionStatus(d, Head(wire).status))
                /\ wire' = Tail(wire) /\ UNCHANGED link
           ELSE Resume(AfterAck(d, cmd))
    /\ UNCHANGED <<cmd, dac, faults>> /\ UNCHANGED <<app, probe>>

\* It refuses the command: recovered in place, except in the handshake.
ReceiveNak ==
    /\ pc = "await" /\ wire # <<>> /\ Matches(Head(wire)) /\ Head(wire).reply # "a"
    /\ LET d == HandleResponseFrame(drv, cmd.op, Head(wire))
       IN  Resume(IF cmd.for = "handshake" THEN HandleNetworkFailure(d) ELSE d)
    /\ UNCHANGED <<cmd, dac, faults>> /\ UNCHANGED <<app, probe>>

\* It answers something else, or is not an answer at all: a protocol failure.
ReceiveMismatch ==
    /\ pc = "await" /\ wire # <<>> /\ ~Matches(Head(wire))
    /\ Resume(HandleNetworkFailure(drv))
    /\ UNCHANGED <<cmd, dac, faults>> /\ UNCHANGED <<app, probe>>

\* Mutant: a timed out command is tried again on the same connection.
ResponseTimeoutRetries ==
    /\ pc = "await" /\ wire = <<>> /\ faults < MaxFaults
    /\ faults' = faults + 1
    /\ pc' = "loop"
    /\ UNCHANGED <<cmd, drv, link, inbox, wire, dac>> /\ UNCHANGED <<app, probe>>

\* No answer in time, or the write failed: a network failure.
ResponseTimeout ==
    /\ pc = "await" /\ wire = <<>> /\ faults < MaxFaults
    /\ faults' = faults + 1
    /\ Resume(HandleNetworkFailure(drv))
    /\ UNCHANGED <<cmd, dac>> /\ UNCHANGED <<app, probe>>

Worker == \/ Connect \/ Return \/ Greeted \/ GreetingCancelled \/ FirmwareRead
          \/ SendAction \/ SyncPointRate \/ PollStatus \/ SendPoints \/ LeaveLoop
          \/ ReceiveAck \/ ReceiveNak \/ ReceiveMismatch
Failure == ConnectFails \/ GreetingTimeout \/ FirmwareTimeout \/ ResponseTimeout

-----------------------------------------------------------------------------
(* The DAC (external).  dry: it starved since it last took data or was      *)
(* upset; begun: the stream it plays was begun by this program.             *)

StatusOf(d) == [le |-> d.le, pb |-> d.pb, full |-> d.full, bad |-> d.bad, under |-> d.under]

\* The state after a command is served, and the answer.
Serve(d, c) ==
    CASE c.op = "?" -> <<d, "a">>
      [] c.op = "v" -> <<d, "text">>
      [] c.op = "c" -> IF d.le = "estop" THEN <<[d EXCEPT !.le = "ready"], "a">> ELSE <<d, "I">>
      [] c.op \notin {"?", "v", "c"} /\ d.le # "ready" -> <<d, "!">>
      [] c.op = "s" /\ d.le = "ready" ->
           IF d.pb = "idle" THEN <<d, "I">>
           ELSE <<[d EXCEPT !.pb = "idle", !.full = 0, !.bad = FALSE], "a">>
      [] c.op = "p" /\ d.le = "ready" ->
           IF d.pb = "idle"
           THEN <<[d EXCEPT !.pb = "prepared", !.full = 0, !.under = FALSE], "a">>
           ELSE <<d, "I">>
      [] c.op = "b" /\ d.le = "ready" ->
           IF d.pb = "prepared" /\ d.full > 0
           THEN <<[d EXCEPT !.pb = "playing", !.begun = TRUE], "a">>
           ELSE <<d, "I">>
      [] c.op = "d" /\ d.le = "ready" ->
           CASE d.pb = "idle" -> <<d, "I">>
             [] d.pb # "idle" /\ d.full + c.n > Capacity -> <<d, "F">>
             [] OTHER -> <<[d EXCEPT !.full = @ + c.n, !.dry = FALSE], "a">>

DacGreets ==
    /\ link = "open"
    /\ link' = "greeted"
    /\ wire' = Append(wire, [reply |-> "a", op |-> "?", status |-> StatusOf(dac)])
    /\ UNCHANGED <<pc, cmd, drv, inbox, dac, faults>> /\ UNCHANGED <<app, probe>>

\* A command is served in order; its answer is lost if the link has gone.
DacServes ==
    /\ inbox # <<>> /\ link # "open"
    /\ LET r == Serve(dac, Head(inbox))
       IN  /\ dac' = r[1]
           /\ wire' = IF link = "down" THEN <<>>
                      ELSE Append(wire, [reply |-> r[2], op |-> Head(inbox).op,
                                         status |-> StatusOf(r[1])])
    /\ inbox' = Tail(inbox)
    /\ UNCHANGED <<pc, cmd, drv, link, faults>> /\ UNCHANGED <<app, probe>>

\* One point's time passes.  The DAC may run slower than the worker reckons,
\* which projects at the desired rate; a DAC with nothing left goes idle.
Tick ==
    /\ dac.pb = "playing" \/ (drv.known.pb = "playing" /\ drv.played < drv.known.full)
    /\ dac' \in IF dac.pb = "playing"
                THEN {dac, IF dac.full > 0 THEN [dac EXCEPT !.full = @ - 1]
                           ELSE [dac EXCEPT !.pb = "idle", !.under = TRUE, !.dry = TRUE,
                                            !.bad = FALSE]}
                ELSE {dac}
    /\ drv' = IF drv.known.pb = "playing" /\ drv.played < drv.known.full
              THEN [drv EXCEPT !.played = @ + 1] ELSE drv
    /\ UNCHANGED <<pc, cmd, link, inbox, wire, faults>> /\ UNCHANGED <<app, probe>>

\* The interlock opens, the DAC reheats, or its rate register is corrupted.
DacUpset ==
    /\ faults < MaxFaults /\ dac.le = "ready"
    /\ faults' = faults + 1
    /\ \/ \E le \in {"estop", "warmup"} :
            dac' = [dac EXCEPT !.le = le, !.pb = "idle", !.full = 0, !.bad = FALSE,
                               !.dry = FALSE]
       \/ dac.pb # "idle" /\ dac' = [dac EXCEPT !.bad = TRUE]
    /\ UNCHANGED <<pc, cmd, drv, link, inbox, wire>> /\ UNCHANGED <<app, probe>>

WarmedUp ==
    /\ dac.le = "warmup"
    /\ dac' = [dac EXCEPT !.le = "ready"]
    /\ UNCHANGED <<pc, cmd, drv, link, inbox, wire, faults>> /\ UNCHANGED <<app, probe>>

-----------------------------------------------------------------------------
(* The application.                                                        *)

StopThread ==
    /\ running
    /\ running' = FALSE
    /\ UNCHANGED <<rate, latency, changes, pc, cmd, drv, link, inbox, wire, dac, faults>>
    /\ UNCHANGED probe

\* Mutant: the requested rate is not clamped to the DAC's maximum.
SetPointRateUnclamped ==
    /\ running /\ changes < MaxChanges
    /\ \E r \in Rates \ {rate} : rate' = 4 * r
    /\ changes' = changes + 1
    /\ UNCHANGED <<running, latency, pc, cmd, drv, link, inbox, wire, dac, faults>>
    /\ UNCHANGED probe

\* setPointRate, which clamps to a safe maximum: Rates holds clamped rates.
SetPointRate ==
    /\ running /\ changes < MaxChanges
    /\ \E r \in Rates \ {rate} : rate' = r
    /\ changes' = changes + 1
    /\ UNCHANGED <<running, latency, pc, cmd, drv, link, inbox, wire, dac, faults>>
    /\ UNCHANGED probe

SetTargetLatency ==
    /\ running /\ changes < MaxChanges
    /\ \E l \in Latencies \ {latency} : latency' = l
    /\ changes' = changes + 1
    /\ UNCHANGED <<running, rate, pc, cmd, drv, link, inbox, wire, dac, faults>>
    /\ UNCHANGED probe

-----------------------------------------------------------------------------

\* A DAC left idle, or still playing for a program that has gone; its hardware
\* and software revisions may rule the firmware query out from the start.
Init ==
    /\ running = TRUE /\ rate = DefaultRate /\ latency = DefaultLatency
    /\ pc = "connect" /\ cmd = [op |-> "?", rate |-> DefaultRate, for |-> "handshake"]
    /\ drv = [action |-> "prepare", known |-> NoStatus, played |-> 0,
              implausible |-> FALSE, reboot |-> FALSE, sentRate |-> 0,
              clearFresh |-> FALSE, blank |-> FALSE, active |-> FALSE]
    /\ firmware = "none" /\ probeOff \in BOOLEAN
    /\ link = "down" /\ inbox = <<>> /\ wire = <<>>
    /\ \E old \in {<<"idle", 0>>, <<"playing", 1>>} :
         dac = [le |-> "ready", pb |-> old[1], full |-> old[2], bad |-> FALSE,
                under |-> FALSE, dry |-> FALSE, begun |-> FALSE]
    /\ faults = 0 /\ changes = 0

Next == \/ Worker \/ Failure
        \/ DacGreets \/ DacServes \/ Tick \/ DacUpset \/ WarmedUp
        \/ StopThread \/ SetPointRate \/ SetTargetLatency

\* The worker thread and the DAC keep going, and time passes.
Spec ==
    /\ Init /\ [][Next]_vars
    /\ WF_vars(Worker)
    /\ WF_vars(DacGreets) /\ WF_vars(DacServes) /\ WF_vars(WarmedUp) /\ WF_vars(Tick)

-----------------------------------------------------------------------------
(* Properties.                                                             *)

\* The type of every variable: run()'s members, the TCP stream and the DAC.
TypeOK ==
    /\ running \in BOOLEAN /\ rate \in Rates /\ latency \in Latencies
    /\ pc \in {"connect", "greet", "probe", "loop", "await", "done"}
    /\ cmd \in [op: Opcodes, rate: Rates, for: {"handshake", "loop", "close"}]
    /\ drv \in Drivers
    /\ firmware \in {"none", "dac", "garbage"} /\ probeOff \in BOOLEAN
    /\ link \in {"down", "open", "greeted"}
    /\ inbox \in Seq(Commands) /\ wire \in Seq(Replies)
    /\ StatusOf(dac) \in Statuses /\ dac.dry \in BOOLEAN /\ dac.begun \in BOOLEAN
    /\ faults \in 0..MaxFaults /\ changes \in 0..MaxChanges

\* Answers the worker has not read yet, oldest first: on the wire, the greeting
\* still to come, and one for each command not served.
Unread ==
    [i \in 1..Len(wire) |-> IF wire[i].reply \in {"text", "junk"} THEN "v" ELSE wire[i].op]
      \o (IF link = "open" THEN <<"?">> ELSE <<>>)
      \o [i \in 1..Len(inbox) |-> inbox[i].op]

\* sendCommand matches an answer to its command by opcode alone.  That is
\* enough for everything but pings: whenever an older answer (a late greeting,
\* a late firmware string) is still unread, the one the worker would read next
\* is not mistaken for the answer to its stop, clear, prepare, begin or data.
AnswersNotMistaken ==
    pc = "await" /\ Len(Unread) > 1 /\ cmd.op # "?" => Unread[1] # cmd.op

\* The startup blank covers every restart after starvation: the first data a
\* DAC accepts since its buffer ran dry and playback fell idle starts blanked
\* (resetStartupBlank on the underflow edge, on data refused while idle and
\* after the handshake).  Not so after an E-stop, where nothing re-arms it.
RestartIsBlanked ==
    [][dac.dry /\ dac'.full > dac.full => Head(inbox).lead]_vars

\* close() and stopThread() do not leave a stream this program began playing:
\* unless something failed on the way, when the worker has returned the DAC is
\* not playing it (sendOrderlyStopBeforeClose), wherever in an exchange the
\* stop came.
ShutdownStopsPlayback ==
    pc = "done" /\ faults = 0 => ~(dac.pb = "playing" /\ dac.begun)

\* A stopped worker returns, from every wait and with a lost answer too.
StopTerminates == ~running ~> pc = "done"

\* The worker waits in the prepared state for a level it already has: its
\* status is older than a lowered target, so begin was not due when it came.
HeldPrepared ==
    pc = "loop" /\ drv.action = "none" /\ drv.known.pb = "prepared" /\ drv.known.full >= Target

\* The DAC plays on from before this connection, which never began it: after a
\* failure the reconnect clears where applyFreshConnectionStatus would stop, a
\* playing DAC refuses the clear, and its status says that all is well.
AdoptedPlayback == drv.known.pb = "playing" /\ drv.sentRate = 0

=============================================================================
