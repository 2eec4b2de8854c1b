---------------------------- MODULE LaserCubeNet ----------------------------
(***************************************************************************)
(* LaserCubeNetController: points sent as numbered datagrams, which the    *)
(* device acknowledges with the free space of its buffer.                  *)
(*                                                                         *)
(* The worker runs a loop (tell the rate, send at most one packet, collect *)
(* acks, sleep); the manager's discovery thread reports every status the   *)
(* device broadcasts; the application sets the rate.  Datagrams get lost,  *)
(* doubled and late, so any ack may arrive at any poll while the device is *)
(* there, and none while it is not.  Time passes in the worker's sleep;    *)
(* time stamps are kept as ages.                                           *)
(***************************************************************************)
EXTENDS BufferEstimator, FiniteSets

CONSTANTS
    Slots,      \* message numbers (256)
    Capacity,   \* points the device can hold
    Packet,     \* MAX_POINTS_PER_PACKET
    Latency,    \* the target latency
    Rates,      \* point rates the application asks for
    DefaultRate, \* the rate before the application sets one
    MaxRate,    \* the rate the device advertises as its highest
    StallAge,   \* ackDisconnectThreshold
    CleanAge,   \* age at which an unanswered packet is forgotten
    LoopTime,   \* how long one round of the worker takes
    MaxPolls,   \* acks collected in one round
    MaxFaults,  \* sends and socket set-ups that fail in one behaviour
    MaxChanges  \* changes of rate or content in one behaviour

ASSUME LaserCubeAssumption ==
    /\ {Slots, Capacity, Packet, LoopTime, DefaultRate, MaxRate} \subseteq Nat \ {0}
    /\ {Latency, StallAge, CleanAge, MaxPolls, MaxFaults, MaxChanges} \subseteq Nat
    /\ Rates \subseteq Nat \ {0}

VARIABLES
    pc,         \* where the worker is in run()
    running,
    net,        \* networkConnected
    requested,  \* reconnectRequested
    connected,  \* the status the application sees
    slots,      \* messageTimes as ages, -1 for an empty slot
    pending,    \* pendingAckCount
    number,     \* messageNumber
    sentSize, sentAge,   \* lastDataSentBufferSize, lastDataSentTime
    reported, ackAge,    \* lastReportedBufferFullness, lastAckTime
    desired,    \* getPointRate()
    lastRate,   \* lastSentPointRate
    push,       \* pointRatePushNeeded
    told,       \* the rate sent on this connection, 0 before the first
    polls,      \* acks collected in this round
    online,     \* the device is on the network
    content,    \* the application has set a content source
    disc,       \* where the discovery thread is in updateDiscoveredStatus
    discRate,   \* the rate it has read
    credit,     \* statuses announced and not yet used up by a reconnect
    faults, changes

timing == <<slots, pending, sentSize, sentAge, reported, ackAge>>
link == <<running, net, requested, connected>>
rating == <<lastRate, push, told>>
outside == <<online, content>>
finder == <<disc, discRate>>
bounds == <<faults, changes>>
vars == <<pc, link, timing, number, rating, desired, polls, outside, finder, credit, bounds>>

Numbers == 0 .. Slots - 1
MaxAge == Larger(Capacity, Larger(CleanAge, StallAge) + 1)
Pending == {n \in Numbers : slots[n] >= 0}
ClampPointRate(r) == Smaller(r, MaxRate)

\* calculateBufferFullnessFromSnapshot, nothing projected before a rate is known.
Left(size, age, rate) == IF rate = 0 THEN 0 ELSE EstimateFromSnapshot(size, age * rate)

Init ==
    /\ pc = "new"
    /\ running = FALSE
    /\ net = FALSE
    /\ requested = TRUE
    /\ connected = FALSE
    /\ slots = [n \in Numbers |-> -1]
    /\ pending = 0
    /\ number = 0
    /\ sentSize = 0 /\ sentAge = 0
    /\ reported = 0 /\ ackAge = 0
    /\ desired = ClampPointRate(DefaultRate)
    /\ lastRate = 0 /\ push = TRUE /\ told = 0
    /\ polls = 0
    /\ online = TRUE /\ content = FALSE
    /\ disc = "idle" /\ discRate = 0
    /\ credit = 1
    /\ faults = 0 /\ changes = 0

-----------------------------------------------------------------------------
(* connectToStatus, by the manager before the worker starts and by the     *)
(* worker afterwards.                                                      *)

ResetAcks ==
    /\ slots' = [n \in Numbers |-> -1]
    /\ pending' = 0
    /\ sentSize' = 0 /\ sentAge' = 0
    /\ reported' = 0 /\ ackAge' = 0

\* Mutant: the rate the last connection was told counts for this one.
RateKnown == UNCHANGED <<lastRate, push>> /\ told' = 0

\* The device's rate is unknown after a connect.
RateUnknown == push' = TRUE /\ told' = 0 /\ UNCHANGED lastRate

RequestServed == requested' = FALSE

ConnectSucceeds ==
    /\ ResetAcks
    /\ desired' = ClampPointRate(desired)
    /\ net' = TRUE
    /\ RequestServed
    /\ connected' = TRUE
    /\ RateUnknown
    /\ UNCHANGED <<faults, changes>>

\* A socket cannot be opened or bound.
ConnectFails ==
    /\ faults < MaxFaults
    /\ faults' = faults + 1
    /\ ResetAcks
    /\ desired' = ClampPointRate(desired)
    /\ connected' = FALSE
    /\ UNCHANGED <<net, requested, rating, changes>>

ConnectToStatus == ConnectSucceeds \/ ConnectFails

\* prepareNewController: connect and start the worker, connected or not.
Prepare ==
    /\ pc = "new"
    /\ ConnectToStatus
    /\ running' = TRUE
    /\ pc' = "loop"
    /\ credit' = IF net' THEN credit - 1 ELSE credit
    /\ UNCHANGED <<number, polls, outside, finder>>

-----------------------------------------------------------------------------
(* run()                                                                   *)

Loop ==
    /\ pc = "loop"
    /\ running
    /\ net
    /\ connected' = TRUE
    /\ pc' = "rate"
    /\ UNCHANGED <<running, net, requested, timing, number, rating, desired, polls,
                   outside, finder, credit, bounds>>

\* reconnectRequested.exchange(false) decides whether to try.
LoopLost ==
    /\ pc = "loop"
    /\ running
    /\ ~net
    /\ connected' = FALSE
    /\ pc' = IF requested THEN "reconnect" ELSE "sleep"
    /\ requested' = FALSE
    /\ UNCHANGED <<running, net, timing, number, rating, desired, polls,
                   outside, finder, credit, bounds>>

Reconnect ==
    /\ pc = "reconnect"
    /\ ConnectToStatus
    /\ credit' = Larger(-1, credit - 1)
    /\ pc' = "sleep"
    /\ UNCHANGED <<running, number, polls, outside, finder>>

\* A send fails: recordConnectionError and networkConnected = false.
SendFails ==
    /\ faults < MaxFaults
    /\ faults' = faults + 1
    /\ net' = FALSE
    /\ connected' = FALSE
    /\ UNCHANGED <<running, requested, changes>>

\* syncPointRate; whatever comes of it, the round goes on.
SyncPointRate ==
    /\ pc = "rate"
    /\ pc' = "send"
    /\ \/ /\ ~push /\ desired = lastRate
          /\ UNCHANGED <<rating, link, bounds>>
       \/ /\ push \/ desired # lastRate
          /\ lastRate' = desired
          /\ push' = FALSE
          /\ told' = desired
          /\ UNCHANGED <<link, bounds>>
       \/ /\ push \/ desired # lastRate
          /\ SendFails
          /\ push' = TRUE
          /\ UNCHANGED <<lastRate, told>>
    /\ UNCHANGED <<timing, number, desired, polls, outside, finder, credit>>

\* Mutant: every packet sent counts as one more, the number reused or not.
CountPacketAlways == pending' = pending + 1

\* A number that is still waiting for its ack is not counted twice.
CountPacket == pending' = IF slots[number] < 0 THEN pending + 1 ELSE pending

\* messageNumber++ on its eight bits.
NextNumber == (number + 1) % Slots

\* sendPoints: at most one packet, sized by how far the estimate is below the
\* target.  Without a content source requestPoints fails and nothing is sent;
\* with one it gives the n points asked for.  The number advances although
\* the send failed.
SendPoints ==
    /\ pc = "send"
    /\ pc' = "acks"
    /\ LET est == Larger(Left(sentSize, sentAge, lastRate), Left(reported, ackAge, lastRate))
           target == TargetBufferPoints(lastRate, Capacity, Latency, Packet, 2 * Packet)
           n == Smaller(Packet, target - est)
       IN \/ /\ n <= 0 \/ ~content
             /\ UNCHANGED <<timing, number, link, bounds>>
          \/ /\ n > 0 /\ content
             /\ CountPacket
             /\ slots' = [slots EXCEPT ![number] = 0]
             /\ sentSize' = est + n
             /\ sentAge' = 0
             /\ number' = NextNumber
             /\ UNCHANGED <<reported, ackAge, link, bounds>>
          \/ /\ n > 0 /\ content
             /\ SendFails
             /\ number' = NextNumber
             /\ UNCHANGED timing
    /\ UNCHANGED <<rating, desired, polls, outside, finder, credit>>

\* checkAcks takes one datagram: not an ack of ours, or one with a number that
\* nothing waits for.
IgnoreDatagram ==
    /\ pc = "acks"
    /\ online
    /\ polls < MaxPolls
    /\ polls' = polls + 1
    /\ UNCHANGED <<pc, link, timing, number, rating, desired, outside, finder, credit, bounds>>

\* The ack of a packet that waits for one: the device's fullness replaces both
\* snapshots.
TakeAck(n, fullness) ==
    /\ pc = "acks"
    /\ online
    /\ polls < MaxPolls
    /\ slots[n] >= 0
    /\ polls' = polls + 1
    /\ ackAge' = 0
    /\ reported' = fullness
    /\ sentAge' = 0
    /\ sentSize' = fullness
    /\ slots' = [slots EXCEPT ![n] = -1]
    /\ pending' = Larger(0, pending - 1)
    /\ UNCHANGED <<pc, link, number, rating, desired, outside, finder, credit, bounds>>

\* Mutant: old packets are forgotten before a stall of that length is seen.
ForgottenEarly == {n \in Pending : slots[n] >= StallAge}

\* Packets that have waited for more than a second are given up.
Forgotten == {n \in Pending : slots[n] > CleanAge}

\* The end of checkAcks: nothing more to receive, or the poll limit.  With
\* every number waiting and the oldest for long enough the connection is lost.
EndAcks ==
    /\ pc = "acks"
    /\ pc' = "sleep"
    /\ slots' = [n \in Numbers |-> IF n \in Forgotten THEN -1 ELSE slots[n]]
    /\ pending' = Larger(0, pending - Cardinality(Forgotten))
    /\ IF pending' >= Slots /\ \E n \in Numbers : slots'[n] >= StallAge
       THEN net' = FALSE /\ connected' = FALSE
       ELSE UNCHANGED <<net, connected>>
    /\ polls' = 0
    /\ UNCHANGED <<running, requested, sentSize, sentAge, reported, ackAge, number, rating,
                   desired, outside, finder, credit, bounds>>

Older(age) == Smaller(MaxAge, age + LoopTime)

Sleep ==
    /\ pc = "sleep"
    /\ pc' = "loop"
    /\ slots' = [n \in Numbers |-> IF slots[n] < 0 THEN -1 ELSE Older(slots[n])]
    /\ sentAge' = Older(sentAge)
    /\ ackAge' = Older(ackAge)
    /\ UNCHANGED <<link, pending, sentSize, reported, number, rating, desired, polls,
                   outside, finder, credit, bounds>>

Exit ==
    /\ pc = "loop"
    /\ ~running
    /\ pc' = "done"
    /\ UNCHANGED <<link, timing, number, rating, desired, polls, outside, finder, credit, bounds>>

Worker == Loop \/ LoopLost \/ Reconnect \/ SyncPointRate \/ SendPoints
          \/ EndAcks \/ Sleep \/ Exit

-----------------------------------------------------------------------------
(* The discovery thread: updateDiscoveredStatus for a status received.     *)

Announce ==
    /\ disc = "idle"
    /\ online
    /\ pc # "done"
    /\ disc' = "clamp"
    /\ discRate' = desired
    /\ UNCHANGED <<pc, link, timing, number, rating, desired, polls, outside, credit, bounds>>

\* setPointRate(clampPointRate(getPointRate(), ...)) stores what it read.
ClampRate ==
    /\ disc = "clamp"
    /\ disc' = "check"
    /\ desired' = ClampPointRate(discRate)
    /\ discRate' = 0
    /\ UNCHANGED <<pc, link, timing, number, rating, polls, outside, credit, bounds>>

\* Mutant: the status of a connected device asks for the reconnect.
CheckConnectedInverted ==
    /\ disc = "check"
    /\ disc' = IF net THEN "request" ELSE "idle"
    /\ UNCHANGED <<pc, link, timing, number, rating, desired, polls, outside, discRate,
                   credit, bounds>>

CheckConnected ==
    /\ disc = "check"
    /\ disc' = IF net THEN "idle" ELSE "request"
    /\ UNCHANGED <<pc, link, timing, number, rating, desired, polls, outside, discRate,
                   credit, bounds>>

RequestReconnect ==
    /\ disc = "request"
    /\ disc' = "idle"
    /\ requested' = TRUE
    /\ credit' = Smaller(2, credit + 1)
    /\ UNCHANGED <<pc, running, net, connected, timing, number, rating, desired, polls,
                   outside, discRate, bounds>>

Discovery == Announce \/ ClampRate \/ CheckConnected \/ RequestReconnect

-----------------------------------------------------------------------------
(* The application and the device.                                         *)

SetPointRate(r) ==
    /\ changes < MaxChanges
    /\ changes' = changes + 1
    /\ desired' = ClampPointRate(r)
    /\ UNCHANGED <<pc, link, timing, number, rating, polls, outside, finder, credit, faults>>

\* stopThread
Stop ==
    /\ running
    /\ running' = FALSE
    /\ UNCHANGED <<pc, net, requested, connected, timing, number, rating, desired, polls,
                   outside, finder, credit, bounds>>

\* close(), once the worker has been joined.
Close ==
    /\ pc = "done"
    /\ net \/ requested \/ connected
    /\ net' = FALSE
    /\ requested' = FALSE
    /\ connected' = FALSE
    /\ slots' = [n \in Numbers |-> -1]
    /\ pending' = 0
    /\ UNCHANGED <<pc, running, sentSize, sentAge, reported, ackAge, number, rating, desired,
                   polls, outside, finder, credit, bounds>>

\* setRequestPointsCallback or sendFrame, and stopping either.
ContentStartsOrStops ==
    /\ changes < MaxChanges
    /\ changes' = changes + 1
    /\ content' = ~content
    /\ UNCHANGED <<pc, link, timing, number, rating, desired, polls, online, finder, credit,
                   faults>>

DeviceComesOrGoes ==
    /\ online' = ~online
    /\ UNCHANGED <<pc, content, link, timing, number, rating, desired, polls, finder, credit, bounds>>

-----------------------------------------------------------------------------

Next ==
    \/ Prepare
    \/ Loop
    \/ LoopLost
    \/ Reconnect
    \/ SyncPointRate
    \/ SendPoints
    \/ IgnoreDatagram
    \/ \E n \in Numbers, f \in 0 .. Capacity : TakeAck(n, f)
    \/ EndAcks
    \/ Sleep
    \/ Exit
    \/ Announce
    \/ ClampRate
    \/ CheckConnected
    \/ RequestReconnect
    \/ \E r \in Rates : SetPointRate(r)
    \/ Stop
    \/ Close
    \/ ContentStartsOrStops
    \/ DeviceComesOrGoes

\* The manager prepares its controller, the worker and the discovery thread
\* keep running, and a device on the network keeps answering the manager's
\* discovery requests.
Spec ==
    /\ Init
    /\ [][Next]_vars
    /\ WF_vars(Prepare)
    /\ WF_vars(Worker)
    /\ WF_vars(Discovery)
    /\ WF_vars(Close)

-----------------------------------------------------------------------------
(* Properties.                                                             *)

\* The count the stall is judged by is the number of packets that wait for an
\* ack, after numbers wrap onto packets never answered, doubled acks, packets
\* given up and reconnects.
PendingCounted == pending = Cardinality(Pending)

\* Every variable keeps its kind.  The worker never connects more often than the
\* device was heard of (credit stays at 0 or above), whichever way discovery
\* and the worker interleave around reconnectRequested.
TypeOK ==
    /\ PendingCounted
    /\ pc \in {"new", "loop", "reconnect", "rate", "send", "acks", "sleep", "done"}
    /\ {running, net, requested, connected, push, online, content} \subseteq BOOLEAN
    /\ slots \in [Numbers -> -1 .. MaxAge]
    /\ pending \in 0 .. Slots
    /\ number \in Numbers
    /\ {sentSize, reported} \subseteq 0 .. Capacity
    /\ {sentAge, ackAge} \subseteq 0 .. MaxAge
    /\ {desired, lastRate, told, discRate} \subseteq 0 .. MaxRate
    /\ polls \in 0 .. MaxPolls
    /\ disc \in {"idle", "clamp", "check", "request"}
    /\ credit \in 0 .. 2
    /\ faults \in 0 .. MaxFaults /\ changes \in 0 .. MaxChanges

\* While points flow, the rate by which the worker estimates how fast the
\* device plays is one it sent to the device on this very connection.
AssumedRateWasTold == pc = "acks" /\ net => lastRate = told /\ told # 0

\* A device that is heard of is connected again.
Reconnects == (~net /\ running) ~> (net \/ ~online \/ ~running)

\* The worker can send a packet for every message number before the first of
\* them is given up.
RingFillsInTime == Slots * LoopTime <= CleanAge

\* A device that has gone while there is content for it is no longer shown as
\* connected: "so the UI goes red instead of staying on a soft warning
\* indefinitely".  Silence is judged by a full ring of unanswered packets, so
\* this needs a worker that is fast enough, and content: without a content
\* source nothing is sent, and a device that has gone stays connected.
SilenceNoticed ==
    RingFillsInTime /\ <>[](~online /\ content) => <>[](~connected)
=============================================================================
