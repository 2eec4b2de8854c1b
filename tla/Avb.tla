--------------------------------- MODULE Avb ---------------------------------
(***************************************************************************)
(* AvbBackendState and AvbDeviceRuntime: the controllers of one audio      *)
(* device share one output stream, each on its own bank of channels.       *)
(*                                                                         *)
(* The application calls connect, disconnect, the configuration and        *)
(* closeAll from one thread at a time, for AvbDeviceRuntime::stream has no *)
(* lock.  The audio thread takes a snapshot of the banks under banksMutex  *)
(* and then renders a block of every controller in it.  Stopping a stream  *)
(* waits for the callback that runs.  The host may refuse to open a        *)
(* stream, open it at another rate, and lose the device.                   *)
(***************************************************************************)
EXTENDS Integers, Sequences

CONSTANTS
    Banks,           \* channel offsets of the device
    Rates,           \* its supportedPointRates
    DefaultRate,     \* its defaultPointRate
    MaxControllers,  \* controllers made in one behaviour
    MaxFaults        \* refused opens, other rates and unpluggings

ASSUME AvbAssumption ==
    /\ Rates \subseteq Nat \ {0}
    /\ DefaultRate \in Rates
    /\ {MaxControllers, MaxFaults} \subseteq Nat

VARIABLES
    plugged,     \* the host lists the device
    configured,  \* its preferredPointRate, or 0 when it is not configured
    mapped,      \* runtimesByDeviceUid has the runtime
    stream,      \* the rate of the runtime's stream, or 0 without one
    banks,       \* banksByOffset: the controller of each bank, or 0
    cache,       \* activeControllers: the controller of each bank, or 0
    bankOf,      \* the bank each controller was made for
    conn,        \* the rate a connected controller was told; 0: disconnected
    made,        \* controllers made so far
    held,        \* controllers the application has a pointer to
    call,        \* what the application's call does next, and its pointers
    running,     \* a callback runs
    snapshot,    \* the controllers it renders
    returned,    \* controllers that have been disconnected
    late,        \* blocks those have rendered since, counted up to 2
    faults

vars == <<plugged, configured, mapped, stream, banks, cache, bankOf, conn,
          made, held, call, running, snapshot, returned, late, faults>>

Ids == 1 .. MaxControllers
Ops == {"idle", "open", "attach", "reopen", "discard", "detach", "stop",
        "closeall"}
Doing(op, s, rate) == [op |-> op, s |-> s, rate |-> rate]
Idle == Doing("idle", {}, 0)

\* Somebody has a shared pointer to the controller.
Alive(i) == i \in held \cup snapshot \cup call.s

\* The controllers of the banks whose weak pointers can be locked.
Attached == {i \in Ids : Alive(i) /\ \E b \in Banks : banks[b] = i}

\* choosePointRate, for a preference that is unset or supported.
choosePointRate(r) == IF r = 0 THEN DefaultRate ELSE r

Init ==
    /\ plugged = TRUE
    /\ configured = 0
    /\ mapped = FALSE
    /\ stream = 0
    /\ banks = [b \in Banks |-> 0]
    /\ cache = [b \in Banks |-> 0]
    /\ bankOf = << >>
    /\ conn = [i \in Ids |-> 0]
    /\ made = 0
    /\ held = {}
    /\ call = Idle
    /\ running = FALSE
    /\ snapshot = {}
    /\ returned = {}
    /\ late = [i \in Ids |-> 0]
    /\ faults = 0

Fault == faults < MaxFaults /\ faults' = faults + 1

host == <<plugged, faults>>
audio == <<running, snapshot, returned, late>>
runtime == <<mapped, stream, banks>>
objects == <<cache, bankOf, made, held>>

-----------------------------------------------------------------------------
(* AvbDeviceRuntime.                                                       *)

\* Every controller of S is told: attachToRuntime, or with 0 detachFromRuntime.
Told(S, rate) == [i \in Ids |-> IF i \in S THEN rate ELSE conn[i]]

\* stream->stop() returns once no callback runs.
CanStop == stream = 0 \/ ~running

\* Mutant: the siblings are not told of the new stream.
OpensUntold(rate) ==
    \/ stream = rate /\ UNCHANGED <<stream, conn, faults>>
    \/ /\ stream # rate /\ CanStop
       /\ stream' \in Rates
       /\ IF stream' = rate THEN UNCHANGED faults ELSE Fault
       /\ conn' = IF stream = 0 THEN conn ELSE Told(Attached, 0)

\* open() succeeds: the stream is there, or the old one is closed and another
\* opened, at the rate asked for or another the host gave.
Opens(rate) ==
    \/ stream = rate /\ UNCHANGED <<stream, conn, faults>>
    \/ /\ stream # rate /\ CanStop
       /\ stream' \in Rates
       /\ IF stream' = rate THEN UNCHANGED faults ELSE Fault
       /\ conn' = Told(Attached, stream')

\* open() fails, after it has closed what was there.
OpenFails(rate) ==
    /\ stream # rate /\ CanStop
    /\ Fault
    /\ stream' = 0
    /\ conn' = IF stream = 0 THEN conn ELSE Told(Attached, 0)

\* close(), by a caller that then lets go of the runtime.
CloseRuntime ==
    /\ CanStop
    /\ stream' = 0
    /\ banks' = [b \in Banks |-> 0]
    /\ mapped' = FALSE

-----------------------------------------------------------------------------
(* AvbBackendState, called by the application.                             *)

\* connectController: the runtime and the controller are found or made.
Connect(b) ==
    /\ call = Idle /\ plugged
    /\ mapped' = TRUE
    /\ LET old == cache[b]
           i == IF old # 0 /\ Alive(old) THEN old ELSE made + 1
       IN /\ i \in Ids
          /\ cache' = [cache EXCEPT ![b] = i]
          /\ made' = IF i = old THEN made ELSE i
          /\ bankOf' = IF i = old THEN bankOf ELSE Append(bankOf, b)
          /\ call' = Doing("open", {i}, choosePointRate(configured))
    /\ UNCHANGED <<host, audio, configured, stream, banks, conn, held>>

ConnectOpens ==
    /\ call.op = "open"
    /\ Opens(call.rate)
    /\ call' = [call EXCEPT !.op = "attach"]
    /\ UNCHANGED <<plugged, audio, objects, configured, mapped, banks>>

\* It returns nullptr; the runtime and the other controllers stay as they are.
ConnectFails ==
    /\ call.op = "open"
    /\ OpenFails(call.rate)
    /\ call' = Idle
    /\ UNCHANGED <<plugged, audio, objects, configured, mapped, banks>>

\* attachController, and the controller is returned.
Attach ==
    /\ call.op = "attach"
    /\ \E i \in call.s :
          /\ banks' = [banks EXCEPT ![bankOf[i]] = i]
          /\ conn' = IF stream = 0 THEN conn ELSE Told({i}, stream)
          /\ held' = held \cup {i}
    /\ call' = Idle
    /\ UNCHANGED <<host, audio, configured, mapped, stream, cache, bankOf, made>>

\* disconnectController takes the controller out of the cache.
Disconnect(b) ==
    /\ call = Idle
    /\ cache[b] # 0
    /\ cache' = [cache EXCEPT ![b] = 0]
    /\ call' = IF ~Alive(cache[b]) THEN Idle
               ELSE Doing(IF mapped THEN "detach" ELSE "stop", {cache[b]}, 0)
    /\ UNCHANGED <<host, audio, runtime, configured, bankOf, conn, made, held>>

\* Mutant: the bank keeps the controller.
DetachKeepsBank ==
    /\ call.op = "detach"
    /\ conn' = Told(call.s, 0)
    /\ call' = [call EXCEPT !.op = "stop"]
    /\ UNCHANGED <<host, audio, objects, configured, mapped, stream, banks>>

\* detachController frees the bank and tells the controller it found there.
Detach ==
    /\ call.op = "detach"
    /\ \E i \in call.s :
          LET there == banks[bankOf[i]]
          IN /\ banks' = [banks EXCEPT ![bankOf[i]] = 0]
             /\ conn' = Told(Attached \cap {there}, 0)
    /\ call' = [call EXCEPT !.op = "stop"]
    /\ UNCHANGED <<host, audio, objects, configured, mapped, stream>>

\* The controller is closed, and the runtime too if no controller is left.
Stop ==
    /\ call.op = "stop"
    /\ IF mapped /\ Attached = {} THEN CloseRuntime ELSE UNCHANGED runtime
    /\ conn' = Told(call.s, 0)
    /\ returned' = returned \cup call.s
    /\ call' = Idle
    /\ UNCHANGED <<host, objects, configured, running, snapshot, late>>

\* Mutant: a runtime that is no longer configured is forgotten, not closed.
ConfigureForgets(r) ==
    /\ call = Idle
    /\ configured' = r
    /\ mapped' = (mapped /\ r # 0)
    /\ call' = IF mapped /\ r # 0 /\ stream \notin {0, r}
               THEN Doing("reopen", {}, r) ELSE Idle
    /\ UNCHANGED <<host, audio, objects, stream, banks, conn>>

\* setConfiguredDevices, setDeviceEnabled and setPreferredPointRate: a runtime
\* that is no longer configured is closed, one at another rate reopened.
Configure(r) ==
    /\ call = Idle
    /\ configured' = r
    /\ mapped' = (mapped /\ r # 0)
    /\ call' = IF mapped /\ r = 0 THEN Doing("discard", {}, 0)
               ELSE IF mapped /\ stream \notin {0, r} THEN Doing("reopen", {}, r)
               ELSE Idle
    /\ UNCHANGED <<host, audio, objects, stream, banks, conn>>

Discard ==
    /\ call.op = "discard"
    /\ CloseRuntime
    /\ conn' = IF stream = 0 THEN conn ELSE Told(Attached, 0)
    /\ call' = Idle
    /\ UNCHANGED <<host, audio, objects, configured>>

Reopen ==
    /\ call.op = "reopen"
    /\ Opens(call.rate) \/ OpenFails(call.rate)
    /\ call' = Idle
    /\ UNCHANGED <<plugged, audio, objects, configured, mapped, banks>>

CloseAll ==
    /\ call = Idle
    /\ mapped' = FALSE
    /\ cache' = [b \in Banks |-> 0]
    /\ call' = Doing("closeall", {i \in Ids : Alive(i) /\ \E b \in Banks :
                                                 cache[b] = i}, 0)
    /\ UNCHANGED <<host, audio, configured, stream, banks, bankOf, conn, made,
                   held>>

\* The runtime is closed first, then the controllers.
CloseRest ==
    /\ call.op = "closeall"
    /\ CloseRuntime
    /\ conn' = Told(call.s \cup (IF stream = 0 THEN {} ELSE Attached), 0)
    /\ returned' = returned \cup call.s
    /\ call' = Idle
    /\ UNCHANGED <<host, objects, configured, running, snapshot, late>>

\* The application lets go of a controller.
Drop(i) ==
    /\ i \in held
    /\ held' = held \ {i}
    /\ UNCHANGED <<host, audio, runtime, configured, cache, bankOf, conn, made,
                   call>>

-----------------------------------------------------------------------------
(* The audio thread and the host.                                          *)

\* handleAudioCallback locks the banks' pointers and forgets expired ones.
Callback ==
    /\ stream # 0 /\ plugged /\ ~running
    /\ running' = TRUE
    /\ snapshot' = Attached
    /\ banks' = [b \in Banks |-> IF banks[b] \in Attached THEN banks[b] ELSE 0]
    /\ UNCHANGED <<host, objects, configured, mapped, stream, conn, call,
                   returned, late>>

\* It renders a block of each controller and lets go of them.
Render ==
    /\ running
    /\ running' = FALSE
    /\ late' = [i \in Ids |-> IF i \in snapshot \cap returned /\ late[i] < 2
                              THEN late[i] + 1 ELSE late[i]]
    /\ snapshot' = {}
    /\ UNCHANGED <<host, runtime, objects, configured, conn, call, returned>>

Unplug ==
    /\ plugged /\ Fault
    /\ plugged' = FALSE
    /\ UNCHANGED <<audio, runtime, objects, configured, conn, call>>

Plug ==
    /\ ~plugged
    /\ plugged' = TRUE
    /\ UNCHANGED <<faults, audio, runtime, objects, configured, conn, call>>

Next ==
    \/ \E b \in Banks : Connect(b) \/ Disconnect(b)
    \/ ConnectOpens \/ ConnectFails \/ Attach
    \/ Detach \/ Stop
    \/ \E r \in Rates \cup {0} : Configure(r)
    \/ Discard \/ Reopen
    \/ CloseAll \/ CloseRest
    \/ \E i \in Ids : Drop(i)
    \/ Callback \/ Render
    \/ Unplug \/ Plug

Spec == Init /\ [][Next]_vars

-----------------------------------------------------------------------------
\* Every variable keeps its kind; a runtime outside the map is being closed,
\* or there is nothing left of it.
TypeOK ==
    /\ plugged \in BOOLEAN /\ running \in BOOLEAN /\ mapped \in BOOLEAN
    /\ configured \in Rates \cup {0}
    /\ stream \in Rates \cup {0}
    /\ banks \in [Banks -> Ids \cup {0}]
    /\ cache \in [Banks -> Ids \cup {0}]
    /\ made \in 0 .. MaxControllers
    /\ bankOf \in [1 .. made -> Banks]
    /\ conn \in [Ids -> Rates \cup {0}]
    /\ held \subseteq 1 .. made
    /\ snapshot \subseteq 1 .. made
    /\ returned \subseteq 1 .. made
    /\ late \in [Ids -> 0 .. 2]
    /\ faults \in 0 .. MaxFaults
    /\ call \in [op : Ops, s : SUBSET (1 .. made), rate : Rates \cup {0}]
    /\ ~mapped /\ call = Idle => stream = 0 /\ banks = [b \in Banks |-> 0]

\* Between calls a controller says it is connected exactly when it has a bank
\* of the runtime's open stream, and then its point rate is the stream's:
\* whatever failed to open, was reconfigured under it or was closed for a
\* sibling (AvbDeviceRuntime::open, close, attachController).
ConnectedIsStreaming ==
    call = Idle =>
        \A i \in {j \in 1 .. made : Alive(j)} :
            conn[i] = IF mapped /\ banks[bankOf[i]] = i THEN stream ELSE 0

\* Once disconnectController or closeAll has returned for a controller, at
\* most the block that was being rendered still comes out, although the stream
\* runs on for its siblings.
OneLateBlock == \A i \in Ids : late[i] <= 1
=============================================================================
