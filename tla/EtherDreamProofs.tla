-------------------------- MODULE EtherDreamProofs --------------------------
(***************************************************************************)
(* For any FIFO, rates, latencies and number of failures: the worker reads *)
(* no answer as that of another command, restarts a starved DAC blanked,   *)
(* and does not return while the DAC plays a stream it began.              *)
(***************************************************************************)
EXTENDS EtherDream, SequenceTheorems, TLAPS

-----------------------------------------------------------------------------
(* The inductive invariant.                                                 *)

Dacs == [le: LightEngine, pb: Playback, full: 0..Capacity, bad: BOOLEAN, under: BOOLEAN,
         dry: BOOLEAN, begun: BOOLEAN]

\* TypeOK, with the DAC a record.
Typed ==
    /\ running \in BOOLEAN /\ rate \in Rates /\ latency \in Latencies
    /\ pc \in {"connect", "greet", "probe", "loop", "await", "done"}
    /\ cmd \in [op: Opcodes, rate: Rates, for: {"handshake", "loop", "close"}]
    /\ drv \in Drivers
    /\ firmware \in {"none", "dac", "garbage"} /\ probeOff \in BOOLEAN
    /\ link \in {"down", "open", "greeted"}
    /\ inbox \in Seq(Commands) /\ wire \in Seq(Replies)
    /\ dac \in Dacs
    /\ faults \in 0..MaxFaults /\ changes \in 0..MaxChanges

\* An exchange holds the connection, and the loop holds it until it fails;
\* nobody else does.
Linked ==
    /\ pc \in {"greet", "probe", "await"} => drv.active
    /\ pc \in {"greet", "probe", "await", "loop"} /\ drv.active => link # "down"
    /\ pc \in {"connect", "done"} \/ ~drv.active => link = "down"
    /\ link = "down" => wire = <<>>

\* The answers a reader may meet that nobody waits for: greetings, answers to
\* pings and what is left of a firmware string.
Stale == {"?", "v"}
Answers(m) == IF m.reply \in {"text", "junk"} THEN "v" ELSE m.op

InboxStale == \A i \in 1..Len(inbox) : inbox[i].op \in Stale
WireStale == \A i \in 1..Len(wire) : Answers(wire[i]) \in Stale

\* Ahead of the command in flight, or of its answer, there is nothing else; and
\* while none is in flight, nothing else at all.
InOrder ==
    /\ \A i \in 1..Len(inbox) : i < Len(inbox) => inbox[i].op \in Stale
    /\ \A i \in 1..Len(wire) : i < Len(wire) => Answers(wire[i]) \in Stale
    /\ pc \in {"greet", "probe", "loop"} /\ link # "down" => InboxStale /\ WireStale
    /\ pc = "await" =>
         /\ cmd.op # "v"
         /\ cmd.for = "handshake" => cmd.op = "?"
         /\ inbox # <<>> => inbox[Len(inbox)].op = cmd.op /\ WireStale
         /\ inbox = <<>> => /\ link = "greeted" /\ wire # <<>>
                            /\ Answers(wire[Len(wire)]) = cmd.op

\* The underflow flag, an E-stop and a warm-up all mean that playback is idle;
\* so do the statuses that tell of them.
Sane(s) == /\ s.under => s.pb = "idle"
           /\ s.le # "ready" => s.pb = "idle"
DacSane ==
    /\ Sane(dac) /\ Sane(drv.known)
    /\ \A i \in 1..Len(wire) : Sane(wire[i].status)
    /\ dac.dry => dac.le = "ready" /\ dac.full = 0 /\ dac.pb # "playing"

\* Prepare is sent only to a DAC last seen idle.
Prepares ==
    /\ drv.action = "prepare" => drv.known.pb = "idle"
    /\ pc = "await" /\ cmd.op = "p" => drv.known.pb = "idle"

\* A starved DAC the worker still believes to be playing.
Unnoticed == /\ drv.known.pb = "playing" /\ dac.pb = "idle" /\ dac.under

\* With the startup blank used up, the worker knows of all playback, and of all
\* starvation it has not noticed the next answer tells.
InStep ==
    /\ dac.pb = "playing" => drv.known.pb = "playing"
    /\ dac.dry => Unnoticed

\* The answer m to the command in flight makes the worker notice.
Tells(m) ==
    /\ dac.pb = "playing" => m.status.pb = "playing"
    /\ dac.dry => \/ m.status.pb = "playing" /\ dac.pb = "idle" /\ dac.under
                  \/ m.status.under /\ ~drv.known.under
                  \/ cmd.op = "d" /\ m.reply = "I" /\ m.status.le = "ready" /\ m.status.pb = "idle"

\* Unblanked points in flight meet a starved DAC idle, which refuses them.
UnledRefused ==
    \A i \in 1..Len(inbox) :
      inbox[i].op = "d" /\ ~inbox[i].lead /\ dac.dry => dac.pb = "idle"

LoopInStep ==
    pc = "loop" /\ drv.active /\ ~drv.blank =>
      inbox = <<>> /\ wire = <<>> /\ link = "greeted" /\ InStep

ExchangeTells ==
    pc = "await" /\ cmd.for = "loop" /\ ~drv.blank =>
      /\ inbox # <<>> => \/ cmd.op = "d" /\ inbox[Len(inbox)].lead
                         \/ Len(inbox) = 1 /\ wire = <<>> /\ link = "greeted" /\ InStep
      /\ inbox = <<>> => /\ Tells(wire[Len(wire)])
                         /\ Len(wire) = 1 \/ cmd.op = "d"

Blanking == UnledRefused /\ LoopInStep /\ ExchangeTells

\* The DAC plays a stream this program began.
PlaysOurs == dac.pb = "playing" /\ dac.begun

\* Until something fails every answer is read in its turn, and the worker lets
\* go of the DAC only when it has stopped what it began.
ReadyHeard ==
    /\ dac.le = "ready" /\ drv.known.le = "ready"
    /\ \A i \in 1..Len(wire) : wire[i].status.le = "ready"
Released == pc \in {"connect", "done"} => inbox = <<>> /\ ~PlaysOurs
Greeting ==
    pc = "greet" => /\ inbox = <<>> /\ ~PlaysOurs
                    /\ \/ link = "open" /\ wire = <<>>
                       \/ link = "greeted" /\ Len(wire) = 1
Probing ==
    pc = "probe" => /\ ~PlaysOurs /\ link = "greeted"
                    /\ \/ Len(inbox) = 1 /\ inbox[1].op = "v" /\ wire = <<>>
                       \/ inbox = <<>> /\ Len(wire) = 1 /\ wire[1].reply = "text"
Looping ==
    pc = "loop" => /\ drv.active /\ link = "greeted" /\ wire = <<>> /\ inbox = <<>>
                   /\ PlaysOurs => drv.known.pb = "playing"
Awaiting ==
    pc = "await" =>
      /\ cmd.for # "handshake" /\ link = "greeted"
      /\ cmd.for = "close" => cmd.op = "s"
      /\ \/ /\ Len(inbox) = 1 /\ wire = <<>>
            /\ PlaysOurs => drv.known.pb = "playing"
         \/ /\ inbox = <<>> /\ Len(wire) = 1
            /\ PlaysOurs => wire[1].status.pb = "playing"
            /\ cmd.for = "close" => dac.pb = "idle"

Quiet == ReadyHeard /\ Released /\ Greeting /\ Probing /\ Looping /\ Awaiting

Undisturbed == faults = 0 => Quiet

IInv == Typed /\ Linked /\ InOrder /\ DacSane /\ Prepares /\ Blanking /\ Undisturbed
-----------------------------------------------------------------------------
(* What the worker's decisions do to its protocol state.                    *)

\* The fields of the controller's protocol state have their types.
LEMMA DriverFields ==
    ASSUME NEW d \in Drivers
    PROVE  /\ d.action \in Actions /\ d.known \in Statuses /\ d.played \in 0..Capacity
           /\ d.implausible \in BOOLEAN /\ d.reboot \in BOOLEAN
           /\ d.sentRate \in Rates \cup {0} /\ d.clearFresh \in BOOLEAN
           /\ d.blank \in BOOLEAN /\ d.active \in BOOLEAN
BY DEF Drivers

\* What a status asks for is one of the actions; only an idle DAC is prepared.
LEMMA ActionForStatusType ==
    ASSUME NEW s \in Statuses
    PROVE  /\ ActionForStatus(s) \in Actions
           /\ ActionForStatus(s) = "prepare" => s.pb = "idle"
BY DEF ActionForStatus, Actions, Statuses, LightEngine, Playback

\* The result of a decision taken in state d on seeing s: it knows s, prepares
\* only if s is idle, and keeps the connection.
Decided(d, s, u) ==
    /\ u \in Drivers
    /\ u.known = s /\ u.active = d.active
    /\ u.action = "prepare" => s.pb = "idle"

\* updatePlaybackRequirements decides on the status it is given, and arms the
\* blanking on a fresh underflow flag.
LEMMA UpdateDecides ==
    ASSUME NEW d \in Drivers, NEW s \in Statuses
    PROVE  LET u == UpdatePlaybackRequirements(d, s)
           IN  /\ Decided(d, s, u)
               /\ u.blank = (d.blank \/ (s.under /\ ~d.known.under))
<1> DEFINE b == d.blank \/ (s.under /\ ~d.known.under)
           seen == [d EXCEPT !.known = s, !.played = 0, !.action = ActionForStatus(s),
                             !.blank = b]
           u == UpdatePlaybackRequirements(d, s)
<1>1. 0 \in 0..Capacity /\ b \in BOOLEAN
  BY EtherDreamAssumption
<1>2. /\ seen \in Drivers /\ seen.known = s /\ seen.active = d.active /\ seen.blank = b
      /\ seen.action = ActionForStatus(s)
  <2> HIDE DEF b
  <2> QED
    BY <1>1, ActionForStatusType DEF Drivers
<1>3. \/ u = [seen EXCEPT !.implausible = TRUE, !.action = "clear"]
      \/ u = [seen EXCEPT !.reboot = TRUE, !.action = "stop"]
      \/ u = [seen EXCEPT !.implausible = FALSE, !.reboot = FALSE]
      \/ u = seen
  BY DEF UpdatePlaybackRequirements
<1> HIDE DEF seen, b, u
<1>4. u \in Drivers /\ u.known = s /\ u.active = d.active /\ u.blank = b
  BY <1>2, <1>3 DEF Drivers, Actions
<1>5. u.action \in {ActionForStatus(s), "clear", "stop"}
  BY <1>2, <1>3 DEF Drivers, Actions
<1> QED
  BY <1>4, <1>5, ActionForStatusType DEF Decided, b, u

\* An answer that makes the worker notice that the DAC starved.
Starved(op, m) ==
    op = "d" /\ m.reply = "I" /\ m.status.le = "ready" /\ m.status.pb = "idle"

\* handleResponseFrame decides on the status in the frame; blanking stays unarmed
\* only if the frame reports no underflow and no starved refusal.
LEMMA ResponseDecides ==
    ASSUME NEW d \in Drivers, NEW op \in Opcodes, NEW m \in Replies
    PROVE  LET h == HandleResponseFrame(d, op, m)
           IN  /\ Decided(d, m.status, h)
               /\ ~h.blank => /\ ~d.blank /\ ~(m.status.under /\ ~d.known.under)
                              /\ ~Starved(op, m)
<1> DEFINE u == UpdatePlaybackRequirements(d, m.status)
           h == HandleResponseFrame(d, op, m)
           refused == op = "d" /\ m.reply \in {"I", "F"}
<1>1. m.status \in Statuses
  BY DEF Replies
<1>2. /\ Decided(d, m.status, u)
      /\ u.blank = (d.blank \/ (m.status.under /\ ~d.known.under))
  BY <1>1, UpdateDecides
<1>3. h = [u EXCEPT !.action = IF refused THEN "clear" ELSE @,
                    !.blank = @ \/ Starved(op, m)]
  BY DEF HandleResponseFrame, Starved
<1> HIDE DEF u, h, refused
<1>4. u \in Drivers /\ u.blank \in BOOLEAN /\ u.action \in Actions
  BY <1>2, DriverFields DEF Decided
<1>5. Starved(op, m) \in BOOLEAN
  BY DEF Starved
<1>6. /\ h \in Drivers /\ h.known = u.known /\ h.active = u.active
      /\ h.blank = (u.blank \/ Starved(op, m))
      /\ h.action \in {u.action, "clear"}
  BY <1>3, <1>4, <1>5 DEF Drivers, Actions
<1> QED
  BY <1>2, <1>6 DEF Decided, u, h

\* The first status of a connection is decided on without touching the blanking.
LEMMA FreshDecides ==
    ASSUME NEW d \in Drivers, NEW s \in Statuses, d.known = s,
           d.action = "prepare" => s.pb = "idle"
    PROVE  LET f == ApplyFreshConnectionStatus(d, s)
           IN  Decided(d, s, f) /\ f.blank = d.blank
<1> DEFINE f == ApplyFreshConnectionStatus(d, s)
<1>1. d.clearFresh \in BOOLEAN /\ s.le \in LightEngine
  BY DriverFields DEF Statuses
<1>2. \/ f = [d EXCEPT !.clearFresh = FALSE, !.action = "clear"]
      \/ f = [d EXCEPT !.action = "clear"]
      \/ f = [d EXCEPT !.action = "none"]
      \/ f = [d EXCEPT !.action = IF s.pb = "idle" THEN "prepare" ELSE "stop"]
  BY <1>1 DEF ApplyFreshConnectionStatus, LightEngine
<1> HIDE DEF f
<1>3. f \in Drivers /\ f.known = s /\ f.active = d.active /\ f.blank = d.blank
  BY <1>2 DEF Drivers, Actions
<1>4. f.action = "prepare" => s.pb = "idle"
  BY <1>2 DEF Drivers, Actions
<1> QED
  BY <1>3, <1>4 DEF Decided, f

\* What follows an ACK keeps the known status and never disarms the blanking.
LEMMA AckDecides ==
    ASSUME NEW d \in Drivers, NEW c, c.rate \in Rates, d.action = "prepare" => d.known.pb = "idle"
    PROVE  LET a == AfterAck(d, c)
           IN  Decided(d, d.known, a) /\ (~a.blank => ~d.blank)
<1> DEFINE a == AfterAck(d, c)
           low == d.known.le = "ready" /\ d.known.pb = "playing" /\ d.known.full < UnderrunLevel
<1>1. d.action \in Actions /\ d.sentRate \in Rates \cup {0} /\ d.blank \in BOOLEAN
  BY DriverFields
<1>2. \/ a = [d EXCEPT !.sentRate = 0,
                !.action = IF d.known.le = "ready" /\ d.known.pb # "idle" THEN "stop" ELSE @]
      \/ a = [d EXCEPT
                !.action = IF d.known.le = "ready" /\ d.known.pb = "playing" THEN "stop" ELSE @]
      \/ a = [d EXCEPT !.sentRate = IF d.known.pb = "playing" THEN c.rate ELSE @]
      \/ a = [d EXCEPT !.blank = @ \/ low]
      \/ a = d
  BY DEF AfterAck
<1>3. low \in BOOLEAN
  OBVIOUS
<1> HIDE DEF a, low
<1>4. /\ a \in Drivers /\ a.known = d.known /\ a.active = d.active
      /\ a.action \in {d.action, "stop"}
  BY <1>1, <1>2, <1>3 DEF Drivers, Actions
<1>5. a.blank \in {d.blank, d.blank \/ low}
  BY <1>1, <1>2, <1>3 DEF Drivers
<1> QED
  BY <1>1, <1>4, <1>5 DEF Decided, a

\* A network failure deactivates the connection and forgets nothing else used here.
LEMMA FailureDecides ==
    ASSUME NEW d \in Drivers
    PROVE  LET f == HandleNetworkFailure(d)
           IN  /\ f \in Drivers /\ ~f.active
               /\ f.known = d.known /\ f.action = d.action /\ f.blank = d.blank
BY DEF HandleNetworkFailure, Drivers

\* A new connection starts active and knowing no status.
LEMMA ResetDecides ==
    ASSUME NEW d \in Drivers
    PROVE  LET r == ResetProtocolState(d)
           IN  r \in Drivers /\ r.active /\ r.known = NoStatus
<1>1. NoStatus \in Statuses /\ 0 \in 0..Capacity
  BY EtherDreamAssumption DEF NoStatus, Statuses, LightEngine, Playback
<1> QED
  BY <1>1 DEF ResetProtocolState, Drivers, Actions

-----------------------------------------------------------------------------
(* What serving a command does to the DAC.                                  *)

\* The state r and the answer a that Serve(d, c) may be.
Served(d, c, r, a) ==
    \/ r = d /\ c.op = "?" /\ a = "a"
    \/ r = d /\ c.op = "v" /\ a = "text"
    \/ r = d /\ c.op \notin Stale /\ a \in {"I", "F"}
    \/ r = d /\ c.op \notin Stale /\ d.le # "ready" /\ a = "!"
    \/ c.op = "c" /\ a = "a" /\ d.le = "estop" /\ r = [d EXCEPT !.le = "ready"]
    \/ c.op = "s" /\ a = "a" /\ r = [d EXCEPT !.pb = "idle", !.full = 0, !.bad = FALSE]
    \/ /\ c.op = "p" /\ a = "a" /\ d.le = "ready"
       /\ r = [d EXCEPT !.pb = "prepared", !.full = 0, !.under = FALSE]
    \/ /\ c.op = "b" /\ a = "a" /\ d.le = "ready" /\ d.pb = "prepared" /\ d.full > 0
       /\ r = [d EXCEPT !.pb = "playing", !.begun = TRUE]
    \/ /\ c.op = "d" /\ a = "a" /\ d.le = "ready" /\ d.pb # "idle" /\ d.full + c.n <= Capacity
       /\ r = [d EXCEPT !.full = d.full + c.n, !.dry = FALSE]

\* The DAC's answer to a command is one of the cases of Served; a stop idles a
\* ready DAC, an idle one refuses data, and one that runs on data is not dry.
LEMMA ServeCases ==
    ASSUME NEW d \in Dacs, NEW c \in Commands
    PROVE  LET r == Serve(d, c)
           IN  /\ r = <<r[1], r[2]>> /\ Served(d, c, r[1], r[2])
               /\ d.le = "ready" /\ c.op = "s" => r[1].pb = "idle"
               /\ c.op = "d" /\ d.le = "ready" /\ d.pb = "idle" => r[2] = "I"
               /\ /\ c.op = "d" /\ d.le = "ready" /\ d.pb # "idle" /\ d.full = 0
                  => ~r[1].dry
<1>1. /\ c.op \in Opcodes /\ c.n \in 0..Capacity
      /\ d.full \in 0..Capacity /\ Capacity \in Nat
      /\ DOMAIN d = {"le", "pb", "full", "bad", "under", "dry", "begun"}
  BY EtherDreamAssumption DEF Commands, Dacs
<1>2. CASE c.op = "?"
  BY <1>2 DEF Serve, Served
<1>3. CASE c.op = "v"
  BY <1>3 DEF Serve, Served
<1>4. CASE c.op = "c"
  BY <1>4 DEF Serve, Served, Stale
<1>5. CASE c.op = "s"
  BY <1>1, <1>5 DEF Serve, Served, Stale, Dacs
<1>6. CASE c.op = "p"
  BY <1>1, <1>6 DEF Serve, Served, Stale, Dacs
<1>7. CASE c.op = "b"
  BY <1>1, <1>7 DEF Serve, Served, Stale, Dacs
<1>8. CASE c.op = "d"
  <2>1. CASE d.le # "ready"
    BY <1>8, <2>1 DEF Serve, Served, Stale
  <2>2. CASE d.le = "ready" /\ d.pb = "idle"
    <3>1. Serve(d, c) = <<d, "I">>
      BY <1>8, <2>2 DEF Serve
    <3> QED
      BY <1>8, <2>2, <3>1 DEF Served, Stale
  <2>3. CASE d.le = "ready" /\ d.pb # "idle" /\ d.full + c.n > Capacity
    <3>1. Serve(d, c) = <<d, "F">>
      BY <1>8, <2>3 DEF Serve
    <3>2. d.full # 0
      BY <1>1, <2>3
    <3> QED
      BY <1>8, <2>3, <3>1, <3>2 DEF Served, Stale
  <2>4. CASE d.le = "ready" /\ d.pb # "idle" /\ d.full + c.n <= Capacity
    <3> DEFINE r == [d EXCEPT !.full = d.full + c.n, !.dry = FALSE]
    <3>1. Serve(d, c) = <<r, "a">>
      BY <1>1, <1>8, <2>4 DEF Serve
    <3>2. r.dry = FALSE
      BY DEF Dacs
    <3>3. Served(d, c, r, "a")
      BY <1>8, <2>4 DEF Served
    <3> HIDE DEF r
    <3> QED
      BY <1>8, <2>4, <3>1, <3>2, <3>3
  <2> QED
    BY <1>1, <2>1, <2>2, <2>3, <2>4
<1> QED
  BY <1>1, <1>2, <1>3, <1>4, <1>5, <1>6, <1>7, <1>8 DEF Opcodes

\* The records of the DAC's state that the model's steps make.
LEMMA DacStates ==
    ASSUME NEW d \in Dacs, NEW f \in 0..Capacity, NEW l \in LightEngine
    PROVE  /\ [d EXCEPT !.full = f, !.dry = FALSE] \in Dacs
           /\ [d EXCEPT !.full = f] \in Dacs
           /\ [d EXCEPT !.le = l] \in Dacs
           /\ [d EXCEPT !.bad = TRUE] \in Dacs
           /\ [d EXCEPT !.pb = "idle", !.full = f] \in Dacs
           /\ [d EXCEPT !.pb = "idle", !.full = f, !.bad = FALSE] \in Dacs
           /\ [d EXCEPT !.pb = "prepared", !.full = f, !.under = FALSE] \in Dacs
           /\ [d EXCEPT !.pb = "playing", !.begun = TRUE] \in Dacs
           /\ [d EXCEPT !.pb = "idle", !.under = TRUE, !.dry = TRUE, !.bad = FALSE] \in Dacs
           /\ [d EXCEPT !.le = l, !.pb = "idle", !.full = f, !.bad = FALSE, !.dry = FALSE] \in Dacs
<1>1. "idle" \in Playback /\ "prepared" \in Playback /\ "playing" \in Playback
  BY DEF Playback
<1> QED
  BY <1>1 DEF Dacs

\* Serving keeps the DAC's type; only the firmware probe is answered in text, and
\* a ping or a probe changes nothing.
LEMMA ServedType ==
    ASSUME NEW d \in Dacs, NEW c \in Commands, NEW r, NEW a, Served(d, c, r, a)
    PROVE  /\ r \in Dacs /\ a \in {"a", "I", "F", "!", "text"}
           /\ a = "text" <=> c.op = "v"
           /\ c.op \in Stale => r = d
<1>1. c.op \in Opcodes /\ c.n \in 0..Capacity /\ d.full \in 0..Capacity /\ Capacity \in Nat
  BY EtherDreamAssumption DEF Commands, Dacs
<1>2. 0 \in 0..Capacity /\ "ready" \in LightEngine
  BY <1>1 DEF LightEngine
<1>3. d.full + c.n <= Capacity => d.full + c.n \in 0..Capacity
  BY <1>1
<1>4. r \in Dacs
  BY <1>2, <1>3, DacStates, Zenon DEF Served
<1> QED
  BY <1>1, <1>4 DEF Served, Stale

-----------------------------------------------------------------------------
(* The ends of a queue.                                                     *)

\* Taking the head off a non-empty queue.
LEMMA TailFacts ==
    ASSUME NEW S, NEW s \in Seq(S), s # <<>>
    PROVE  /\ Len(s) \in Nat \ {0}
           /\ Head(s) = s[1] /\ Head(s) \in S /\ s[Len(s)] \in S
           /\ Tail(s) \in Seq(S) /\ Len(Tail(s)) = Len(s) - 1
           /\ \A i \in 1..Len(Tail(s)) : Tail(s)[i] = s[i + 1]
BY LenProperties, ElementOfSeq, EmptySeq, HeadTailProperties

\* Putting an element at the end of a queue.
LEMMA AppendFacts ==
    ASSUME NEW S, NEW s \in Seq(S), NEW e \in S
    PROVE  /\ Len(s) \in Nat
           /\ Append(s, e) \in Seq(S) /\ Append(s, e) # <<>> /\ Len(Append(s, e)) = Len(s) + 1
           /\ \A i \in 1..Len(s) : Append(s, e)[i] = s[i]
           /\ Append(s, e)[Len(s) + 1] = e
BY LenProperties, AppendProperties, EmptySeq

\* A queue is empty when its length is 0.
LEMMA EmptyFacts ==
    ASSUME NEW S, NEW s \in Seq(S)
    PROVE  /\ s = <<>> <=> Len(s) = 0
           /\ Len(s) \in Nat
           /\ <<>> \in Seq(S) /\ Len(<<>>) = 0
BY LenProperties, EmptySeq

-----------------------------------------------------------------------------
(* What reading an answer does.                                             *)

\* The connection is given up on the way out of an exchange.
LetGo ==
    /\ pc' = IF cmd.for = "loop" THEN "loop" ELSE "connect"
    /\ drv' \in Drivers /\ ~drv'.active
    /\ link' = "down" /\ wire' = <<>> /\ inbox' = inbox

\* A mismatched or missing answer lets the connection go, its knowledge intact.
LEMMA FailureLetsGo ==
    ASSUME Typed, ReceiveMismatch \/ ResponseTimeout
    PROVE  LetGo /\ drv'.known = drv.known /\ drv'.action = drv.action
<1> DEFINE d == HandleNetworkFailure(drv)
           e == [d EXCEPT !.active = FALSE]
<1>1. d \in Drivers /\ ~d.active /\ d.known = drv.known /\ d.action = drv.action
  BY FailureDecides DEF Typed
<1>2. Resume(d)
  BY DEF ReceiveMismatch, ResponseTimeout
<1> HIDE DEF d
<1>3. /\ pc' = IF cmd.for = "loop" THEN "loop" ELSE "connect"
      /\ drv' = e /\ link' = "down" /\ wire' = <<>> /\ inbox' = inbox
  BY <1>1, <1>2 DEF Resume, Hangup
<1>4. e \in Drivers /\ ~e.active /\ e.known = d.known /\ e.action = d.action
  BY <1>1 DEF Drivers
<1> QED
  BY <1>1, <1>3, <1>4 DEF LetGo

\* The handshake is over: the firmware query is sent, or the loop entered.
Entered ==
    /\ drv' \in Drivers /\ drv'.active = drv.active /\ wire' = Tail(wire) /\ link' = link
    /\ \/ pc' = "probe" /\ inbox' = Append(inbox, Bare("v"))
       \/ pc' = "loop" /\ drv'.blank /\ inbox' = inbox

\* Entering the stream sends the firmware probe or goes to the loop blanked.
LEMMA StreamEntered ==
    ASSUME NEW d \in Drivers, EnterStream(d), d.active = drv.active,
           wire' = Tail(wire), link' = link
    PROVE  Entered /\ drv'.known = d.known /\ drv'.action = d.action
<1> DEFINE e == [d EXCEPT !.blank = TRUE]
<1>1. e \in Drivers /\ e.blank /\ e.known = d.known /\ e.action = d.action /\ e.active = d.active
  BY DEF Drivers
<1> HIDE DEF e
<1>2. \/ pc' = "probe" /\ drv' = d /\ inbox' = Append(inbox, Bare("v"))
      \/ pc' = "loop" /\ drv' = e /\ inbox' = inbox
  BY DEF EnterStream, e
<1> QED
  BY <1>1, <1>2 DEF Entered

\* What was read is now known, and prepare is due only if it was idle.
Learnt == /\ drv'.known = Head(wire).status
          /\ drv'.action = "prepare" => drv'.known.pb = "idle"

\* The oldest answer on the wire carries a status.
LEMMA HeadOfWire ==
    ASSUME Typed, wire # <<>>
    PROVE  Head(wire) \in Replies /\ Head(wire).status \in Statuses
<1>1. Head(wire) \in Replies
  BY TailFacts DEF Typed
<1> QED
  BY <1>1 DEF Replies

\* A greeting that is read enters the stream and is learnt.
LEMMA GreetedEnters ==
    ASSUME Typed, Greeted
    PROVE  Entered /\ Learnt
<1> DEFINE s == Head(wire).status
           d == UpdatePlaybackRequirements(drv, s)
           f == ApplyFreshConnectionStatus(d, s)
<1>1. s \in Statuses
  BY HeadOfWire DEF Greeted
<1>2. Decided(drv, s, d)
  BY <1>1, UpdateDecides DEF Typed
<1>3. Decided(d, s, f)
  <2> HIDE DEF d, s
  <2> QED
    BY <1>1, <1>2, FreshDecides DEF Decided
<1>4. EnterStream(f) /\ wire' = Tail(wire) /\ link' = link
  BY DEF Greeted
<1> HIDE DEF d, f
<1>5. f \in Drivers /\ f.active = drv.active /\ f.known = s
      /\ (f.action = "prepare" => s.pb = "idle")
  BY <1>2, <1>3 DEF Decided
<1> QED
  BY <1>4, <1>5, StreamEntered DEF Learnt

\* An exchange of the loop ends well.
Continued ==
    /\ cmd.for = "loop" /\ pc' = "loop" /\ drv' \in Drivers /\ drv'.active
    /\ wire' = Tail(wire) /\ link' = link /\ inbox' = inbox
    /\ ~drv'.blank => /\ ~drv.blank /\ ~(Head(wire).status.under /\ ~drv.known.under)
                      /\ ~Starved(cmd.op, Head(wire))

\* After an exchange the controller continues, or lets go when it is inactive.
LEMMA Resumed ==
    ASSUME Typed, NEW d \in Drivers, Resume(d), d.active => drv.active,
           ~d.blank => /\ ~drv.blank /\ ~(Head(wire).status.under /\ ~drv.known.under)
                       /\ ~Starved(cmd.op, Head(wire))
    PROVE  /\ drv'.known = d.known /\ drv'.action = d.action
           /\ \/ Continued /\ d.active
              \/ LetGo /\ (cmd.for = "loop" => ~d.active)
<1> DEFINE e == [d EXCEPT !.active = FALSE]
<1>1. e \in Drivers /\ ~e.active /\ e.known = d.known /\ e.action = d.action
  BY DEF Drivers
<1> HIDE DEF e
<1>2. CASE cmd.for = "loop" /\ d.active
  BY <1>2 DEF Resume, Continued
<1>3. CASE ~(cmd.for = "loop" /\ d.active)
  <2>1. /\ pc' = IF cmd.for = "loop" THEN "loop" ELSE "connect"
        /\ drv' = e /\ link' = "down" /\ wire' = <<>> /\ inbox' = inbox
    BY <1>3 DEF Resume, Hangup, e
  <2> QED
    BY <1>1, <1>3, <2>1 DEF LetGo
<1> QED
  BY <1>2, <1>3

\* An answer that is read is learnt, and the controller enters the stream,
\* continues, or lets go.
LEMMA AnswerTaken ==
    ASSUME Typed, ReceiveAck \/ ReceiveNak
    PROVE  /\ Learnt
           /\ \/ cmd.for = "handshake" /\ Entered
              \/ Continued
              \/ LetGo /\ (cmd.for = "loop" => ~drv.active)
                 /\ (cmd.for = "handshake" => Head(wire).reply # "a")
<1> DEFINE m == Head(wire)
           s == m.status
           h == HandleResponseFrame(drv, cmd.op, m)
<1>1. wire # <<>>
  BY DEF ReceiveAck, ReceiveNak
<1>2. m \in Replies /\ s \in Statuses /\ cmd.op \in Opcodes /\ cmd.rate \in Rates /\ drv \in Drivers
  BY <1>1, HeadOfWire DEF Typed
<1>3. /\ Decided(drv, s, h)
      /\ ~h.blank => /\ ~drv.blank /\ ~(s.under /\ ~drv.known.under)
                     /\ ~Starved(cmd.op, m)
  BY <1>2, ResponseDecides
<1> HIDE DEF h
<1>4. /\ h \in Drivers /\ h.known = s /\ h.active = drv.active
      /\ h.action = "prepare" => s.pb = "idle"
  BY <1>3 DEF Decided
<1>5. CASE ReceiveAck /\ cmd.for = "handshake"
  <2> DEFINE f == ApplyFreshConnectionStatus(h, s)
  <2>1. Decided(h, s, f)
    BY <1>2, <1>4, FreshDecides
  <2>2. EnterStream(f) /\ wire' = Tail(wire) /\ link' = link
    BY <1>5 DEF ReceiveAck, h
  <2> HIDE DEF f
  <2>3. f \in Drivers /\ f.active = drv.active /\ f.known = s
        /\ (f.action = "prepare" => s.pb = "idle")
    BY <1>4, <2>1 DEF Decided
  <2> QED
    BY <1>5, <2>2, <2>3, StreamEntered DEF Learnt
<1>6. CASE ReceiveAck /\ cmd.for # "handshake"
  <2> DEFINE a == AfterAck(h, cmd)
  <2>1. Decided(h, h.known, a) /\ (~a.blank => ~h.blank)
    BY <1>2, <1>4, AckDecides
  <2>2. Resume(a)
    BY <1>6 DEF ReceiveAck, h
  <2> HIDE DEF a
  <2>3. a \in Drivers /\ a.active = drv.active /\ a.known = s
        /\ (a.action = "prepare" => s.pb = "idle")
    BY <1>4, <2>1 DEF Decided
  <2>4. ~a.blank => /\ ~drv.blank /\ ~(s.under /\ ~drv.known.under)
                    /\ ~Starved(cmd.op, m)
    BY <1>3, <2>1
  <2> QED
    BY <1>6, <2>2, <2>3, <2>4, Resumed DEF Learnt
<1>7. CASE ReceiveNak /\ cmd.for # "handshake"
  <2>1. Resume(h)
    BY <1>7 DEF ReceiveNak, h
  <2> QED
    BY <1>3, <1>4, <1>7, <2>1, Resumed DEF Learnt
<1>8. CASE ReceiveNak /\ cmd.for = "handshake"
  <2> DEFINE n == HandleNetworkFailure(h)
  <2>1. /\ n \in Drivers /\ ~n.active /\ n.known = h.known
        /\ n.action = h.action /\ n.blank = h.blank
    BY <1>4, FailureDecides
  <2>2. Resume(n)
    BY <1>8 DEF ReceiveNak, h
  <2>3. Head(wire).reply # "a"
    BY <1>8 DEF ReceiveNak
  <2> HIDE DEF n
  <2> QED
    BY <1>3, <1>4, <1>8, <2>1, <2>2, <2>3, Resumed DEF Learnt, Continued
<1> QED
  BY <1>5, <1>6, <1>7, <1>8

-----------------------------------------------------------------------------
(* What the other steps do.                                                 *)

\* The part of the protocol state that sending and time leave alone.
SameView == /\ drv' \in Drivers
            /\ drv'.known = drv.known /\ drv'.action = drv.action /\ drv'.active = drv.active

\* Command c goes out.
Sent(c, f) ==
    /\ c \in Commands /\ c.op # "v"
    /\ inbox' = Append(inbox, c) /\ pc' = "await"
    /\ cmd' = [op |-> c.op, rate |-> rate, for |-> f]

\* A command without a payload is a command.
LEMMA BareCommand ==
    ASSUME NEW o \in Opcodes
    PROVE  Bare(o) \in Commands /\ Bare(o).op = o
BY EtherDreamAssumption DEF Bare, Commands

\* There is never more than an empty FIFO to ask for.
LEMMA PacketFits ==
    ASSUME Typed
    PROVE  PacketSpace \in 0..Capacity
<1> DEFINE used == IF drv.known.pb = "playing" THEN drv.played ELSE 0
           usable == UsableBufferFreeSpace(Estimate)
<1>1. drv.known \in Statuses /\ drv.played \in 0..Capacity
  BY DriverFields DEF Typed
<1>2. drv.known.full \in 0..Capacity /\ used \in 0..Capacity /\ Capacity \in Nat
  BY <1>1, EtherDreamAssumption DEF Statuses
<1>3. Estimate \in 0..Capacity
  <2> HIDE DEF used
  <2>1. Larger(0, drv.known.full - used) \in 0..Capacity
    BY <1>2 DEF Larger
  <2> QED
    BY <2>1 DEF Estimate, EstimateFromSnapshot, used
<1>4. usable \in 0..Capacity
  BY <1>2, <1>3, EtherDreamAssumption DEF UsableBufferFreeSpace, Least
<1> HIDE DEF usable
<1>5. Least(usable, MaxPacket) \in 0..Capacity
  BY <1>2, <1>4, EtherDreamAssumption DEF Least
<1> QED
  BY <1>5 DEF PacketSpace, usable

\* The loop sends one command: a prepare only when that is its action, points
\* with a blank lead exactly when blanking is armed.
LEMMA LoopSends ==
    ASSUME Typed, SendAction \/ PollStatus \/ SendPoints
    PROVE  /\ InLoop /\ SameView
           /\ UNCHANGED <<link, wire, dac, faults>>
           /\ \E c : /\ Sent(c, "loop")
                     /\ c.op = "p" => drv.action = "prepare"
                     /\ c.op = "d" => c.lead = drv.blank
                     /\ c.op # "d" => drv'.blank = drv.blank
<1>1. CASE SendAction
  <2> DEFINE o == CASE drv.action = "stop" -> "s" [] drv.action = "clear" -> "c"
                    [] drv.action = "prepare" -> "p" [] drv.action = "begin" -> "b"
  <2>1. drv.action \in Actions /\ drv.action # "none"
    BY <1>1, DriverFields DEF Typed, SendAction
  <2>2. /\ o \in Opcodes /\ o \notin {"v", "d"}
        /\ o = "p" => drv.action = "prepare"
    BY <2>1 DEF Actions, Opcodes
  <2>3. Send(Bare(o), "loop") /\ InLoop /\ UNCHANGED <<drv, link, wire, dac, faults>>
    BY <1>1 DEF SendAction
  <2> HIDE DEF o
  <2>4. Sent(Bare(o), "loop")
    BY <2>2, <2>3, BareCommand DEF Send, Sent
  <2> QED
    BY <2>2, <2>3, <2>4, BareCommand DEF Typed, SameView
<1>2. CASE PollStatus
  <2>1. "?" \in Opcodes
    BY DEF Opcodes
  <2>2. Send(Bare("?"), "loop") /\ InLoop /\ UNCHANGED <<drv, link, wire, dac, faults>>
    BY <1>2 DEF PollStatus
  <2>3. Sent(Bare("?"), "loop")
    BY <2>1, <2>2, BareCommand DEF Send, Sent
  <2> QED
    BY <2>1, <2>2, <2>3, BareCommand DEF Typed, SameView
<1>3. CASE SendPoints
  <2>1. PICK n \in MinimumPoints..PacketSpace :
          n > 0 /\ Send([op |-> "d", n |-> n, lead |-> drv.blank], "loop")
    BY <1>3 DEF SendPoints
  <2> DEFINE c == [op |-> "d", n |-> n, lead |-> drv.blank]
             e == [drv EXCEPT !.blank = FALSE]
  <2>2. InLoop /\ drv' = e /\ UNCHANGED <<link, wire, dac, faults>>
    BY <1>3 DEF SendPoints
  <2>3. n \in 0..Capacity
    <3>1. n \in Int /\ n <= PacketSpace /\ n > 0
      BY <2>1
    <3> QED
      BY <3>1, PacketFits, EtherDreamAssumption
  <2>4. c \in Commands /\ c.op = "d" /\ c.lead = drv.blank
    BY <2>3, DriverFields DEF Commands, Opcodes, Typed
  <2>5. /\ e \in Drivers /\ e.known = drv.known
        /\ e.action = drv.action /\ e.active = drv.active
    BY DEF Typed, Drivers
  <2>6. Sent(c, "loop")
    <3> HIDE DEF c
    <3>1. Send(c, "loop")
      BY <2>1 DEF c
    <3> QED
      BY <2>4, <3>1 DEF Send, Sent
  <2> HIDE DEF c, e
  <2> QED
    BY <2>2, <2>4, <2>5, <2>6 DEF SameView
<1> QED
  BY <1>1, <1>2, <1>3

\* Time passes for the DAC and for the worker's reckoning.
LEMMA Ticks ==
    ASSUME Typed, Tick
    PROVE  /\ SameView /\ drv'.blank = drv.blank
           /\ dac' \in Dacs
           /\ \/ dac' = dac
              \/ /\ dac.pb = "playing" /\ dac.full > 0
                 /\ dac' = [dac EXCEPT !.full = dac.full - 1]
              \/ /\ dac.pb = "playing" /\ dac.full = 0
                 /\ dac' = [dac EXCEPT !.pb = "idle", !.under = TRUE, !.dry = TRUE, !.bad = FALSE]
<1>1. dac \in Dacs /\ dac.full \in 0..Capacity /\ Capacity \in Nat
  BY EtherDreamAssumption DEF Typed, Dacs
<1>2. \/ dac' = dac
      \/ /\ dac.pb = "playing" /\ dac.full > 0
         /\ dac' = [dac EXCEPT !.full = dac.full - 1]
      \/ /\ dac.pb = "playing" /\ dac.full = 0
         /\ dac' = [dac EXCEPT !.pb = "idle", !.under = TRUE, !.dry = TRUE, !.bad = FALSE]
  BY <1>1 DEF Tick
<1>3. dac.full > 0 => dac.full - 1 \in 0..Capacity
  BY <1>1
<1>4. 0 \in 0..Capacity /\ "ready" \in LightEngine
  BY <1>1 DEF LightEngine
<1>5. dac' \in Dacs
  BY <1>1, <1>2, <1>3, <1>4, DacStates, Zenon
<1>6. SameView /\ drv'.blank = drv.blank
  <2>1. drv.known.full \in 0..Capacity /\ drv.played \in 0..Capacity /\ drv \in Drivers
    BY DriverFields DEF Typed, Statuses
  <2>2. \/ drv' = drv
        \/ drv.played < drv.known.full /\ drv' = [drv EXCEPT !.played = drv.played + 1]
    BY DEF Tick
  <2>3. drv.played < drv.known.full => drv.played + 1 \in 0..Capacity
    BY <1>1, <2>1
  <2>4. ASSUME NEW p \in 0..Capacity, drv' = [drv EXCEPT !.played = p]
        PROVE  SameView /\ drv'.blank = drv.blank
    BY <2>1, <2>4 DEF SameView, Drivers
  <2> QED
    BY <2>1, <2>2, <2>3, <2>4 DEF SameView
<1> QED
  BY <1>2, <1>5, <1>6

\* A command is served and answered.
LEMMA Serves ==
    ASSUME Typed, DacServes
    PROVE  /\ inbox # <<>> /\ Head(inbox) \in Commands
           /\ link # "open" /\ inbox' = Tail(inbox)
           /\ UNCHANGED <<pc, cmd, drv, link, faults>>
           /\ dac' \in Dacs
           /\ \E a : /\ Serve(dac, Head(inbox)) = <<dac', a>>
                     /\ Served(dac, Head(inbox), dac', a)
                     /\ LET m == [reply |-> a, op |-> Head(inbox).op, status |-> StatusOf(dac')]
                        IN  /\ m \in Replies /\ Answers(m) = Head(inbox).op
                            /\ wire' = IF link = "down" THEN <<>> ELSE Append(wire, m)
<1> DEFINE c == Head(inbox)
           r == Serve(dac, c)
           a == r[2]
           m == [reply |-> a, op |-> c.op, status |-> StatusOf(dac')]
<1>1. inbox # <<>> /\ c \in Commands
  BY TailFacts DEF Typed, DacServes
<1>2. dac' = r[1] /\ r = <<r[1], r[2]>> /\ Served(dac, c, dac', a)
  BY <1>1, ServeCases DEF Typed, DacServes
<1>3. /\ dac' \in Dacs /\ a \in {"a", "I", "F", "!", "text"}
      /\ a = "text" <=> c.op = "v"
  BY <1>1, <1>2, ServedType DEF Typed
<1>4. StatusOf(dac') \in Statuses
  BY <1>3 DEF StatusOf, Statuses, Dacs
<1>5. m \in Replies
  <2>1. c.op \in Opcodes
    BY <1>1 DEF Commands
  <2> HIDE DEF r, c
  <2> QED
    BY <1>3, <1>4, <2>1 DEF Replies
<1>6. Answers(m) = c.op
  <2> HIDE DEF r, c
  <2> QED
    BY <1>3 DEF Answers
<1>7. wire' = IF link = "down" THEN <<>> ELSE Append(wire, m)
  BY <1>2 DEF DacServes
<1>8. link # "open" /\ inbox' = Tail(inbox) /\ UNCHANGED <<pc, cmd, drv, link, faults>>
  BY DEF DacServes
<1> QED
  BY <1>1, <1>2, <1>3, <1>5, <1>6, <1>7, <1>8, Zenon

\* The DAC is upset, gets ready again, or loses its stream to a new connection.
LEMMA DacAlone ==
    ASSUME Typed, DacUpset \/ WarmedUp \/ Connect
    PROVE  /\ dac' \in Dacs
           /\ \/ dac' = dac
              \/ dac.pb # "idle" /\ dac' = [dac EXCEPT !.bad = TRUE]
              \/ dac.le = "warmup" /\ dac' = [dac EXCEPT !.le = "ready"]
              \/ dac' = [dac EXCEPT !.pb = "idle", !.full = 0]
              \/ \E le \in LightEngine :
                   dac' = [dac EXCEPT !.le = le, !.pb = "idle", !.full = 0, !.bad = FALSE,
                                      !.dry = FALSE]
<1>1. 0 \in 0..Capacity /\ "ready" \in LightEngine
  BY EtherDreamAssumption DEF LightEngine
<1>2. \/ dac' = dac
      \/ dac.pb # "idle" /\ dac' = [dac EXCEPT !.bad = TRUE]
      \/ dac.le = "warmup" /\ dac' = [dac EXCEPT !.le = "ready"]
      \/ dac' = [dac EXCEPT !.pb = "idle", !.full = 0]
      \/ \E le \in LightEngine :
           dac' = [dac EXCEPT !.le = le, !.pb = "idle", !.full = 0, !.bad = FALSE,
                              !.dry = FALSE]
  BY DEF DacUpset, WarmedUp, Connect, LightEngine
<1>3. dac \in Dacs
  BY DEF Typed
<1>4. ASSUME NEW le \in LightEngine,
             dac' = [dac EXCEPT !.le = le, !.pb = "idle", !.full = 0, !.bad = FALSE, !.dry = FALSE]
      PROVE  dac' \in Dacs
  BY <1>1, <1>3, <1>4, DacStates, Zenon
<1>5. /\ [dac EXCEPT !.bad = TRUE] \in Dacs
      /\ [dac EXCEPT !.le = "ready"] \in Dacs
      /\ [dac EXCEPT !.pb = "idle", !.full = 0] \in Dacs
  BY <1>1, <1>3, DacStates
<1> QED
  BY <1>2, <1>3, <1>4, <1>5

\* The DAC's greeting is an ACK of a ping with its present status.
LEMMA Greets ==
    ASSUME Typed, DacGreets
    PROVE  \E m \in Replies :
             /\ wire' = Append(wire, m) /\ m.op = "?" /\ m.reply = "a"
             /\ m.status = StatusOf(dac) /\ Answers(m) = "?"
<1> DEFINE m == [reply |-> "a", op |-> "?", status |-> StatusOf(dac)]
<1>1. StatusOf(dac) \in Statuses
  BY DEF Typed, StatusOf, Statuses, Dacs
<1>2. m \in Replies /\ Answers(m) = "?"
  BY <1>1 DEF Replies, Opcodes, Answers
<1> QED
  BY <1>2 DEF DacGreets

\* The firmware string, or 32 other bytes, is read.
LEMMA FirmwareIsRead ==
    ASSUME Typed, FirmwareRead
    PROVE  /\ wire # <<>>
           /\ drv' \in Drivers /\ drv'.blank
           /\ drv'.known = drv.known /\ drv'.action = drv.action /\ drv'.active = drv.active
           /\ \/ wire' = Tail(wire)
              \/ /\ Len(wire) > 1
                 /\ \E m \in Replies :
                      /\ wire' = <<m>> \o Tail(Tail(wire))
                      /\ m.status = wire[2].status /\ Answers(m) = "v"
<1>1. /\ drv' \in Drivers /\ drv'.blank
      /\ drv'.known = drv.known /\ drv'.action = drv.action /\ drv'.active = drv.active
  BY DEF FirmwareRead, Typed, Drivers
<1>2. CASE wire # <<>> /\ wire' = Tail(wire)
  BY <1>1, <1>2
<1>3. CASE /\ Len(wire) > 1
           /\ wire' = <<[wire[2] EXCEPT !.reply = "junk"]>> \o Tail(Tail(wire))
  <2> DEFINE m == [wire[2] EXCEPT !.reply = "junk"]
  <2>1. wire[2] \in Replies /\ wire # <<>>
    BY <1>3, EmptyFacts, ElementOfSeq, LenProperties DEF Typed
  <2>2. m \in Replies /\ m.status = wire[2].status /\ Answers(m) = "v"
    BY <2>1 DEF Replies, Answers
  <2> QED
    BY <1>1, <1>3, <2>1, <2>2
<1> QED
  BY <1>2, <1>3 DEF FirmwareRead

\* What the junk of a half read string leaves on the wire.
LEMMA JunkFacts ==
    ASSUME NEW S, NEW s \in Seq(S), Len(s) > 1, NEW m \in S
    PROVE  LET t == <<m>> \o Tail(Tail(s))
           IN  /\ t \in Seq(S) /\ Len(t) = Len(s) - 1 /\ t[1] = m
               /\ \A i \in 2..Len(t) : t[i] = s[i + 1]
<1> DEFINE u == Tail(Tail(s))
           t == <<m>> \o u
<1>1. s # <<>> /\ Len(s) \in Nat
  BY EmptyFacts
<1>2. Tail(s) \in Seq(S) /\ Len(Tail(s)) = Len(s) - 1 /\ \A i \in 1..Len(Tail(s)) : Tail(s)[i] = s[i + 1]
  BY <1>1, TailFacts
<1>3. Tail(s) # <<>>
  <2>1. Len(Tail(s)) # 0
    BY <1>1, <1>2
  <2> QED
    BY <1>2, <2>1, EmptyFacts
<1>4. u \in Seq(S) /\ Len(u) = Len(s) - 2 /\ \A i \in 1..Len(u) : u[i] = Tail(s)[i + 1]
  BY <1>1, <1>2, <1>3, TailFacts
<1>5. <<m>> \in Seq(S) /\ Len(<<m>>) = 1 /\ <<m>>[1] = m
  OBVIOUS
<1> HIDE DEF u
<1>6. /\ t \in Seq(S) /\ Len(t) = 1 + Len(u)
      /\ \A i \in 1 .. 1 + Len(u) : t[i] = IF i <= 1 THEN <<m>>[i] ELSE u[i - 1]
  BY <1>4, <1>5, ConcatProperties
<1> HIDE DEF t
<1>7. \A i \in 2..Len(t) : t[i] = s[i + 1]
  <2> SUFFICES ASSUME NEW i \in 2..Len(t) PROVE t[i] = s[i + 1]
    OBVIOUS
  <2>1. t[i] = u[i - 1] /\ i - 1 \in 1..Len(u)
    BY <1>1, <1>4, <1>6
  <2>2. u[i - 1] = Tail(s)[i] /\ i \in 1..Len(Tail(s))
    BY <1>1, <1>2, <1>4, <2>1
  <2> QED
    BY <1>2, <2>1, <2>2
<1>8. Len(t) = Len(s) - 1 /\ t[1] = m
  BY <1>1, <1>4, <1>5, <1>6
<1> QED
  BY <1>6, <1>7, <1>8 DEF t, u

\* The loop is left: a DAC that is not idle is told to stop first.
LEMMA Leaves ==
    ASSUME Typed, LeaveLoop
    PROVE  /\ pc = "loop" /\ UNCHANGED <<dac, faults>>
           /\ \/ /\ drv.active /\ drv.known.le = "ready" /\ drv.known.pb # "idle"
                 /\ Sent(Bare("s"), "close") /\ Bare("s").op = "s"
                 /\ UNCHANGED <<drv, link, wire>>
              \/ /\ ~(drv.active /\ drv.known.le = "ready" /\ drv.known.pb # "idle")
                 /\ pc' = "connect" /\ drv' \in Drivers /\ ~drv'.active
                 /\ drv'.known = drv.known /\ drv'.action = drv.action
                 /\ link' = "down" /\ wire' = <<>> /\ UNCHANGED <<inbox, cmd>>
<1>1. Bare("s") \in Commands /\ Bare("s").op = "s"
  BY BareCommand DEF Opcodes
<1> DEFINE e == [drv EXCEPT !.active = FALSE]
<1>2. e \in Drivers /\ ~e.active /\ e.known = drv.known /\ e.action = drv.action
  BY DEF Typed, Drivers
<1> HIDE DEF e
<1>3. CASE drv.active /\ drv.known.le = "ready" /\ drv.known.pb # "idle"
  BY <1>1, <1>3 DEF LeaveLoop, Send, Sent
<1>4. CASE ~(drv.active /\ drv.known.le = "ready" /\ drv.known.pb # "idle")
  BY <1>2, <1>4 DEF LeaveLoop, Hangup, e
<1> QED
  BY <1>3, <1>4

-----------------------------------------------------------------------------
(* Types are kept.                                                          *)

Queues == inbox \in Seq(Commands) /\ wire \in Seq(Replies)
Worn == /\ pc \in {"connect", "greet", "probe", "loop", "await", "done"}
        /\ cmd \in [op: Opcodes, rate: Rates, for: {"handshake", "loop", "close"}]
        /\ drv \in Drivers
        /\ link \in {"down", "open", "greeted"}
        /\ dac \in Dacs
Counted == /\ running \in BOOLEAN /\ rate \in Rates /\ latency \in Latencies
           /\ firmware \in {"none", "dac", "garbage"} /\ probeOff \in BOOLEAN
           /\ faults \in 0..MaxFaults /\ changes \in 0..MaxChanges

\* The three parts of the type invariant.
LEMMA TypedParts == Typed <=> Queues /\ Worn /\ Counted
BY DEF Typed, Queues, Worn, Counted

\* The counters stay within their bounds.
LEMMA CountedKept ==
    ASSUME Typed, [Next]_vars
    PROVE  Counted'
<1>1. Counted /\ MaxFaults \in Nat /\ MaxChanges \in Nat
  BY TypedParts, EtherDreamAssumption
<1>2. faults' \in {faults, faults + 1} /\ (faults' # faults => faults < MaxFaults)
  BY DEF Next, vars, Worker, Failure, Connect, Return, Greeted, GreetingCancelled, FirmwareRead,
     SendAction, SyncPointRate, PollStatus, SendPoints, LeaveLoop, ReceiveAck, ReceiveNak,
     ReceiveMismatch, ConnectFails, GreetingTimeout, FirmwareTimeout, ResponseTimeout,
     DacGreets, DacServes, Tick, DacUpset, WarmedUp, StopThread, SetPointRate, SetTargetLatency
<1>3. \/ UNCHANGED app
      \/ running' = FALSE /\ UNCHANGED <<rate, latency, changes>>
      \/ /\ changes < MaxChanges /\ changes' = changes + 1 /\ running' = running
         /\ rate' \in Rates /\ latency' \in Latencies
  BY <1>1 DEF Next, vars, app, Worker, Failure, Connect, Return, Greeted, GreetingCancelled,
     FirmwareRead, SendAction, SyncPointRate, PollStatus, SendPoints, LeaveLoop, ReceiveAck,
     ReceiveNak, ReceiveMismatch, ConnectFails, GreetingTimeout, FirmwareTimeout, ResponseTimeout,
     DacGreets, DacServes, Tick, DacUpset, WarmedUp, StopThread, SetPointRate, SetTargetLatency,
     Counted
<1>4. \/ UNCHANGED probe
      \/ firmware' \in {"dac", "garbage"} /\ probeOff' = probeOff
      \/ firmware' = firmware /\ probeOff' = TRUE
  BY DEF Next, vars, probe, Worker, Failure, Connect, Return, Greeted, GreetingCancelled,
     FirmwareRead, SendAction, SyncPointRate, PollStatus, SendPoints, LeaveLoop, ReceiveAck,
     ReceiveNak, ReceiveMismatch, ConnectFails, GreetingTimeout, FirmwareTimeout, ResponseTimeout,
     DacGreets, DacServes, Tick, DacUpset, WarmedUp, StopThread, SetPointRate, SetTargetLatency
<1>5. faults' \in 0..MaxFaults
  BY <1>1, <1>2 DEF Counted
<1>6. rate' \in Rates /\ latency' \in Latencies /\ changes' \in 0..MaxChanges
  BY <1>1, <1>3 DEF Counted, app
<1>7. running' \in BOOLEAN
  BY <1>1, <1>3, Zenon DEF Counted, app
<1>8. firmware' \in {"none", "dac", "garbage"}
  BY <1>1, <1>4 DEF Counted, probe
<1>9. probeOff' \in BOOLEAN
  BY <1>1, <1>4, Zenon DEF Counted, probe
<1> QED
  BY <1>5, <1>6, <1>7, <1>8, <1>9 DEF Counted

\* Sending a command appends it to what the DAC has still to read.
LEMMA SentCommand ==
    ASSUME Typed, NEW c, NEW f \in {"handshake", "loop", "close"}, Sent(c, f)
    PROVE  /\ cmd' \in [op: Opcodes, rate: Rates, for: {"handshake", "loop", "close"}]
           /\ cmd'.op = c.op /\ cmd'.for = f
           /\ inbox' \in Seq(Commands) /\ inbox' # <<>> /\ Len(inbox') = Len(inbox) + 1
           /\ \A i \in 1..Len(inbox) : inbox'[i] = inbox[i]
           /\ inbox'[Len(inbox) + 1] = c /\ Len(inbox) \in Nat
<1>1. c \in Commands /\ inbox' = Append(inbox, c) /\ rate \in Rates /\ inbox \in Seq(Commands)
  BY DEF Sent, Typed
<1>2. c.op \in Opcodes /\ cmd' = [op |-> c.op, rate |-> rate, for |-> f]
  BY <1>1 DEF Sent, Commands
<1> QED
  BY <1>1, <1>2, AppendFacts

\* The greeting is given up for a ping.
LEMMA GreetingPings ==
    ASSUME Typed, GreetingTimeout
    PROVE  Sent(Bare("?"), "handshake") /\ Bare("?").op = "?"
BY BareCommand DEF GreetingTimeout, Send, Sent, Opcodes

\* The protocol state and the DAC keep their types.
LEMMA WornKept ==
    ASSUME Typed, [Next]_vars
    PROVE  Worn'
<1>a. Worn
  BY TypedParts
<1>1. CASE Connect
  <2>1. drv' \in Drivers
    BY <1>1, <1>a, ResetDecides DEF Connect, Worn
  <2> QED
    BY <1>1, <1>a, <2>1, DacAlone DEF Connect, Worn
<1>2. CASE Greeted
  BY <1>2, <1>a, GreetedEnters DEF Greeted, Entered, Worn
<1>3. CASE GreetingCancelled
  <2>1. drv' \in Drivers
    BY <1>3, <1>a, FailureDecides DEF GreetingCancelled, Worn
  <2> QED
    BY <1>3, <1>a, <2>1 DEF GreetingCancelled, Hangup, Worn
<1>4. CASE FirmwareRead \/ FirmwareTimeout
  <2>1. drv' = [drv EXCEPT !.blank = TRUE] /\ pc' = "loop" /\ UNCHANGED <<cmd, link, dac>>
    BY <1>4 DEF FirmwareRead, FirmwareTimeout
  <2>2. drv' \in Drivers
    BY <1>a, <2>1 DEF Worn, Drivers
  <2> QED
    BY <1>a, <2>1, <2>2 DEF Worn
<1>5. CASE SendAction \/ PollStatus \/ SendPoints
  <2>1. PICK c : Sent(c, "loop")
    BY <1>5, LoopSends
  <2>2. drv' \in Drivers /\ UNCHANGED <<link, dac>>
    BY <1>5, LoopSends DEF SameView
  <2> QED
    BY <1>a, <2>1, <2>2, SentCommand DEF Worn, Sent
<1>6. CASE SyncPointRate
  <2>1. drv' \in Drivers
    BY <1>6, <1>a DEF SyncPointRate, Worn, Drivers, Actions
  <2> QED
    BY <1>6, <1>a, <2>1 DEF SyncPointRate, Worn
<1>7. CASE LeaveLoop
  <2>1. CASE Sent(Bare("s"), "close") /\ UNCHANGED <<drv, link, dac>>
    BY <1>a, <2>1, SentCommand DEF Worn, Sent
  <2>2. CASE pc' = "connect" /\ drv' \in Drivers /\ link' = "down" /\ UNCHANGED <<cmd, dac>>
    BY <1>a, <2>2 DEF Worn
  <2> QED
    BY <1>7, <2>1, <2>2, Leaves
<1>8. CASE ReceiveAck \/ ReceiveNak \/ ReceiveMismatch \/ ResponseTimeout
  <2>1. UNCHANGED <<cmd, dac>>
    BY <1>8 DEF ReceiveAck, ReceiveNak, ReceiveMismatch, ResponseTimeout
  <2>2. LetGo \/ Entered \/ Continued
    BY <1>8, AnswerTaken, FailureLetsGo
  <2> QED
    BY <1>a, <2>1, <2>2 DEF Worn, LetGo, Entered, Continued
<1>9. CASE GreetingTimeout
  <2>1. UNCHANGED <<drv, link, dac>>
    BY <1>9 DEF GreetingTimeout
  <2> QED
    BY <1>9, <1>a, <2>1, GreetingPings, SentCommand DEF Worn, Sent
<1>10. CASE DacServes
  BY <1>10, <1>a, Serves DEF Worn
<1>11. CASE Tick
  BY <1>11, <1>a, Ticks DEF Tick, Worn, SameView
<1>12. CASE DacUpset \/ WarmedUp
  BY <1>12, <1>a, DacAlone DEF DacUpset, WarmedUp, Worn
<1>13. CASE Return \/ ConnectFails \/ DacGreets
  BY <1>13, <1>a DEF Return, ConnectFails, DacGreets, Worn
<1>14. CASE StopThread \/ SetPointRate \/ SetTargetLatency \/ UNCHANGED vars
  BY <1>14, <1>a DEF StopThread, SetPointRate, SetTargetLatency, vars, Worn
<1> QED
  BY <1>1, <1>2, <1>3, <1>4, <1>5, <1>6, <1>7, <1>8, <1>9, <1>10, <1>11, <1>12, <1>13, <1>14
     DEF Next, Worker, Failure

\* The two directions of the connection keep their types.
LEMMA QueuesKept ==
    ASSUME Typed, [Next]_vars
    PROVE  Queues'
<1>a. Queues /\ <<>> \in Seq(Commands) /\ <<>> \in Seq(Replies)
  BY TypedParts, EmptySeq
<1>b. wire # <<>> => Tail(wire) \in Seq(Replies)
  BY <1>a, TailFacts DEF Queues
<1>1. CASE Connect
  BY <1>1, <1>a DEF Connect, Queues
<1>2. CASE Greeted \/ ReceiveAck \/ ReceiveNak
  <2>1. wire # <<>>
    BY <1>2 DEF Greeted, ReceiveAck, ReceiveNak
  <2>2. LetGo \/ Entered \/ Continued
    BY <1>2, AnswerTaken, GreetedEnters
  <2>3. wire' \in Seq(Replies)
    BY <1>a, <1>b, <2>1, <2>2 DEF LetGo, Entered, Continued
  <2>4. inbox' \in {inbox, Append(inbox, Bare("v"))}
    BY <2>2 DEF LetGo, Entered, Continued
  <2>5. Bare("v") \in Commands
    BY BareCommand DEF Opcodes
  <2>6. inbox' \in Seq(Commands)
    BY <1>a, <2>4, <2>5, AppendFacts DEF Queues
  <2> QED
    BY <2>3, <2>6 DEF Queues
<1>3. CASE ReceiveMismatch \/ ResponseTimeout
  BY <1>3, <1>a, FailureLetsGo DEF LetGo, Queues
<1>4. CASE FirmwareRead
  <2>1. inbox' = inbox
    BY <1>4 DEF FirmwareRead
  <2>2. wire' \in Seq(Replies)
    BY <1>4, <1>a, <1>b, FirmwareIsRead, JunkFacts DEF Queues
  <2> QED
    BY <1>a, <2>1, <2>2 DEF Queues
<1>5. CASE SendAction \/ PollStatus \/ SendPoints
  <2>1. PICK c : Sent(c, "loop")
    BY <1>5, LoopSends
  <2>2. wire' = wire
    BY <1>5, LoopSends
  <2> QED
    BY <1>a, <2>1, <2>2, SentCommand DEF Queues
<1>6. CASE LeaveLoop
  BY <1>6, <1>a, Leaves, SentCommand DEF Queues
<1>7. CASE GreetingTimeout
  <2>1. wire' = wire
    BY <1>7 DEF GreetingTimeout
  <2> QED
    BY <1>7, <1>a, <2>1, GreetingPings, SentCommand DEF Queues
<1>8. CASE DacGreets
  <2>1. PICK m \in Replies : wire' = Append(wire, m)
    BY <1>8, Greets
  <2>2. inbox' = inbox
    BY <1>8 DEF DacGreets
  <2> QED
    BY <1>a, <2>1, <2>2, AppendFacts DEF Queues
<1>9. CASE DacServes
  <2>1. PICK m \in Replies : wire' = IF link = "down" THEN <<>> ELSE Append(wire, m)
    BY <1>9, Serves
  <2>2. inbox # <<>> /\ inbox' = Tail(inbox)
    BY <1>9 DEF DacServes
  <2>3. inbox' \in Seq(Commands)
    BY <1>a, <2>2, TailFacts DEF Queues
  <2>4. wire' \in Seq(Replies)
    BY <1>a, <2>1, AppendFacts DEF Queues
  <2> QED
    BY <2>3, <2>4 DEF Queues
<1>10. CASE \/ GreetingCancelled \/ FirmwareTimeout \/ SyncPointRate \/ Return \/ ConnectFails
            \/ Tick \/ DacUpset \/ WarmedUp
  BY <1>10, <1>a DEF GreetingCancelled, Hangup, FirmwareTimeout, SyncPointRate, Return,
     ConnectFails, Tick, DacUpset, WarmedUp, Queues
<1>11. CASE StopThread \/ SetPointRate \/ SetTargetLatency \/ UNCHANGED vars
  BY <1>11, <1>a DEF StopThread, SetPointRate, SetTargetLatency, vars, Queues
<1> QED
  BY <1>1, <1>2, <1>3, <1>4, <1>5, <1>6, <1>7, <1>8, <1>9, <1>10, <1>11
     DEF Next, Worker, Failure

\* Every step keeps the type invariant.
LEMMA TypedKept ==
    ASSUME Typed, [Next]_vars
    PROVE  Typed'
<1>1. Queues' /\ Worn' /\ Counted'
  BY QueuesKept, WornKept, CountedKept
<1> QED
  BY <1>1 DEF Typed, Queues, Worn, Counted

-----------------------------------------------------------------------------
(* The other parts are kept, one after the other.                           *)

\* Every step keeps the place in the worker and the connection in agreement.
LEMMA LinkedKept ==
    ASSUME Typed, Linked, [Next]_vars
    PROVE  Linked'
<1>1. CASE Connect
  <2>1. drv' = ResetProtocolState(drv) /\ pc' = "greet" /\ link' = "open"
    BY <1>1 DEF Connect
  <2>2. drv'.active
    BY <2>1, ResetDecides DEF Typed
  <2> QED
    BY <2>1, <2>2 DEF Linked
<1>2. CASE Greeted \/ ReceiveAck \/ ReceiveNak
  <2>1. LetGo \/ Entered \/ Continued
    BY <1>2, AnswerTaken, GreetedEnters
  <2>2. pc \in {"greet", "await"} /\ drv.active /\ link # "down"
    BY <1>2 DEF Linked, Greeted, ReceiveAck, ReceiveNak
  <2> QED
    BY <2>1, <2>2 DEF Linked, LetGo, Entered, Continued
<1>3. CASE ReceiveMismatch \/ ResponseTimeout
  BY <1>3, FailureLetsGo DEF LetGo, Linked
<1>4. CASE GreetingCancelled
  <2>1. ~drv'.active
    BY <1>4, FailureDecides DEF GreetingCancelled, Typed
  <2> QED
    BY <1>4, <2>1 DEF GreetingCancelled, Hangup, Linked
<1>5. CASE FirmwareRead \/ FirmwareTimeout
  <2>1. /\ drv' = [drv EXCEPT !.blank = TRUE] /\ pc = "probe" /\ pc' = "loop"
        /\ link' = link
    BY <1>5 DEF FirmwareRead, FirmwareTimeout
  <2>2. drv'.active = drv.active
    BY <2>1 DEF Typed, Drivers
  <2> QED
    BY <2>1, <2>2 DEF Linked
<1>6. CASE SendAction \/ PollStatus \/ SendPoints
  <2>1. InLoop /\ SameView /\ link' = link /\ wire' = wire /\ pc' = "await"
    BY <1>6, LoopSends DEF Sent
  <2> QED
    BY <2>1 DEF Linked, InLoop, SameView
<1>7. CASE SyncPointRate
  <2>1. drv'.active = drv.active /\ UNCHANGED <<pc, link, wire>>
    BY <1>7 DEF SyncPointRate, Typed, Drivers
  <2> QED
    BY <2>1 DEF Linked
<1>8. CASE LeaveLoop
  BY <1>8, Leaves DEF Linked, Sent
<1>9. CASE GreetingTimeout
  BY <1>9 DEF GreetingTimeout, Send, Linked
<1>10. CASE DacGreets
  BY <1>10 DEF DacGreets, Linked
<1>11. CASE DacServes
  BY <1>11 DEF DacServes, Linked
<1>12. CASE Tick
  <2>1. drv'.active = drv.active /\ UNCHANGED <<pc, link, wire>>
    BY <1>12, Ticks DEF Tick, SameView
  <2> QED
    BY <2>1 DEF Linked
<1>13. CASE \/ Return \/ ConnectFails \/ DacUpset \/ WarmedUp
            \/ StopThread \/ SetPointRate \/ SetTargetLatency \/ UNCHANGED vars
  BY <1>13 DEF Return, ConnectFails, DacUpset, WarmedUp, StopThread, SetPointRate,
     SetTargetLatency, vars, Linked
<1> QED
  BY <1>1, <1>2, <1>3, <1>4, <1>5, <1>6, <1>7, <1>8, <1>9, <1>10, <1>11, <1>12, <1>13
     DEF Next, Worker, Failure

\* A prepare follows an idle status, and an idle status stays the last one seen
\* until its answer.
LEMMA PreparesKept ==
    ASSUME Typed, Linked, Prepares, [Next]_vars
    PROVE  Prepares'
<1>1. CASE Connect
  <2>1. drv' = ResetProtocolState(drv) /\ pc' = "greet"
    BY <1>1 DEF Connect
  <2>2. drv'.known.pb = "idle"
    BY <2>1, ResetDecides DEF Typed, NoStatus
  <2> QED
    BY <2>1, <2>2 DEF Prepares
<1>2. CASE Greeted \/ ReceiveAck \/ ReceiveNak
  <2>1. LetGo \/ Entered \/ Continued
    BY <1>2, AnswerTaken, GreetedEnters
  <2>2. Learnt /\ cmd' = cmd
    BY <1>2, AnswerTaken, GreetedEnters DEF Greeted, ReceiveAck, ReceiveNak
  <2>3. pc' # "await"
    BY <2>1 DEF LetGo, Entered, Continued
  <2> QED
    BY <2>2, <2>3 DEF Learnt, Prepares
<1>3. CASE ReceiveMismatch \/ ResponseTimeout
  BY <1>3, FailureLetsGo DEF LetGo, Prepares
<1>4. CASE GreetingCancelled
  <2>1. drv'.known = drv.known /\ drv'.action = drv.action
    BY <1>4, FailureDecides DEF GreetingCancelled, Typed
  <2> QED
    BY <1>4, <2>1 DEF GreetingCancelled, Prepares
<1>5. CASE FirmwareRead \/ FirmwareTimeout
  <2>1. drv' = [drv EXCEPT !.blank = TRUE] /\ pc' = "loop"
    BY <1>5 DEF FirmwareRead, FirmwareTimeout
  <2>2. drv'.known = drv.known /\ drv'.action = drv.action
    BY <2>1 DEF Typed, Drivers
  <2> QED
    BY <2>1, <2>2 DEF Prepares
<1>6. CASE SendAction \/ PollStatus \/ SendPoints
  <2>1. PICK c : Sent(c, "loop") /\ (c.op = "p" => drv.action = "prepare")
    BY <1>6, LoopSends
  <2>2. SameView /\ cmd'.op = c.op
    BY <1>6, <2>1, LoopSends, SentCommand
  <2> QED
    BY <2>1, <2>2 DEF Prepares, SameView
<1>7. CASE SyncPointRate
  <2>1. drv'.action = "stop" /\ drv'.known = drv.known /\ UNCHANGED <<pc, cmd>>
    BY <1>7 DEF SyncPointRate, Typed, Drivers
  <2> QED
    BY <2>1 DEF Prepares
<1>8. CASE LeaveLoop
  <2>1. drv'.known = drv.known /\ drv'.action = drv.action
    BY <1>8, Leaves
  <2>2. pc' = "await" => cmd'.op = "s"
    BY <1>8, Leaves, SentCommand
  <2> QED
    BY <2>1, <2>2 DEF Prepares
<1>9. CASE GreetingTimeout
  <2>1. cmd'.op = "?" /\ drv' = drv
    BY <1>9, GreetingPings, SentCommand DEF GreetingTimeout
  <2> QED
    BY <2>1 DEF Prepares
<1>10. CASE Tick
  <2>1. SameView /\ UNCHANGED <<pc, cmd>>
    BY <1>10, Ticks DEF Tick
  <2> QED
    BY <2>1 DEF Prepares, SameView
<1>11. CASE \/ Return \/ ConnectFails \/ DacGreets \/ DacServes \/ DacUpset \/ WarmedUp
            \/ StopThread \/ SetPointRate \/ SetTargetLatency \/ UNCHANGED vars
  BY <1>11 DEF Return, ConnectFails, DacGreets, DacServes, DacUpset, WarmedUp, StopThread,
     SetPointRate, SetTargetLatency, vars, Prepares
<1> QED
  BY <1>1, <1>2, <1>3, <1>4, <1>5, <1>6, <1>7, <1>8, <1>9, <1>10, <1>11
     DEF Next, Worker, Failure

\* A command in flight that is itself a ping leaves nothing but stale answers.
LEMMA PingInFlight ==
    ASSUME Typed, InOrder, pc = "await", cmd.op \in Stale
    PROVE  InboxStale /\ WireStale
<1>1. Len(inbox) \in Nat /\ Len(wire) \in Nat
  BY EmptyFacts DEF Typed
<1>2. CASE inbox # <<>>
  BY <1>1, <1>2 DEF InOrder, InboxStale
<1>3. CASE inbox = <<>>
  <2>1. InboxStale
    BY <1>3 DEF InboxStale
  <2>2. WireStale
    BY <1>1, <1>3 DEF InOrder, WireStale
  <2> QED
    BY <2>1, <2>2
<1> QED
  BY <1>2, <1>3

\* Any other command is answered only when nothing else is in the stream.
LEMMA CommandInFlight ==
    ASSUME Typed, InOrder, pc = "await", wire # <<>>, Matches(Head(wire)), cmd.op \notin Stale
    PROVE  inbox = <<>> /\ Len(wire) = 1 /\ Tail(wire) = <<>> /\ Head(wire) = wire[1]
<1>1. Len(wire) \in Nat \ {0} /\ Head(wire) = wire[1] /\ Tail(wire) \in Seq(Replies)
      /\ Len(Tail(wire)) = Len(wire) - 1
  BY TailFacts DEF Typed
<1>2. Answers(wire[1]) = cmd.op
  BY <1>1 DEF Matches, Answers
<1>3. ~WireStale
  BY <1>1, <1>2 DEF WireStale
<1>4. inbox = <<>>
  BY <1>3 DEF InOrder
<1>5. Len(wire) = 1
  BY <1>1, <1>2 DEF InOrder
<1>6. Tail(wire) = <<>>
  <2>1. Len(Tail(wire)) = 0
    BY <1>1, <1>5
  <2> QED
    BY <1>1, <2>1, EmptyFacts
<1> QED
  BY <1>1, <1>4, <1>5, <1>6

\* Reading takes a stale answer from stale ones.
LEMMA StaleTail ==
    ASSUME Typed, WireStale, wire # <<>>, wire' = Tail(wire)
    PROVE  WireStale'
<1>1. /\ Len(wire) \in Nat \ {0} /\ Len(wire') = Len(wire) - 1
      /\ \A i \in 1..Len(wire') : wire'[i] = wire[i + 1]
  BY TailFacts DEF Typed
<1> QED
  BY <1>1 DEF WireStale

\* Every step keeps the answers in the order of the commands.
LEMMA InOrderKept ==
    ASSUME Typed, Linked, InOrder, [Next]_vars
    PROVE  InOrder'
<1>a. Len(inbox) \in Nat /\ Len(wire) \in Nat /\ Len(<<>>) = 0
  BY EmptyFacts DEF Typed
<1>b. ASSUME link' = "down", wire' = <<>>, inbox' = inbox, pc' # "await"
      PROVE  InOrder'
  BY <1>a, <1>b DEF InOrder
<1>c. ASSUME Entered, wire # <<>>, InboxStale, WireStale
      PROVE  InOrder'
  <2>1. WireStale'
    BY <1>c, StaleTail DEF Entered
  <2>2. Bare("v") \in Commands /\ Bare("v").op = "v"
    BY BareCommand DEF Opcodes
  <2>3. inbox' = Append(inbox, Bare("v")) =>
          /\ Len(inbox') = Len(inbox) + 1 /\ inbox'[Len(inbox) + 1] = Bare("v")
          /\ \A i \in 1..Len(inbox) : inbox'[i] = inbox[i]
    BY <2>2, AppendFacts DEF Typed
  <2>4. InboxStale'
    BY <1>a, <1>c, <2>2, <2>3 DEF Entered, InboxStale, Stale
  <2>5. pc' \in {"probe", "loop"}
    BY <1>c DEF Entered
  <2> QED
    BY <2>1, <2>4, <2>5 DEF InOrder, InboxStale, WireStale
<1>d. ASSUME InboxStale, WireStale, NEW c, NEW f \in {"handshake", "loop", "close"}, Sent(c, f),
             f = "handshake" => c.op = "?", wire' = wire
      PROVE  InOrder'
  <2>1. /\ cmd'.op = c.op /\ cmd'.for = f
        /\ inbox' # <<>> /\ Len(inbox') = Len(inbox) + 1
        /\ \A i \in 1..Len(inbox) : inbox'[i] = inbox[i]
        /\ inbox'[Len(inbox) + 1] = c
    BY <1>d, SentCommand
  <2>2. c.op # "v" /\ pc' = "await"
    BY <1>d DEF Sent
  <2>3. \A i \in 1..Len(inbox') : i < Len(inbox') => inbox'[i].op \in Stale
    BY <1>a, <1>d, <2>1 DEF InboxStale
  <2>4. WireStale'
    BY <1>d DEF WireStale
  <2> QED
    BY <1>d, <2>1, <2>2, <2>3, <2>4 DEF InOrder, WireStale
<1>e. ASSUME inbox' = <<>>, wire' = <<>>, pc' # "await"
      PROVE  InOrder'
  <2>1. Len(inbox') = 0 /\ Len(wire') = 0
    BY <1>a, <1>e
  <2> QED
    BY <1>e, <2>1 DEF InOrder, InboxStale, WireStale
<1>1. CASE Connect
  BY <1>1, <1>e DEF Connect
<1>2. CASE Greeted
  <2>1. InboxStale /\ WireStale /\ wire # <<>>
    BY <1>2 DEF Greeted, InOrder, Linked
  <2> QED
    BY <1>2, <1>c, <2>1, GreetedEnters
<1>3. CASE ReceiveAck \/ ReceiveNak
  <2>1. pc = "await" /\ wire # <<>> /\ Matches(Head(wire))
    BY <1>3 DEF ReceiveAck, ReceiveNak
  <2>2. CASE LetGo
    BY <1>b, <2>2 DEF LetGo
  <2>3. CASE cmd.for = "handshake" /\ Entered
    <3>1. cmd.op \in Stale
      BY <2>1, <2>3 DEF InOrder, Stale
    <3> QED
      BY <1>c, <2>1, <2>3, <3>1, PingInFlight
  <2>4. CASE Continued
    <3>1. pc' = "loop" /\ wire' = Tail(wire) /\ inbox' = inbox
      BY <2>4 DEF Continued
    <3>2. CASE cmd.op \in Stale
      <4>1. InboxStale /\ WireStale
        BY <2>1, <3>2, PingInFlight
      <4>2. InboxStale' /\ WireStale'
        BY <2>1, <3>1, <4>1, StaleTail DEF InboxStale
      <4> QED
        BY <3>1, <4>2 DEF InOrder, InboxStale, WireStale
    <3>3. CASE cmd.op \notin Stale
      <4>1. inbox' = <<>> /\ wire' = <<>>
        BY <2>1, <3>1, <3>3, CommandInFlight
      <4> QED
        BY <1>e, <3>1, <4>1
    <3> QED
      BY <3>2, <3>3
  <2> QED
    BY <1>3, <2>2, <2>3, <2>4, AnswerTaken
<1>4. CASE ReceiveMismatch \/ ResponseTimeout
  BY <1>4, <1>b, FailureLetsGo DEF LetGo
<1>5. CASE GreetingCancelled
  BY <1>5, <1>b DEF GreetingCancelled, Hangup
<1>6. CASE FirmwareRead
  <2>1. InboxStale /\ WireStale /\ pc' = "loop" /\ inbox' = inbox
    BY <1>6 DEF FirmwareRead, InOrder, Linked
  <2>2. CASE wire # <<>> /\ wire' = Tail(wire)
    <3>1. WireStale' /\ InboxStale'
      BY <2>1, <2>2, StaleTail DEF InboxStale
    <3> QED
      BY <2>1, <3>1 DEF InOrder, InboxStale, WireStale
  <2>3. ASSUME NEW m \in Replies, Answers(m) = "v", wire' = <<m>> \o Tail(Tail(wire)), Len(wire) > 1
        PROVE  InOrder'
    <3>1. /\ Len(wire') = Len(wire) - 1 /\ wire'[1] = m
          /\ \A i \in 2..Len(wire') : wire'[i] = wire[i + 1]
      BY <2>3, JunkFacts DEF Typed
    <3>2. WireStale' /\ InboxStale'
      BY <1>a, <2>1, <2>3, <3>1 DEF WireStale, InboxStale, Stale
    <3> QED
      BY <2>1, <3>2 DEF InOrder, InboxStale, WireStale
  <2> QED
    BY <1>6, <2>2, <2>3, FirmwareIsRead
<1>7. CASE FirmwareTimeout
  <2>1. InboxStale /\ pc' = "loop" /\ inbox' = inbox /\ wire' = <<>>
    BY <1>7 DEF FirmwareTimeout, InOrder, Linked
  <2> QED
    BY <1>a, <2>1 DEF InOrder, InboxStale, WireStale
<1>8. CASE SendAction \/ PollStatus \/ SendPoints
  <2>1. PICK c : Sent(c, "loop")
    BY <1>8, LoopSends
  <2>2. InLoop /\ wire' = wire
    BY <1>8, LoopSends
  <2>3. InboxStale /\ WireStale
    BY <2>2 DEF InLoop, InOrder, Linked
  <2> QED
    BY <1>d, <2>1, <2>2, <2>3
<1>9. CASE LeaveLoop
  <2>1. CASE drv.active /\ Sent(Bare("s"), "close") /\ wire' = wire
    <3>1. InboxStale /\ WireStale
      BY <1>9, <2>1 DEF LeaveLoop, InOrder, Linked
    <3> QED
      BY <1>d, <2>1, <3>1
  <2>2. CASE pc' = "connect" /\ link' = "down" /\ wire' = <<>> /\ UNCHANGED <<inbox, cmd>>
    BY <1>b, <2>2
  <2> QED
    BY <1>9, <2>1, <2>2, Leaves
<1>10. CASE GreetingTimeout
  <2>1. InboxStale /\ WireStale /\ wire' = wire
    BY <1>10 DEF GreetingTimeout, InOrder, Linked
  <2> QED
    BY <1>10, <1>d, <2>1, GreetingPings
<1>11. CASE DacGreets
  <2>1. PICK m \in Replies : wire' = Append(wire, m) /\ Answers(m) = "?"
    BY <1>11, Greets
  <2>2. /\ Len(wire') = Len(wire) + 1 /\ wire'[Len(wire) + 1] = m
        /\ \A i \in 1..Len(wire) : wire'[i] = wire[i]
    BY <2>1, AppendFacts DEF Typed
  <2>3. link = "open" /\ link' = "greeted" /\ UNCHANGED <<pc, cmd, inbox>>
    BY <1>11 DEF DacGreets
  <2>4. pc \in {"greet", "probe", "loop", "await"}
    BY <2>3 DEF Linked, Typed
  <2>5. WireStale /\ (pc = "await" => inbox # <<>>)
    BY <2>3, <2>4 DEF InOrder
  <2>6. WireStale'
    BY <1>a, <2>1, <2>2, <2>5 DEF WireStale, Stale
  <2>7. InboxStale => InboxStale'
    BY <2>3 DEF InboxStale
  <2>8. \A i \in 1..Len(wire') : i < Len(wire') => Answers(wire'[i]) \in Stale
    BY <2>6 DEF WireStale
  <2> QED
    BY <2>3, <2>5, <2>6, <2>7, <2>8 DEF InOrder
<1>12. CASE DacServes
  <2>1. /\ inbox # <<>> /\ link # "open" /\ inbox' = Tail(inbox)
        /\ UNCHANGED <<pc, cmd, drv, link>>
    BY <1>12, Serves
  <2>2. PICK m \in Replies : /\ Answers(m) = Head(inbox).op
                             /\ wire' = IF link = "down" THEN <<>> ELSE Append(wire, m)
    BY <1>12, Serves
  <2>3. /\ Len(inbox) \in Nat \ {0} /\ Head(inbox) = inbox[1]
        /\ Len(inbox') = Len(inbox) - 1
        /\ \A i \in 1..Len(inbox') : inbox'[i] = inbox[i + 1]
        /\ inbox' \in Seq(Commands)
    BY <2>1, TailFacts DEF Typed
  <2>4. \A i \in 1..Len(inbox') : i < Len(inbox') => inbox'[i].op \in Stale
    BY <2>3 DEF InOrder
  <2>5. CASE link = "down"
    <3>1. pc' # "await" /\ wire' = <<>>
      BY <2>1, <2>2, <2>5 DEF Linked
    <3> QED
      BY <1>a, <2>1, <2>4, <2>5, <3>1 DEF InOrder
  <2>6. CASE link # "down"
    <3>1. /\ Len(wire') = Len(wire) + 1 /\ wire'[Len(wire) + 1] = m
          /\ \A i \in 1..Len(wire) : wire'[i] = wire[i] /\ wire' # <<>>
      BY <2>2, <2>6, AppendFacts DEF Typed
    <3>2. WireStale /\ pc \in {"greet", "probe", "loop", "await"}
      BY <2>1, <2>6 DEF Linked, Typed, InOrder
    <3>3. \A i \in 1..Len(wire') : i < Len(wire') => Answers(wire'[i]) \in Stale
      BY <1>a, <3>1, <3>2 DEF WireStale
    <3>4. inbox[1].op \in Stale => WireStale'
      BY <1>a, <2>2, <2>3, <3>1, <3>2 DEF WireStale
    <3>5. CASE pc # "await"
      <4>1. InboxStale
        BY <2>6, <3>2, <3>5 DEF InOrder
      <4>2. InboxStale' /\ WireStale'
        BY <2>3, <3>4, <4>1 DEF InboxStale
      <4> QED
        BY <2>1, <2>4, <3>3, <3>5, <4>2 DEF InOrder
    <3>6. CASE pc = "await" /\ inbox' # <<>>
      <4>1. Len(inbox) > 1
        BY <2>3, <3>6, EmptyFacts
      <4>2. inbox'[Len(inbox')] = inbox[Len(inbox)]
        BY <2>3, <4>1
      <4>3. WireStale'
        BY <3>4, <4>1 DEF InOrder
      <4> QED
        BY <2>1, <2>4, <3>3, <3>6, <4>2, <4>3 DEF InOrder
    <3>7. CASE pc = "await" /\ inbox' = <<>>
      <4>1. Len(inbox) = 1
        BY <1>a, <2>3, <3>7
      <4>2. Answers(wire'[Len(wire')]) = cmd.op
        BY <2>1, <2>2, <2>3, <3>1, <3>7, <4>1 DEF InOrder
      <4>3. link = "greeted" /\ wire' # <<>>
        BY <1>a, <2>1, <2>6, <3>1 DEF Typed
      <4> QED
        BY <2>1, <2>4, <3>3, <3>7, <4>2, <4>3 DEF InOrder
    <3> QED
      BY <3>5, <3>6, <3>7
  <2> QED
    BY <2>5, <2>6
<1>13. CASE \/ SyncPointRate \/ Return \/ ConnectFails \/ Tick \/ DacUpset \/ WarmedUp
            \/ StopThread \/ SetPointRate \/ SetTargetLatency \/ UNCHANGED vars
  BY <1>13 DEF SyncPointRate, Return, ConnectFails, Tick, DacUpset, WarmedUp, StopThread,
     SetPointRate, SetTargetLatency, vars, InOrder, InboxStale, WireStale
<1> QED
  BY <1>1, <1>2, <1>3, <1>4, <1>5, <1>6, <1>7, <1>8, <1>9, <1>10, <1>11, <1>12, <1>13
     DEF Next, Worker, Failure

\* What the DAC's own state keeps to.
DacOrdered(d) ==
    /\ Sane(d)
    /\ d.dry => d.le = "ready" /\ d.full = 0 /\ d.pb # "playing"

\* Serving a command keeps the DAC's light engine and playback in agreement.
LEMMA ServedOrdered ==
    ASSUME NEW d \in Dacs, NEW c \in Commands, NEW r, NEW a, Served(d, c, r, a), DacOrdered(d)
    PROVE  DacOrdered(r)
<1>1. CASE r = d
  BY <1>1
<1>2. CASE d.le = "estop" /\ r = [d EXCEPT !.le = "ready"]
  BY <1>2 DEF DacOrdered, Sane, Dacs
<1>3. CASE r = [d EXCEPT !.pb = "idle", !.full = 0, !.bad = FALSE]
  BY <1>3 DEF DacOrdered, Sane, Dacs
<1>4. CASE d.le = "ready" /\ r = [d EXCEPT !.pb = "prepared", !.full = 0, !.under = FALSE]
  BY <1>4 DEF DacOrdered, Sane, Dacs
<1>5. CASE /\ d.le = "ready" /\ d.pb = "prepared" /\ d.full > 0
           /\ r = [d EXCEPT !.pb = "playing", !.begun = TRUE]
  <2>1. ~d.dry /\ ~d.under
    BY <1>5 DEF DacOrdered, Sane, Dacs
  <2> QED
    BY <1>5, <2>1 DEF DacOrdered, Sane, Dacs
<1>6. CASE /\ d.le = "ready" /\ d.pb # "idle"
           /\ r = [d EXCEPT !.full = @ + c.n, !.dry = FALSE]
  <2>1. r.dry = FALSE /\ r.le = d.le /\ r.pb = d.pb /\ r.under = d.under
    BY <1>6 DEF Dacs
  <2> QED
    BY <1>6, <2>1 DEF DacOrdered, Sane
<1> QED
  BY <1>1, <1>2, <1>3, <1>4, <1>5, <1>6 DEF Served

\* Every step keeps them in agreement.
LEMMA DacStaysOrdered ==
    ASSUME Typed, DacOrdered(dac), [Next]_vars
    PROVE  DacOrdered(dac')
<1>a. dac \in Dacs
  BY DEF Typed
<1>1. CASE DacServes
  BY <1>1, <1>a, Serves, ServedOrdered
<1>2. CASE Tick
  <2>1. CASE dac' = dac
    BY <2>1
  <2>2. CASE dac.pb = "playing" /\ dac' = [dac EXCEPT !.full = dac.full - 1]
    <3>1. dac'.dry = dac.dry /\ dac'.le = dac.le /\ dac'.pb = dac.pb /\ dac'.under = dac.under
      BY <1>a, <2>2 DEF Dacs
    <3> QED
      BY <2>2, <3>1 DEF DacOrdered, Sane
  <2>3. CASE /\ dac.pb = "playing" /\ dac.full = 0
             /\ dac' = [dac EXCEPT !.pb = "idle", !.under = TRUE, !.dry = TRUE, !.bad = FALSE]
    BY <1>a, <2>3 DEF DacOrdered, Sane, Dacs
  <2> QED
    BY <1>2, <2>1, <2>2, <2>3, Ticks
<1>3. CASE DacUpset \/ WarmedUp \/ Connect
  <2>1. CASE dac' = dac
    BY <2>1
  <2>2. CASE dac' = [dac EXCEPT !.bad = TRUE]
    BY <1>a, <2>2 DEF DacOrdered, Sane, Dacs
  <2>3. CASE dac.le = "warmup" /\ dac' = [dac EXCEPT !.le = "ready"]
    BY <1>a, <2>3 DEF DacOrdered, Sane, Dacs
  <2>4. CASE dac' = [dac EXCEPT !.pb = "idle", !.full = 0]
    BY <1>a, <2>4 DEF DacOrdered, Sane, Dacs
  <2>5. ASSUME NEW le \in LightEngine,
               dac' = [dac EXCEPT !.le = le, !.pb = "idle", !.full = 0, !.bad = FALSE, !.dry = FALSE]
        PROVE  DacOrdered(dac')
    BY <1>a, <2>5 DEF DacOrdered, Sane, Dacs
  <2> QED
    BY <1>3, <2>1, <2>2, <2>3, <2>4, <2>5, DacAlone
<1>4. CASE ~(DacServes \/ Tick \/ DacUpset \/ WarmedUp \/ Connect)
  <2>1. dac' = dac
    BY <1>4 DEF Next, vars, Worker, Failure, Return, Greeted, GreetingCancelled, FirmwareRead,
     SendAction, SyncPointRate, PollStatus, SendPoints, LeaveLoop, ReceiveAck, ReceiveNak,
     ReceiveMismatch, ConnectFails, GreetingTimeout, FirmwareTimeout, ResponseTimeout,
     DacGreets, StopThread, SetPointRate, SetTargetLatency
  <2> QED
    BY <2>1
<1> QED
  BY <1>1, <1>2, <1>3, <1>4

\* The status the DAC reports is its state.
LEMMA StatusOfSane ==
    ASSUME NEW d \in Dacs
    PROVE  /\ StatusOf(d).le = d.le /\ StatusOf(d).pb = d.pb /\ StatusOf(d).under = d.under
           /\ Sane(d) => Sane(StatusOf(d))
BY DEF StatusOf, Sane, Dacs

KnownSane == Sane(drv.known) /\ \A i \in 1..Len(wire) : Sane(wire[i].status)

\* DacSane is about the DAC and about what was said of it.
LEMMA DacSaneParts == DacSane <=> DacOrdered(dac) /\ KnownSane
BY DEF DacSane, DacOrdered, KnownSane

\* Every step keeps the known and the reported statuses sane.
LEMMA KnownSaneKept ==
    ASSUME Typed, Linked, DacOrdered(dac), KnownSane, [Next]_vars
    PROVE  KnownSane'
<1>a. Len(wire) \in Nat /\ Len(<<>>) = 0 /\ dac \in Dacs
  BY EmptyFacts DEF Typed
<1>b. ASSUME wire' = <<>>, Sane(drv'.known)
      PROVE  KnownSane'
  <2>1. Len(wire') = 0
    BY <1>a, <1>b
  <2> QED
    BY <1>b, <2>1 DEF KnownSane
<1>c. ASSUME wire # <<>>, wire' = Tail(wire), Sane(drv'.known)
      PROVE  KnownSane'
  <2>1. /\ Len(wire') = Len(wire) - 1
        /\ \A i \in 1..Len(wire') : wire'[i] = wire[i + 1]
    BY <1>c, TailFacts DEF Typed
  <2> QED
    BY <1>a, <1>c, <2>1 DEF KnownSane
<1>d. ASSUME NEW m \in Replies, wire' = Append(wire, m), Sane(m.status), drv' = drv
      PROVE  KnownSane'
  <2>1. /\ Len(wire') = Len(wire) + 1 /\ wire'[Len(wire) + 1] = m
        /\ \A i \in 1..Len(wire) : wire'[i] = wire[i]
    BY <1>d, AppendFacts DEF Typed
  <2> QED
    BY <1>a, <1>d, <2>1 DEF KnownSane
<1>1. CASE Connect
  <2>1. drv'.known = NoStatus /\ wire' = <<>>
    BY <1>1, ResetDecides DEF Connect, Typed
  <2>2. Sane(NoStatus)
    BY DEF Sane, NoStatus
  <2> QED
    BY <1>b, <2>1, <2>2
<1>2. CASE Greeted \/ ReceiveAck \/ ReceiveNak
  <2>1. wire # <<>>
    BY <1>2 DEF Greeted, ReceiveAck, ReceiveNak
  <2>2. drv'.known = Head(wire).status
    BY <1>2, AnswerTaken, GreetedEnters DEF Learnt
  <2>3. Head(wire) = wire[1] /\ 1 \in 1..Len(wire)
    BY <2>1, TailFacts DEF Typed
  <2>4. Sane(drv'.known)
    BY <2>2, <2>3 DEF KnownSane
  <2>5. wire' = <<>> \/ wire' = Tail(wire)
    BY <1>2, AnswerTaken, GreetedEnters DEF Entered, LetGo, Continued
  <2> QED
    BY <1>b, <1>c, <2>1, <2>4, <2>5
<1>3. CASE ReceiveMismatch \/ ResponseTimeout
  BY <1>3, <1>b, FailureLetsGo DEF LetGo, KnownSane
<1>4. CASE GreetingCancelled
  <2>1. wire' = <<>> /\ drv'.known = drv.known
    BY <1>4, FailureDecides DEF GreetingCancelled, Hangup, Typed
  <2> QED
    BY <1>b, <2>1 DEF KnownSane
<1>5. CASE FirmwareRead
  <2>1. drv'.known = drv.known
    BY <1>5, FirmwareIsRead
  <2>2. CASE wire # <<>> /\ wire' = Tail(wire)
    BY <1>c, <2>1, <2>2 DEF KnownSane
  <2>3. ASSUME NEW m \in Replies, m.status = wire[2].status,
               wire' = <<m>> \o Tail(Tail(wire)), Len(wire) > 1
        PROVE  KnownSane'
    <3>1. /\ Len(wire') = Len(wire) - 1 /\ wire'[1] = m
          /\ \A i \in 2..Len(wire') : wire'[i] = wire[i + 1]
      BY <2>3, JunkFacts DEF Typed
    <3>2. Sane(m.status)
      BY <1>a, <2>3 DEF KnownSane
    <3>3. \A i \in 1..Len(wire') : Sane(wire'[i].status)
      BY <1>a, <3>1, <3>2 DEF KnownSane
    <3> QED
      BY <2>1, <3>3 DEF KnownSane
  <2> QED
    BY <1>5, <2>2, <2>3, FirmwareIsRead
<1>6. CASE FirmwareTimeout
  <2>1. drv'.known = drv.known /\ wire' = <<>>
    BY <1>6 DEF FirmwareTimeout, Typed, Drivers
  <2> QED
    BY <1>b, <2>1 DEF KnownSane
<1>7. CASE SendAction \/ PollStatus \/ SendPoints
  BY <1>7, LoopSends DEF SameView, KnownSane
<1>8. CASE SyncPointRate
  <2>1. drv'.known = drv.known /\ wire' = wire
    BY <1>8 DEF SyncPointRate, Typed, Drivers
  <2> QED
    BY <2>1 DEF KnownSane
<1>9. CASE LeaveLoop
  <2>1. drv'.known = drv.known /\ (wire' = wire \/ wire' = <<>>)
    BY <1>9, Leaves
  <2> QED
    BY <1>b, <2>1 DEF KnownSane
<1>10. CASE DacGreets
  <2>1. PICK m \in Replies : wire' = Append(wire, m) /\ m.status = StatusOf(dac)
    BY <1>10, Greets
  <2>2. Sane(m.status) /\ drv' = drv
    BY <1>10, <1>a, <2>1, StatusOfSane DEF DacGreets, DacOrdered
  <2> QED
    BY <1>d, <2>1, <2>2
<1>11. CASE DacServes
  <2>1. PICK m \in Replies : /\ m.status = StatusOf(dac')
                             /\ wire' = IF link = "down" THEN <<>> ELSE Append(wire, m)
    BY <1>11, Serves
  <2>2. drv' = drv /\ dac' \in Dacs
    BY <1>11, Serves
  <2>3. Sane(m.status)
    BY <2>1, <2>2, StatusOfSane, DacStaysOrdered DEF DacOrdered
  <2> QED
    BY <1>b, <1>d, <2>1, <2>2, <2>3 DEF KnownSane
<1>12. CASE Tick
  <2>1. drv'.known = drv.known /\ wire' = wire
    BY <1>12, Ticks DEF Tick, SameView
  <2> QED
    BY <2>1 DEF KnownSane
<1>13. CASE \/ Return \/ ConnectFails \/ GreetingTimeout \/ DacUpset \/ WarmedUp
            \/ StopThread \/ SetPointRate \/ SetTargetLatency \/ UNCHANGED vars
  BY <1>13 DEF Return, ConnectFails, GreetingTimeout, DacUpset, WarmedUp, StopThread,
     SetPointRate, SetTargetLatency, vars, KnownSane
<1> QED
  BY <1>1, <1>2, <1>3, <1>4, <1>5, <1>6, <1>7, <1>8, <1>9, <1>10, <1>11, <1>12, <1>13
     DEF Next, Worker, Failure

\* Every step keeps DacSane.
LEMMA DacSaneKept ==
    ASSUME Typed, Linked, DacSane, [Next]_vars
    PROVE  DacSane'
<1>1. DacOrdered(dac') /\ KnownSane'
  BY DacSaneParts, DacStaysOrdered, KnownSaneKept
<1> QED
  BY <1>1 DEF DacSane, DacOrdered, KnownSane

\* What a step of the DAC's own does to its playback: nothing, or it is idle
\* for a reason, or it starves.
Drift ==
    \/ dac'.pb = dac.pb /\ dac'.dry = dac.dry /\ dac'.under = dac.under
    \/ dac'.pb = "idle" /\ ~dac'.dry
    \/ dac.pb = "playing" /\ dac'.pb = "idle" /\ dac'.under /\ dac'.dry

\* On its own the DAC does what Drift says, and the controller notices nothing.
LEMMA DacDrifts ==
    ASSUME Typed, Tick \/ DacUpset \/ WarmedUp
    PROVE  /\ Drift /\ UNCHANGED <<pc, cmd, link, inbox, wire>>
           /\ drv'.known = drv.known /\ drv'.active = drv.active /\ drv'.blank = drv.blank
<1>a. dac \in Dacs
  BY DEF Typed
<1>1. CASE Tick
  <2>1. Drift
    <3>1. CASE dac' = dac
      BY <3>1 DEF Drift
    <3>2. CASE dac' = [dac EXCEPT !.full = dac.full - 1]
      BY <1>a, <3>2 DEF Drift, Dacs
    <3>3. CASE /\ dac.pb = "playing"
               /\ dac' = [dac EXCEPT !.pb = "idle", !.under = TRUE, !.dry = TRUE, !.bad = FALSE]
      BY <1>a, <3>3 DEF Drift, Dacs
    <3> QED
      BY <1>1, <3>1, <3>2, <3>3, Ticks
  <2>2. UNCHANGED <<pc, cmd, link, inbox, wire>>
    BY <1>1 DEF Tick
  <2> QED
    BY <1>1, <2>1, <2>2, Ticks DEF SameView
<1>2. CASE DacUpset \/ WarmedUp
  <2>1. \/ dac' = [dac EXCEPT !.bad = TRUE]
        \/ dac' = [dac EXCEPT !.le = "ready"]
        \/ \E le \in LightEngine :
             dac' = [dac EXCEPT !.le = le, !.pb = "idle", !.full = 0, !.bad = FALSE,
                                !.dry = FALSE]
    BY <1>2 DEF DacUpset, WarmedUp, LightEngine
  <2>2. Drift
    BY <1>a, <2>1 DEF Drift, Dacs
  <2>3. UNCHANGED <<pc, cmd, drv, link, inbox, wire>>
    BY <1>2 DEF DacUpset, WarmedUp
  <2> QED
    BY <2>2, <2>3
<1> QED
  BY <1>1, <1>2

\* A starved DAC stays starved only without new points, and tells of it.
LEMMA ServedDry ==
    ASSUME NEW d \in Dacs, NEW c \in Commands, NEW r, NEW a, Served(d, c, r, a), r.dry
    PROVE  /\ d.dry
           /\ c.op # "p" /\ d.pb = "idle" => r.pb = "idle" /\ r.under = d.under
           /\ c.op = "d" /\ d.pb = "idle" => r = d
<1>1. CASE r = d
  BY <1>1
<1>2. CASE \/ c.op = "c" /\ r = [d EXCEPT !.le = "ready"]
           \/ c.op = "s" /\ r = [d EXCEPT !.pb = "idle", !.full = 0, !.bad = FALSE]
           \/ c.op = "p" /\ r = [d EXCEPT !.pb = "prepared", !.full = 0, !.under = FALSE]
           \/ /\ c.op = "b" /\ d.pb = "prepared"
              /\ r = [d EXCEPT !.pb = "playing", !.begun = TRUE]
  BY <1>2 DEF Dacs
<1>3. CASE r = [d EXCEPT !.full = @ + c.n, !.dry = FALSE]
  <2>1. r.dry = FALSE
    BY <1>3 DEF Dacs
  <2> QED
    BY <2>1
<1> QED
  BY <1>1, <1>2, <1>3 DEF Served

\* Every step keeps it so that a dry DAC refuses points without a blank lead.
LEMMA UnledRefusedKept ==
    ASSUME Typed, Linked, InOrder, DacSane, Blanking, [Next]_vars
    PROVE  UnledRefused'
<1>a. Len(inbox) \in Nat /\ Len(<<>>) = 0 /\ UnledRefused
  BY EmptyFacts DEF Typed, Blanking
<1>b. ASSUME UNCHANGED <<inbox, dac>>
      PROVE  UnledRefused'
  BY <1>a, <1>b DEF UnledRefused
<1>c. ASSUME NEW c \in Commands, inbox' = Append(inbox, c), dac' = dac,
             c.op = "d" /\ ~c.lead /\ dac.dry => dac.pb = "idle"
      PROVE  UnledRefused'
  <2>1. /\ Len(inbox') = Len(inbox) + 1 /\ inbox'[Len(inbox) + 1] = c
        /\ \A i \in 1..Len(inbox) : inbox'[i] = inbox[i]
    BY <1>c, AppendFacts DEF Typed
  <2> SUFFICES ASSUME NEW i \in 1..Len(inbox')
               PROVE  inbox'[i].op = "d" /\ ~inbox'[i].lead /\ dac'.dry => dac'.pb = "idle"
    BY DEF UnledRefused
  <2>2. i \in 1..Len(inbox) \/ i = Len(inbox) + 1
    BY <1>a, <2>1
  <2> QED
    BY <1>a, <1>c, <2>1, <2>2 DEF UnledRefused
<1>1. CASE Connect
  <2>1. Len(inbox') = 0
    BY <1>1, <1>a DEF Connect
  <2> QED
    BY <2>1 DEF UnledRefused
<1>2. CASE Greeted \/ ReceiveAck \/ ReceiveNak
  <2>1. dac' = dac
    BY <1>2 DEF Greeted, ReceiveAck, ReceiveNak
  <2>2. inbox' = inbox \/ inbox' = Append(inbox, Bare("v"))
    BY <1>2, AnswerTaken, GreetedEnters DEF Entered, LetGo, Continued
  <2>3. Bare("v") \in Commands /\ Bare("v").op = "v"
    BY BareCommand DEF Opcodes
  <2> QED
    BY <1>b, <1>c, <2>1, <2>2, <2>3
<1>3. CASE ReceiveMismatch \/ ResponseTimeout
  <2>1. inbox' = inbox /\ dac' = dac
    BY <1>3, FailureLetsGo DEF LetGo, ReceiveMismatch, ResponseTimeout
  <2> QED
    BY <1>b, <2>1
<1>4. CASE SendAction \/ PollStatus \/ SendPoints
  <2>1. PICK c : Sent(c, "loop") /\ (c.op = "d" => c.lead = drv.blank)
    BY <1>4, LoopSends
  <2>2. InLoop /\ dac' = dac
    BY <1>4, LoopSends
  <2>3. ~drv.blank /\ dac.dry => dac.pb = "idle"
    BY <2>2 DEF Blanking, LoopInStep, InLoop, InStep, Unnoticed
  <2>4. c \in Commands /\ inbox' = Append(inbox, c)
    BY <2>1 DEF Sent
  <2> QED
    BY <1>c, <2>1, <2>2, <2>3, <2>4
<1>5. CASE LeaveLoop
  <2>1. dac' = dac /\ (inbox' = inbox \/ Sent(Bare("s"), "close")) /\ Bare("s").op = "s"
    BY <1>5, Leaves, BareCommand DEF Opcodes
  <2> QED
    BY <1>b, <1>c, <2>1 DEF Sent
<1>6. CASE GreetingTimeout
  <2>1. dac' = dac /\ Sent(Bare("?"), "handshake") /\ Bare("?").op = "?"
    BY <1>6, GreetingPings DEF GreetingTimeout
  <2> QED
    BY <1>c, <2>1 DEF Sent
<1>7. CASE DacServes
  <2> DEFINE c == Head(inbox)
  <2>1. inbox # <<>> /\ c \in Commands /\ inbox' = Tail(inbox)
    BY <1>7, Serves
  <2>2. PICK a : Served(dac, c, dac', a)
    BY <1>7, Serves
  <2>3. /\ Len(inbox) \in Nat \ {0} /\ c = inbox[1]
        /\ Len(inbox') = Len(inbox) - 1
        /\ \A i \in 1..Len(inbox') : inbox'[i] = inbox[i + 1]
    BY <2>1, TailFacts DEF Typed
  <2> HIDE DEF c
  <2> SUFFICES ASSUME NEW i \in 1..Len(inbox')
               PROVE  inbox'[i].op = "d" /\ ~inbox'[i].lead /\ dac'.dry => dac'.pb = "idle"
    BY DEF UnledRefused
  <2>4. i + 1 \in 1..Len(inbox) /\ Len(inbox) > 1 /\ inbox'[i] = inbox[i + 1]
    BY <2>3
  <2>5. c.op \in Stale
    BY <2>3, <2>4 DEF InOrder
  <2>6. dac' = dac
    BY <2>1, <2>2, <2>5, ServedType DEF Typed
  <2> QED
    BY <1>a, <2>4, <2>6 DEF UnledRefused
<1>8. CASE Tick \/ DacUpset \/ WarmedUp
  <2>1. Drift /\ inbox' = inbox
    BY <1>8, DacDrifts
  <2>2. dac'.dry /\ (dac.dry => dac.pb = "idle") => dac'.pb = "idle"
    BY <2>1 DEF Drift
  <2> QED
    BY <1>a, <2>1, <2>2 DEF UnledRefused, Drift
<1>9. CASE \/ GreetingCancelled \/ FirmwareRead \/ FirmwareTimeout \/ SyncPointRate \/ Return
           \/ ConnectFails \/ DacGreets
           \/ StopThread \/ SetPointRate \/ SetTargetLatency \/ UNCHANGED vars
  <2>1. UNCHANGED <<inbox, dac>>
    BY <1>9 DEF GreetingCancelled, Hangup, FirmwareRead, FirmwareTimeout, SyncPointRate, Return,
       ConnectFails, DacGreets, StopThread, SetPointRate, SetTargetLatency, vars
  <2> QED
    BY <1>b, <2>1
<1> QED
  BY <1>1, <1>2, <1>3, <1>4, <1>5, <1>6, <1>7, <1>8, <1>9 DEF Next, Worker, Failure

\* What the DAC does on its own keeps the controller in step.
LEMMA InStepKept ==
    ASSUME InStep, drv'.known = drv.known, Drift
    PROVE  InStep'
BY DEF InStep, Unnoticed, Drift

\* Every step keeps the loop in step with the DAC.
LEMMA LoopInStepKept ==
    ASSUME Typed, Linked, InOrder, DacSane, Blanking, [Next]_vars
    PROVE  LoopInStep'
<1>a. LoopInStep
  BY DEF Blanking
<1>b. ASSUME pc' # "loop" \/ ~drv'.active \/ drv'.blank
      PROVE  LoopInStep'
  BY <1>b DEF LoopInStep
<1>1. CASE ReceiveAck \/ ReceiveNak
  <2>1. pc = "await" /\ wire # <<>> /\ Matches(Head(wire)) /\ dac' = dac
    BY <1>1 DEF ReceiveAck, ReceiveNak
  <2>2. CASE ~drv'.blank /\ Continued
    <3>1. /\ cmd.for = "loop" /\ ~drv.blank
          /\ ~(Head(wire).status.under /\ ~drv.known.under)
          /\ ~Starved(cmd.op, Head(wire))
      BY <2>2 DEF Continued
    <3>2. inbox = <<>>
      <4> SUFFICES ASSUME inbox # <<>> PROVE FALSE
        OBVIOUS
      <4>1. cmd.op = "d"
        BY <2>1, <3>1 DEF Blanking, ExchangeTells
      <4> QED
        BY <2>1, <4>1, CommandInFlight DEF Stale
    <3>3. Len(wire) = 1 \/ cmd.op = "d"
      BY <2>1, <3>1, <3>2 DEF Blanking, ExchangeTells
    <3>4. Head(wire) = wire[1] /\ Tail(wire) \in Seq(Replies) /\ Len(Tail(wire)) = Len(wire) - 1
      BY <2>1, TailFacts DEF Typed
    <3>5. Len(wire) = 1
      BY <2>1, <3>3, CommandInFlight DEF Stale
    <3>6. Len(Tail(wire)) = 0
      BY <3>4, <3>5
    <3>7. Tail(wire) = <<>>
      BY <3>4, <3>6, EmptyFacts
    <3>8. link = "greeted"
      BY <2>1, <3>2 DEF InOrder
    <3>9. /\ dac.pb = "playing" => Head(wire).status.pb = "playing"
          /\ dac.dry => Head(wire).status.pb = "playing" /\ dac.pb = "idle" /\ dac.under
      BY <2>1, <3>1, <3>2, <3>4, <3>5 DEF Blanking, ExchangeTells, Tells, Starved
    <3>10. drv'.known = Head(wire).status
      BY <1>1, AnswerTaken DEF Learnt
    <3>11. InStep'
      BY <2>1, <3>9, <3>10 DEF InStep, Unnoticed
    <3>12. inbox' = <<>> /\ wire' = <<>> /\ link' = "greeted"
      BY <2>2, <3>2, <3>7, <3>8 DEF Continued
    <3> QED
      BY <3>11, <3>12 DEF LoopInStep
  <2>3. CASE drv'.blank \/ LetGo
    BY <1>b, <2>3 DEF LetGo
  <2>4. CASE Entered
    BY <1>b, <2>4 DEF Entered
  <2> QED
    BY <1>1, <2>2, <2>3, <2>4, AnswerTaken
<1>2. CASE Greeted
  <2>1. Entered
    BY <1>2, GreetedEnters
  <2> QED
    BY <1>b, <2>1 DEF Entered
<1>3. CASE ReceiveMismatch \/ ResponseTimeout
  BY <1>3, <1>b, FailureLetsGo DEF LetGo
<1>4. CASE FirmwareRead \/ FirmwareTimeout
  <2>1. drv' = [drv EXCEPT !.blank = TRUE]
    BY <1>4 DEF FirmwareRead, FirmwareTimeout
  <2>2. drv'.blank
    BY <2>1 DEF Typed, Drivers
  <2> QED
    BY <1>b, <2>2
<1>5. CASE SyncPointRate
  <2>1. /\ drv'.blank = drv.blank /\ drv'.known = drv.known /\ drv'.active = drv.active
        /\ UNCHANGED <<pc, link, inbox, wire, dac>>
    BY <1>5 DEF SyncPointRate, Typed, Drivers
  <2> QED
    BY <1>a, <2>1 DEF LoopInStep, InStep, Unnoticed
<1>6. CASE Tick \/ DacUpset \/ WarmedUp
  <2>1. /\ Drift /\ UNCHANGED <<pc, link, inbox, wire>>
        /\ drv'.known = drv.known /\ drv'.active = drv.active /\ drv'.blank = drv.blank
    BY <1>6, DacDrifts
  <2>2. InStep => InStep'
    BY <2>1, InStepKept
  <2> QED
    BY <1>a, <2>1, <2>2 DEF LoopInStep
<1>7. CASE DacGreets
  <2>1. link = "open" /\ UNCHANGED <<pc, drv>>
    BY <1>7 DEF DacGreets
  <2> QED
    BY <1>a, <2>1 DEF LoopInStep
<1>8. CASE DacServes
  <2>1. inbox # <<>> /\ UNCHANGED <<pc, drv>>
    BY <1>8 DEF DacServes
  <2> QED
    BY <1>a, <2>1 DEF LoopInStep
<1>9. CASE SendAction \/ PollStatus \/ SendPoints
  <2>1. pc' = "await"
    BY <1>9, LoopSends DEF Sent
  <2> QED
    BY <1>b, <2>1
<1>10. CASE LeaveLoop
  <2>1. pc' # "loop"
    BY <1>10, Leaves DEF Sent
  <2> QED
    BY <1>b, <2>1
<1>11. CASE Connect \/ GreetingCancelled \/ GreetingTimeout \/ Return \/ ConnectFails
  <2>1. pc' # "loop"
    BY <1>11 DEF Connect, GreetingCancelled, GreetingTimeout, Send, Return, ConnectFails
  <2> QED
    BY <1>b, <2>1
<1>12. CASE StopThread \/ SetPointRate \/ SetTargetLatency \/ UNCHANGED vars
  <2>1. UNCHANGED <<pc, drv, link, inbox, wire, dac>>
    BY <1>12 DEF StopThread, SetPointRate, SetTargetLatency, vars
  <2> QED
    BY <1>a, <2>1 DEF LoopInStep, InStep, Unnoticed
<1> QED
  BY <1>1, <1>2, <1>3, <1>4, <1>5, <1>6, <1>7, <1>8, <1>9, <1>10, <1>11, <1>12
     DEF Next, Worker, Failure

\* Every step keeps it so that the answer under way tells of an underflow.
LEMMA ExchangeTellsKept ==
    ASSUME Typed, Linked, InOrder, DacSane, Prepares, Blanking, [Next]_vars
    PROVE  ExchangeTells'
<1>a. ExchangeTells /\ Len(inbox) \in Nat /\ Len(wire) \in Nat /\ Len(<<>>) = 0
  BY EmptyFacts DEF Blanking, Typed
<1>b. ASSUME pc' # "await" \/ cmd'.for # "loop" \/ drv'.blank
      PROVE  ExchangeTells'
  BY <1>b DEF ExchangeTells
<1>1. CASE SendAction \/ PollStatus \/ SendPoints
  <2>1. PICK c : /\ Sent(c, "loop")
                 /\ c.op = "d" => c.lead = drv.blank
                 /\ c.op # "d" => drv'.blank = drv.blank
    BY <1>1, LoopSends
  <2>2. InLoop /\ SameView /\ UNCHANGED <<link, wire, dac>>
    BY <1>1, LoopSends
  <2>3. /\ cmd'.op = c.op /\ inbox' # <<>> /\ Len(inbox') = Len(inbox) + 1
        /\ inbox'[Len(inbox')] = c
    BY <2>1, SentCommand
  <2>4. CASE c.op = "d" /\ drv.blank
    <3>1. cmd'.op = "d" /\ inbox'[Len(inbox')].lead
      BY <2>1, <2>3, <2>4
    <3> QED
      BY <2>3, <3>1 DEF ExchangeTells
  <2>5. CASE ~drv.blank
    <3>1. inbox = <<>> /\ wire = <<>> /\ link = "greeted" /\ InStep
      BY <2>2, <2>5 DEF Blanking, LoopInStep, InLoop
    <3>2. Len(inbox') = 1 /\ wire' = <<>> /\ link' = "greeted"
      BY <1>a, <2>2, <2>3, <3>1
    <3>3. InStep'
      BY <2>2, <3>1 DEF InStep, Unnoticed, SameView
    <3> QED
      BY <2>3, <3>2, <3>3 DEF ExchangeTells
  <2>6. CASE c.op # "d" /\ drv.blank
    BY <1>b, <2>1, <2>6
  <2> QED
    BY <2>4, <2>5, <2>6
<1>2. CASE DacServes /\ pc = "await" /\ cmd.for = "loop" /\ ~drv.blank
  <2> DEFINE c == Head(inbox)
  <2>1. /\ inbox # <<>> /\ c \in Commands /\ link # "open" /\ inbox' = Tail(inbox)
        /\ UNCHANGED <<pc, cmd, drv, link>> /\ dac' \in Dacs /\ dac \in Dacs
    BY <1>2, Serves DEF Typed
  <2>2. PICK a : /\ Serve(dac, c) = <<dac', a>> /\ Served(dac, c, dac', a)
                 /\ LET m == [reply |-> a, op |-> c.op, status |-> StatusOf(dac')]
                    IN  /\ m \in Replies
                        /\ wire' = IF link = "down" THEN <<>> ELSE Append(wire, m)
    BY <1>2, Serves
  <2> DEFINE m == [reply |-> a, op |-> c.op, status |-> StatusOf(dac')]
  <2>3. /\ Len(inbox) \in Nat \ {0} /\ c = inbox[1]
        /\ Len(inbox') = Len(inbox) - 1 /\ inbox' \in Seq(Commands)
        /\ \A i \in 1..Len(inbox') : inbox'[i] = inbox[i + 1]
    BY <2>1, TailFacts DEF Typed
  <2>4. link # "down"
    BY <1>2 DEF Linked
  <2>5. wire' = Append(wire, m) /\ m \in Replies
    BY <2>2, <2>4
  <2>6. Len(wire') = Len(wire) + 1 /\ wire'[Len(wire')] = m
    BY <1>a, <2>5, AppendFacts DEF Typed
  <2>7. /\ m.reply = a
        /\ m.status.le = dac'.le /\ m.status.pb = dac'.pb /\ m.status.under = dac'.under
    BY <2>1, StatusOfSane
  <2> HIDE DEF c, m
  <2>8. DacOrdered(dac) /\ Sane(drv.known)
    BY DacSaneParts DEF KnownSane
  <2>9. CASE inbox' # <<>>
    <3>1. Len(inbox) > 1
      BY <2>3, <2>9, EmptyFacts
    <3>2. cmd.op = "d" /\ inbox[Len(inbox)].lead
      BY <1>2, <1>a, <2>1, <3>1 DEF ExchangeTells
    <3>3. inbox'[Len(inbox')] = inbox[Len(inbox)]
      BY <2>3, <3>1
    <3> QED
      BY <2>1, <2>9, <3>2, <3>3 DEF ExchangeTells
  <2>10. CASE inbox' = <<>>
    <3>1. Len(inbox) = 1
      BY <1>a, <2>3, <2>10
    <3>2. c.op = cmd.op
      BY <1>2, <2>1, <2>3, <3>1 DEF InOrder
    <3>3. Len(wire') = 1 \/ cmd'.op = "d"
      BY <1>2, <1>a, <2>1, <2>6 DEF ExchangeTells
    <3>4. ASSUME dac'.dry
          PROVE  \/ m.status.under /\ ~drv.known.under
                 \/ cmd.op = "d" /\ m.reply = "I" /\ m.status.le = "ready" /\ m.status.pb = "idle"
      <4>1. /\ dac.dry
            /\ c.op # "p" /\ dac.pb = "idle" => dac'.pb = "idle" /\ dac'.under = dac.under
            /\ c.op = "d" /\ dac.pb = "idle" => dac' = dac
        BY <2>1, <2>2, <3>4, ServedDry
      <4>2. dac.le = "ready" /\ dac.full = 0
        BY <2>8, <4>1 DEF DacOrdered
      <4>3. CASE cmd.op = "d"
        <5>1. dac.pb = "idle"
          <6> SUFFICES ASSUME dac.pb # "idle" PROVE FALSE
            OBVIOUS
          <6>1. ~(Serve(dac, c)[1].dry)
            BY <2>1, <3>2, <4>2, <4>3, ServeCases
          <6> QED
            BY <2>2, <3>4, <6>1
        <5>2. Serve(dac, c)[2] = "I"
          BY <2>1, <3>2, <4>2, <4>3, <5>1, ServeCases
        <5>3. a = "I"
          BY <2>2, <5>2
        <5> QED
          BY <2>7, <3>2, <4>1, <4>2, <4>3, <5>1, <5>3
      <4>4. CASE cmd.op # "d"
        <5>1. Unnoticed
          BY <1>2, <1>a, <2>1, <4>1, <4>4 DEF ExchangeTells, InStep
        <5>2. c.op # "p"
          BY <1>2, <3>2, <5>1 DEF Prepares, Unnoticed
        <5>3. dac'.under
          BY <4>1, <5>1, <5>2 DEF Unnoticed
        <5>4. ~drv.known.under
          BY <2>8, <5>1 DEF Sane, Unnoticed
        <5> QED
          BY <2>7, <5>3, <5>4
      <4> QED
        BY <4>3, <4>4
    <3>5. Tells(wire[Len(wire)])'
      BY <2>1, <2>6, <2>7, <3>4 DEF Tells
    <3> QED
      BY <2>10, <3>3, <3>5 DEF ExchangeTells
  <2> QED
    BY <2>9, <2>10
<1>3. CASE DacServes /\ ~(pc = "await" /\ cmd.for = "loop" /\ ~drv.blank)
  <2>1. UNCHANGED <<pc, cmd, drv>>
    BY <1>3 DEF DacServes
  <2> QED
    BY <1>3, <2>1 DEF ExchangeTells
<1>4. CASE DacGreets
  <2>1. link = "open" /\ UNCHANGED <<pc, cmd, drv, inbox>>
    BY <1>4 DEF DacGreets
  <2>2. pc = "await" => inbox # <<>>
    BY <2>1 DEF InOrder
  <2> QED
    BY <1>a, <2>1, <2>2 DEF ExchangeTells
<1>5. CASE Tick \/ DacUpset \/ WarmedUp
  <2>1. /\ Drift /\ UNCHANGED <<pc, cmd, link, inbox, wire>>
        /\ drv'.known = drv.known /\ drv'.active = drv.active /\ drv'.blank = drv.blank
    BY <1>5, DacDrifts
  <2>2. InStep => InStep'
    BY <2>1, InStepKept
  <2>3. Tells(wire[Len(wire)]) => Tells(wire[Len(wire)])'
    BY <2>1 DEF Tells, Drift
  <2> QED
    BY <1>a, <2>1, <2>2, <2>3 DEF ExchangeTells
<1>6. CASE Greeted \/ ReceiveAck \/ ReceiveNak
  <2>1. pc' # "await"
    BY <1>6, AnswerTaken, GreetedEnters DEF Entered, LetGo, Continued
  <2> QED
    BY <1>b, <2>1
<1>7. CASE ReceiveMismatch \/ ResponseTimeout
  BY <1>7, <1>b, FailureLetsGo DEF LetGo
<1>8. CASE LeaveLoop
  <2>1. pc' # "await" \/ cmd'.for = "close"
    BY <1>8, Leaves, SentCommand
  <2> QED
    BY <1>b, <2>1
<1>9. CASE GreetingTimeout
  <2>1. cmd'.for = "handshake"
    BY <1>9, GreetingPings, SentCommand
  <2> QED
    BY <1>b, <2>1
<1>10. CASE \/ Connect \/ GreetingCancelled \/ FirmwareRead \/ FirmwareTimeout \/ Return
            \/ ConnectFails \/ SyncPointRate
  <2>1. pc' # "await"
    BY <1>10 DEF Connect, GreetingCancelled, FirmwareRead, FirmwareTimeout, Return, ConnectFails,
       SyncPointRate, InLoop
  <2> QED
    BY <1>b, <2>1
<1>11. CASE StopThread \/ SetPointRate \/ SetTargetLatency \/ UNCHANGED vars
  <2>1. UNCHANGED <<pc, cmd, drv, link, inbox, wire, dac>>
    BY <1>11 DEF StopThread, SetPointRate, SetTargetLatency, vars
  <2> QED
    BY <1>a, <2>1 DEF ExchangeTells, Tells, InStep, Unnoticed
<1> QED
  BY <1>1, <1>2, <1>3, <1>4, <1>5, <1>6, <1>7, <1>8, <1>9, <1>10, <1>11
     DEF Next, Worker, Failure

\* A ready DAC stays ready through a command.
LEMMA ServedReady ==
    ASSUME NEW d \in Dacs, NEW c \in Commands, NEW r, NEW a, Served(d, c, r, a), d.le = "ready"
    PROVE  r.le = "ready"
BY DEF Served, Dacs

\* While nothing failed, the next step keeps the worker and the DAC together.
LEMMA QuietKept ==
    ASSUME Typed, Linked, InOrder, Quiet, [Next]_vars, faults' = faults
    PROVE  Quiet'
<1>a. /\ Len(inbox) \in Nat /\ Len(wire) \in Nat /\ Len(<<>>) = 0
      /\ dac \in Dacs /\ inbox \in Seq(Commands) /\ wire \in Seq(Replies)
      /\ faults \in Nat
  BY EmptyFacts, EtherDreamAssumption DEF Typed
<1>b. dac.le = "ready" /\ drv.known.le = "ready"
  BY DEF Quiet, ReadyHeard
<1>c. ASSUME wire' = <<>>, dac'.le = "ready", drv'.known.le = "ready"
      PROVE  ReadyHeard'
  <2>1. Len(wire') = 0
    BY <1>a, <1>c
  <2> QED
    BY <1>c, <2>1 DEF ReadyHeard
<1>d. ASSUME wire # <<>>
      PROVE  /\ Head(wire) = wire[1] /\ Head(wire).status.le = "ready"
             /\ Tail(wire) \in Seq(Replies) /\ Len(Tail(wire)) = Len(wire) - 1
             /\ Len(wire) = 1 => Tail(wire) = <<>>
  <2>1. /\ Head(wire) = wire[1] /\ Len(wire) \in Nat \ {0}
        /\ Tail(wire) \in Seq(Replies) /\ Len(Tail(wire)) = Len(wire) - 1
    BY <1>a, <1>d, TailFacts
  <2>2. Head(wire).status.le = "ready"
    BY <2>1 DEF Quiet, ReadyHeard
  <2>3. ASSUME Len(wire) = 1 PROVE Tail(wire) = <<>>
    <3>1. Len(Tail(wire)) = 0
      BY <2>1, <2>3
    <3> QED
      BY <2>1, <3>1, EmptyFacts
  <2> QED
    BY <2>1, <2>2, <2>3
<1>e. ASSUME Entered, Learnt, wire # <<>>, Len(wire) = 1, inbox = <<>>, link = "greeted",
             drv.active, ~PlaysOurs, dac' = dac
      PROVE  Quiet'
  <2>1. wire' = <<>> /\ drv'.known.le = "ready" /\ dac'.le = "ready" /\ link' = "greeted"
        /\ drv'.active
    BY <1>b, <1>d, <1>e DEF Entered, Learnt
  <2>2. ReadyHeard'
    BY <1>c, <2>1
  <2>3. Bare("v") \in Commands /\ Bare("v").op = "v"
    BY BareCommand DEF Opcodes
  <2>4. inbox' = Append(inbox, Bare("v")) => Len(inbox') = 1 /\ inbox'[1] = Bare("v")
    <3>1. /\ Len(Append(inbox, Bare("v"))) = Len(inbox) + 1
          /\ Append(inbox, Bare("v"))[Len(inbox) + 1] = Bare("v")
      BY <1>a, <2>3, AppendFacts
    <3>2. Len(inbox) = 0
      BY <1>a, <1>e
    <3> QED
      BY <3>1, <3>2
  <2>5. ~PlaysOurs'
    BY <1>e DEF PlaysOurs
  <2>6. CASE pc' = "probe" /\ inbox' = Append(inbox, Bare("v"))
    BY <2>1, <2>2, <2>3, <2>4, <2>5, <2>6
       DEF Quiet, Released, Greeting, Probing, Looping, Awaiting
  <2>7. CASE pc' = "loop" /\ inbox' = inbox
    BY <1>e, <2>1, <2>2, <2>5, <2>7
       DEF Quiet, Released, Greeting, Probing, Looping, Awaiting
  <2> QED
    BY <1>e, <2>6, <2>7 DEF Entered
<1>f. ASSUME NEW c, NEW f \in {"loop", "close"}, Sent(c, f), f = "close" => c.op = "s",
             pc = "loop", drv'.known = drv.known, UNCHANGED <<link, wire, dac>>
      PROVE  Quiet'
  <2>1. /\ cmd'.op = c.op /\ cmd'.for = f /\ Len(inbox') = Len(inbox) + 1
    BY <1>f, SentCommand
  <2>2. inbox = <<>> /\ wire = <<>> /\ link = "greeted" /\ (PlaysOurs => drv.known.pb = "playing")
    BY <1>f DEF Quiet, Looping
  <2>3. Len(inbox') = 1
    BY <1>a, <2>1, <2>2
  <2>4. ReadyHeard'
    BY <1>b, <1>c, <1>f, <2>2
  <2>5. pc' = "await"
    BY <1>f DEF Sent
  <2>6. PlaysOurs' => drv'.known.pb = "playing"
    BY <1>f, <2>2 DEF PlaysOurs
  <2> QED
    BY <1>f, <2>1, <2>2, <2>3, <2>4, <2>5, <2>6
       DEF Quiet, Released, Greeting, Probing, Looping, Awaiting
<1>1. CASE Connect
  <2>1. /\ pc = "connect" /\ pc' = "greet" /\ link' = "open" /\ inbox' = <<>> /\ wire' = <<>>
        /\ drv'.known = NoStatus
    BY <1>1, ResetDecides DEF Connect, Typed
  <2>2. dac'.le = "ready" /\ ~PlaysOurs'
    <3>1. ~PlaysOurs
      BY <2>1 DEF Quiet, Released
    <3>2. dac' = dac \/ dac' = [dac EXCEPT !.pb = "idle", !.full = 0]
      BY <1>1 DEF Connect
    <3> QED
      BY <1>a, <1>b, <3>1, <3>2 DEF PlaysOurs, Dacs
  <2>3. ReadyHeard'
    BY <1>c, <2>1, <2>2 DEF NoStatus
  <2> QED
    BY <2>1, <2>2, <2>3 DEF Quiet, Released, Greeting, Probing, Looping, Awaiting
<1>2. CASE Greeted
  <2>1. pc = "greet" /\ wire # <<>> /\ dac' = dac
    BY <1>2 DEF Greeted
  <2>2. /\ inbox = <<>> /\ ~PlaysOurs /\ link = "greeted" /\ Len(wire) = 1 /\ drv.active
    BY <2>1 DEF Quiet, Greeting, Linked
  <2> QED
    BY <1>2, <1>e, <2>1, <2>2, GreetedEnters
<1>3. CASE GreetingCancelled
  <2>1. /\ pc = "greet" /\ pc' = "connect" /\ wire' = <<>> /\ inbox' = inbox /\ dac' = dac
        /\ drv'.known = drv.known
    BY <1>3, FailureDecides DEF GreetingCancelled, Hangup, Typed
  <2>2. inbox = <<>> /\ ~PlaysOurs
    BY <2>1 DEF Quiet, Greeting
  <2>3. ReadyHeard'
    BY <1>b, <1>c, <2>1
  <2>4. ~PlaysOurs'
    BY <2>1, <2>2 DEF PlaysOurs
  <2> QED
    BY <2>1, <2>2, <2>3, <2>4 DEF Quiet, Released, Greeting, Probing, Looping, Awaiting
<1>4. CASE FirmwareRead
  <2>1. pc = "probe" /\ pc' = "loop" /\ UNCHANGED <<link, inbox, dac>>
    BY <1>4 DEF FirmwareRead
  <2>2. /\ wire # <<>> /\ drv'.known = drv.known /\ drv'.active = drv.active
    BY <1>4, FirmwareIsRead
  <2>3. ~PlaysOurs /\ link = "greeted" /\ inbox = <<>> /\ Len(wire) = 1
    BY <2>1, <2>2 DEF Quiet, Probing
  <2>4. wire' = Tail(wire)
    BY <1>4, <2>3, FirmwareIsRead
  <2>5. wire' = <<>> /\ drv'.active
    BY <1>d, <2>1, <2>2, <2>3, <2>4 DEF Linked
  <2>6. ReadyHeard'
    BY <1>b, <1>c, <2>1, <2>2, <2>5
  <2>7. ~PlaysOurs'
    BY <2>1, <2>3 DEF PlaysOurs
  <2> QED
    BY <2>1, <2>3, <2>5, <2>6, <2>7 DEF Quiet, Released, Greeting, Probing, Looping, Awaiting
<1>5. CASE SendAction \/ PollStatus \/ SendPoints
  <2>1. PICK c : Sent(c, "loop")
    BY <1>5, LoopSends
  <2>2. pc = "loop" /\ drv'.known = drv.known /\ UNCHANGED <<link, wire, dac>>
    BY <1>5, LoopSends DEF InLoop, SameView
  <2> QED
    BY <1>f, <2>1, <2>2
<1>6. CASE SyncPointRate
  <2>1. /\ drv'.known = drv.known /\ drv'.active = drv.active
        /\ UNCHANGED <<pc, cmd, link, inbox, wire, dac>>
    BY <1>6 DEF SyncPointRate, Typed, Drivers
  <2> QED
    BY <2>1 DEF Quiet, ReadyHeard, Released, Greeting, Probing, Looping, Awaiting, PlaysOurs
<1>7. CASE LeaveLoop
  <2>1. pc = "loop" /\ dac' = dac
    BY <1>7, Leaves
  <2>2. /\ drv.active /\ inbox = <<>> /\ (PlaysOurs => drv.known.pb = "playing")
    BY <2>1 DEF Quiet, Looping
  <2>3. CASE Sent(Bare("s"), "close") /\ Bare("s").op = "s" /\ UNCHANGED <<drv, link, wire>>
    BY <1>f, <2>1, <2>3
  <2>4. CASE /\ ~(drv.active /\ drv.known.le = "ready" /\ drv.known.pb # "idle")
             /\ pc' = "connect" /\ drv'.known = drv.known
             /\ wire' = <<>> /\ UNCHANGED <<inbox, cmd>>
    <3>1. drv.known.pb = "idle"
      BY <1>b, <2>2, <2>4
    <3>2. ~PlaysOurs'
      BY <2>1, <2>2, <3>1 DEF PlaysOurs
    <3>3. ReadyHeard'
      BY <1>b, <1>c, <2>1, <2>4
    <3> QED
      BY <2>2, <2>4, <3>2, <3>3 DEF Quiet, Released, Greeting, Probing, Looping, Awaiting
  <2> QED
    BY <1>7, <2>3, <2>4, Leaves
<1>8. CASE ReceiveAck \/ ReceiveNak
  <2>1. pc = "await" /\ wire # <<>> /\ dac' = dac
    BY <1>8 DEF ReceiveAck, ReceiveNak
  <2>2. /\ cmd.for # "handshake" /\ link = "greeted" /\ inbox = <<>> /\ Len(wire) = 1
        /\ PlaysOurs => wire[1].status.pb = "playing"
        /\ cmd.for = "close" => dac.pb = "idle"
        /\ drv.active
    BY <2>1 DEF Quiet, Awaiting, Linked
  <2>3. /\ drv'.known = wire[1].status /\ drv'.known.le = "ready" /\ Tail(wire) = <<>>
    BY <1>8, <1>d, <2>1, <2>2, AnswerTaken DEF Learnt
  <2>4. CASE Continued
    <3>1. pc' = "loop" /\ drv'.active /\ link' = "greeted" /\ inbox' = <<>> /\ wire' = <<>>
      BY <2>2, <2>3, <2>4 DEF Continued
    <3>2. ReadyHeard'
      BY <1>b, <1>c, <2>1, <2>3, <3>1
    <3>3. PlaysOurs' => drv'.known.pb = "playing"
      BY <2>1, <2>2, <2>3 DEF PlaysOurs
    <3> QED
      BY <3>1, <3>2, <3>3 DEF Quiet, Released, Greeting, Probing, Looping, Awaiting
  <2>5. CASE LetGo /\ cmd.for = "close"
    <3>1. pc' = "connect" /\ inbox' = <<>> /\ wire' = <<>>
      BY <2>2, <2>5 DEF LetGo
    <3>2. ReadyHeard'
      BY <1>b, <1>c, <2>1, <2>3, <3>1
    <3>3. ~PlaysOurs'
      BY <2>1, <2>2, <2>5 DEF PlaysOurs
    <3> QED
      BY <3>1, <3>2, <3>3 DEF Quiet, Released, Greeting, Probing, Looping, Awaiting
  <2>6. cmd.for \in {"handshake", "loop", "close"}
    BY DEF Typed
  <2> QED
    BY <1>8, <2>2, <2>4, <2>5, <2>6, AnswerTaken
<1>9. CASE ReceiveMismatch
  <2>1. pc = "await" /\ wire # <<>> /\ ~Matches(Head(wire))
    BY <1>9 DEF ReceiveMismatch
  <2>2. inbox = <<>> /\ Len(wire) = 1
    BY <2>1 DEF Quiet, Awaiting
  <2>3. Answers(Head(wire)) = cmd.op /\ cmd.op # "v"
    BY <1>d, <2>1, <2>2 DEF InOrder
  <2>4. Head(wire).reply \in {"a", "I", "F", "!", "text", "junk"}
    BY <2>1, HeadOfWire DEF Replies
  <2> QED
    BY <2>1, <2>3, <2>4 DEF Answers, Matches
<1>10. CASE DacGreets
  <2>1. link = "open" /\ link' = "greeted" /\ UNCHANGED <<pc, cmd, drv, inbox, dac>>
    BY <1>10 DEF DacGreets
  <2>2. PICK m \in Replies : wire' = Append(wire, m) /\ m.status = StatusOf(dac)
    BY <1>10, Greets
  <2>3. pc = "greet"
    BY <2>1 DEF Quiet, Looping, Probing, Awaiting, Linked, Typed
  <2>4. wire = <<>> /\ inbox = <<>> /\ ~PlaysOurs
    BY <2>1, <2>3 DEF Quiet, Greeting
  <2>5. Len(wire') = 1 /\ wire'[1] = m
    <3>1. Len(wire') = Len(wire) + 1 /\ wire'[Len(wire) + 1] = m
      BY <1>a, <2>2, AppendFacts
    <3> QED
      BY <1>a, <2>4, <3>1
  <2>6. m.status.le = "ready"
    BY <1>a, <1>b, <2>2, StatusOfSane
  <2>7. ReadyHeard'
    BY <1>b, <2>1, <2>5, <2>6 DEF ReadyHeard
  <2>8. ~PlaysOurs'
    BY <2>1, <2>4 DEF PlaysOurs
  <2> QED
    BY <2>1, <2>3, <2>4, <2>5, <2>7, <2>8
       DEF Quiet, Released, Greeting, Probing, Looping, Awaiting
<1>11. CASE DacServes
  <2> DEFINE c == Head(inbox)
  <2>1. /\ inbox # <<>> /\ c \in Commands /\ inbox' = Tail(inbox)
        /\ UNCHANGED <<pc, cmd, drv, link>> /\ dac' \in Dacs
    BY <1>11, Serves
  <2>2. PICK a : /\ Serve(dac, c) = <<dac', a>> /\ Served(dac, c, dac', a)
                 /\ LET m == [reply |-> a, op |-> c.op, status |-> StatusOf(dac')]
                    IN  /\ m \in Replies
                        /\ wire' = IF link = "down" THEN <<>> ELSE Append(wire, m)
    BY <1>11, Serves
  <2> DEFINE m == [reply |-> a, op |-> c.op, status |-> StatusOf(dac')]
  <2>3. pc \in {"probe", "await"}
    BY <2>1 DEF Quiet, Released, Greeting, Looping, Typed
  <2>4. Len(inbox) = 1 /\ wire = <<>> /\ link = "greeted"
    BY <2>1, <2>3 DEF Quiet, Probing, Awaiting
  <2>5. c = inbox[1] /\ inbox' \in Seq(Commands) /\ Len(inbox') = 0
    BY <1>a, <2>1, <2>4, TailFacts
  <2>6. inbox' = <<>>
    BY <2>5, EmptyFacts
  <2>7. wire' = Append(wire, m) /\ m \in Replies
    BY <2>2, <2>4
  <2>8. m.reply = a /\ m.status.le = dac'.le /\ m.status.pb = dac'.pb
    BY <2>1, StatusOfSane
  <2> HIDE DEF c, m
  <2>9. Len(wire') = 1 /\ wire'[1] = m
    <3>1. Len(wire') = Len(wire) + 1 /\ wire'[Len(wire) + 1] = m
      BY <1>a, <2>7, AppendFacts
    <3> QED
      BY <1>a, <2>4, <3>1
  <2>10. dac'.le = "ready"
    BY <1>a, <1>b, <2>1, <2>2, ServedReady
  <2>11. ReadyHeard'
    BY <1>b, <2>1, <2>8, <2>9, <2>10 DEF ReadyHeard
  <2>12. CASE pc = "probe"
    <3>1. c.op = "v" /\ ~PlaysOurs
      BY <2>1, <2>4, <2>5, <2>12 DEF Quiet, Probing
    <3>2. a = "text" /\ dac' = dac
      BY <1>a, <2>1, <2>2, <3>1, ServedType DEF Stale
    <3>3. ~PlaysOurs'
      BY <3>1, <3>2 DEF PlaysOurs
    <3> QED
      BY <2>1, <2>4, <2>6, <2>8, <2>9, <2>11, <2>12, <3>2, <3>3
         DEF Quiet, Released, Greeting, Probing, Looping, Awaiting
  <2>13. CASE pc = "await"
    <3>1. c.op = cmd.op
      BY <2>1, <2>4, <2>5, <2>13 DEF InOrder
    <3>2. cmd.for # "handshake" /\ (cmd.for = "close" => cmd.op = "s")
      BY <2>13 DEF Quiet, Awaiting
    <3>3. cmd.for = "close" => dac'.pb = "idle"
      <4> SUFFICES ASSUME cmd.for = "close" PROVE dac'.pb = "idle"
        OBVIOUS
      <4>1. Serve(dac, c)[1].pb = "idle"
        BY <1>a, <1>b, <2>1, <3>1, <3>2, ServeCases
      <4> QED
        BY <2>2, <4>1
    <3>4. PlaysOurs' => m.status.pb = "playing"
      BY <2>8 DEF PlaysOurs
    <3> QED
      BY <2>1, <2>4, <2>6, <2>9, <2>11, <2>13, <3>2, <3>3, <3>4
         DEF Quiet, Released, Greeting, Probing, Looping, Awaiting
  <2> QED
    BY <2>3, <2>12, <2>13
<1>12. CASE Tick
  <2>1. UNCHANGED <<pc, cmd, link, inbox, wire>> /\ drv'.known = drv.known /\ drv'.active = drv.active
    BY <1>12, DacDrifts
  <2>2. dac'.le = "ready" /\ (PlaysOurs' => PlaysOurs) /\ (dac.pb = "idle" => dac'.pb = "idle")
    <3>1. CASE dac' = dac
      BY <1>b, <3>1 DEF PlaysOurs
    <3>2. CASE dac' = [dac EXCEPT !.full = dac.full - 1]
      <4>1. dac'.le = dac.le /\ dac'.pb = dac.pb /\ dac'.begun = dac.begun
        BY <1>a, <3>2 DEF Dacs
      <4> QED
        BY <1>b, <4>1 DEF PlaysOurs
    <3>3. CASE dac' = [dac EXCEPT !.pb = "idle", !.under = TRUE, !.dry = TRUE, !.bad = FALSE]
      BY <1>a, <1>b, <3>3 DEF PlaysOurs, Dacs
    <3> QED
      BY <1>12, <3>1, <3>2, <3>3, Ticks
  <2> QED
    BY <2>1, <2>2 DEF Quiet, ReadyHeard, Released, Greeting, Probing, Looping, Awaiting
<1>13. CASE WarmedUp
  BY <1>13, <1>b DEF WarmedUp
<1>14. CASE \/ ConnectFails \/ GreetingTimeout \/ FirmwareTimeout \/ ResponseTimeout \/ DacUpset
  <2>1. faults' = faults + 1
    BY <1>14 DEF ConnectFails, GreetingTimeout, FirmwareTimeout, ResponseTimeout, DacUpset
  <2> QED
    BY <1>a, <2>1
<1>15. CASE Return
  <2>1. pc = "connect" /\ pc' = "done" /\ UNCHANGED <<cmd, drv, link, inbox, wire, dac>>
    BY <1>15 DEF Return
  <2> QED
    BY <2>1 DEF Quiet, ReadyHeard, Released, Greeting, Probing, Looping, Awaiting, PlaysOurs
<1>16. CASE StopThread \/ SetPointRate \/ SetTargetLatency \/ UNCHANGED vars
  <2>1. UNCHANGED <<pc, cmd, drv, link, inbox, wire, dac>>
    BY <1>16 DEF StopThread, SetPointRate, SetTargetLatency, vars
  <2> QED
    BY <2>1 DEF Quiet, ReadyHeard, Released, Greeting, Probing, Looping, Awaiting, PlaysOurs
<1> QED
  BY <1>1, <1>2, <1>3, <1>4, <1>5, <1>6, <1>7, <1>8, <1>9, <1>10, <1>11, <1>12, <1>13, <1>14,
     <1>15, <1>16 DEF Next, Worker, Failure

-----------------------------------------------------------------------------
(* The theorems.                                                            *)

\* The inductive invariant holds initially.
LEMMA Initially == Init => IInv
<1> SUFFICES ASSUME Init PROVE IInv
  OBVIOUS
<1>1. Capacity \in Nat \ {0} /\ DefaultRate \in Rates /\ DefaultLatency \in Latencies
      /\ 0 \in 0..Capacity /\ 1 \in 0..Capacity /\ 0 \in 0..MaxFaults /\ 0 \in 0..MaxChanges
  BY EtherDreamAssumption
<1>2. PICK old \in {<<"idle", 0>>, <<"playing", 1>>} :
        dac = [le |-> "ready", pb |-> old[1], full |-> old[2], bad |-> FALSE,
               under |-> FALSE, dry |-> FALSE, begun |-> FALSE]
  BY DEF Init
<1>3. old[1] \in Playback /\ old[2] \in 0..Capacity
  BY <1>1, <1>2 DEF Playback
<1>4. dac \in Dacs /\ dac.le = "ready" /\ ~dac.under /\ ~dac.dry /\ ~dac.begun
  BY <1>2, <1>3 DEF Dacs, LightEngine
<1>5. NoStatus \in Statuses /\ NoStatus.pb = "idle" /\ NoStatus.le = "ready"
  BY <1>1 DEF NoStatus, Statuses, LightEngine, Playback
<1>6. /\ drv \in Drivers /\ drv.known = NoStatus /\ ~drv.active
  BY <1>1, <1>5 DEF Init, Drivers, Actions
<1>7. cmd \in [op: Opcodes, rate: Rates, for: {"handshake", "loop", "close"}]
  BY <1>1 DEF Init, Opcodes
<1>8. inbox = <<>> /\ wire = <<>> /\ link = "down" /\ pc = "connect"
  BY DEF Init
<1>9. Len(inbox) = 0 /\ Len(wire) = 0 /\ inbox \in Seq(Commands) /\ wire \in Seq(Replies)
  BY <1>8, EmptySeq
<1>10. running \in BOOLEAN /\ probeOff \in BOOLEAN
  BY Zenon DEF Init
<1>11. Typed
  BY <1>1, <1>4, <1>6, <1>7, <1>8, <1>9, <1>10 DEF Init, Typed
<1>12. Linked /\ InOrder
  BY <1>6, <1>8, <1>9 DEF Linked, InOrder
<1>13. DacSane
  BY <1>4, <1>5, <1>6, <1>9 DEF DacSane, Sane
<1>14. Prepares
  BY <1>5, <1>6, <1>8 DEF Prepares
<1>15. Blanking
  BY <1>8, <1>9 DEF Blanking, UnledRefused, LoopInStep, ExchangeTells
<1>16. Undisturbed
  BY <1>4, <1>5, <1>6, <1>8, <1>9 DEF Undisturbed, Quiet, ReadyHeard, Released, Greeting, Probing,
     Looping, Awaiting, PlaysOurs
<1> QED
  BY <1>11, <1>12, <1>13, <1>14, <1>15, <1>16 DEF IInv

\* Every step keeps the inductive invariant.
LEMMA Inductive == IInv /\ [Next]_vars => IInv'
<1> SUFFICES ASSUME IInv, [Next]_vars PROVE IInv'
  OBVIOUS
<1>1. Typed' /\ Linked' /\ InOrder' /\ DacSane' /\ Prepares'
  BY TypedKept, LinkedKept, InOrderKept, DacSaneKept, PreparesKept DEF IInv
<1>2. Blanking'
  BY UnledRefusedKept, LoopInStepKept, ExchangeTellsKept DEF IInv, Blanking
<1>3. Undisturbed'
  <2>1. faults' \in {faults, faults + 1} /\ faults \in Nat
    <3>1. faults \in Nat
      BY EtherDreamAssumption DEF IInv, Typed
    <3> QED
      BY <3>1 DEF Next, vars, Worker, Failure, Connect, Return, Greeted, GreetingCancelled,
         FirmwareRead, SendAction, SyncPointRate, PollStatus, SendPoints, LeaveLoop, ReceiveAck,
         ReceiveNak, ReceiveMismatch, ConnectFails, GreetingTimeout, FirmwareTimeout,
         ResponseTimeout, DacGreets, DacServes, Tick, DacUpset, WarmedUp, StopThread,
         SetPointRate, SetTargetLatency
  <2>2. ASSUME faults' = 0 PROVE Quiet'
    <3>1. faults' = faults /\ faults = 0
      BY <2>1, <2>2
    <3> QED
      BY <3>1, QuietKept DEF IInv, Undisturbed
  <2> QED
    BY <2>2 DEF Undisturbed
<1> QED
  BY <1>1, <1>2, <1>3 DEF IInv

\* The inductive invariant always holds.
LEMMA AlwaysIInv == Spec => []IInv
BY Initially, Inductive, PTL DEF Spec

\* Every variable keeps its type: among others, no data command carries more
\* points than the DAC's FIFO holds, and its level never exceeds it.
THEOREM TypeCorrect == Spec => []TypeOK
<1>1. IInv => TypeOK
  <2> SUFFICES ASSUME IInv PROVE TypeOK
    OBVIOUS
  <2>1. StatusOf(dac) \in Statuses /\ dac.dry \in BOOLEAN /\ dac.begun \in BOOLEAN
    BY DEF IInv, Typed, StatusOf, Statuses, Dacs
  <2> QED
    BY <2>1 DEF IInv, Typed, TypeOK
<1> QED
  BY <1>1, AlwaysIInv, PTL

\* The answers still to be read, in three parts.
LEMMA UnreadFirst ==
    ASSUME Typed
    PROVE  /\ wire # <<>> => Unread[1] = Answers(wire[1])
           /\ wire = <<>> /\ link = "open" => Unread[1] = "?"
           /\ wire = <<>> /\ link # "open" /\ inbox # <<>> => Unread[1] = inbox[1].op
           /\ link # "open" => Len(Unread) = Len(wire) + Len(inbox)
<1> DEFINE a == [i \in 1..Len(wire) |->
                   IF wire[i].reply \in {"text", "junk"} THEN "v" ELSE wire[i].op]
           b == IF link = "open" THEN <<"?">> ELSE <<>>
           c == [i \in 1..Len(inbox) |-> inbox[i].op]
<1>1. /\ Len(wire) \in Nat /\ \A i \in 1..Len(wire) : wire[i] \in Replies
      /\ Len(inbox) \in Nat /\ \A i \in 1..Len(inbox) : inbox[i] \in Commands
  BY EmptyFacts, ElementOfSeq DEF Typed
<1>2. "v" \in Opcodes /\ "?" \in Opcodes
  BY DEF Opcodes
<1>3. a \in Seq(Opcodes) /\ Len(a) = Len(wire)
  <2>1. \A i \in 1..Len(wire) : wire[i].op \in Opcodes
    BY <1>1 DEF Replies
  <2> QED
    BY <1>1, <1>2, <2>1
<1>4. c \in Seq(Opcodes) /\ Len(c) = Len(inbox)
  <2>1. \A i \in 1..Len(inbox) : inbox[i].op \in Opcodes
    BY <1>1 DEF Commands
  <2> QED
    BY <1>1, <2>1
<1>5. b \in Seq(Opcodes) /\ Len(b) = IF link = "open" THEN 1 ELSE 0
  BY <1>2, EmptySeq
<1>6. link = "open" => b[1] = "?"
  OBVIOUS
<1>7. /\ wire # <<>> => Len(wire) > 0 /\ a[1] = Answers(wire[1])
      /\ inbox # <<>> => Len(inbox) > 0 /\ c[1] = inbox[1].op
      /\ wire = <<>> => Len(wire) = 0
  <2>1. /\ wire = <<>> <=> Len(wire) = 0
        /\ inbox = <<>> <=> Len(inbox) = 0
    BY EmptyFacts DEF Typed
  <2> QED
    BY <1>1, <2>1 DEF Answers
<1>8. Unread = a \o b \o c
  BY DEF Unread
<1> HIDE DEF a, b, c
<1>9. /\ a \o b \in Seq(Opcodes) /\ Len(a \o b) = Len(a) + Len(b)
      /\ \A i \in 1 .. Len(a) + Len(b) : (a \o b)[i] = IF i <= Len(a) THEN a[i] ELSE b[i - Len(a)]
  BY <1>3, <1>5, ConcatProperties
<1> DEFINE ab == a \o b
<1> HIDE DEF ab
<1>10. /\ Len(ab \o c) = Len(ab) + Len(c)
       /\ \A i \in 1 .. Len(ab) + Len(c) : (ab \o c)[i] = IF i <= Len(ab) THEN ab[i] ELSE c[i - Len(ab)]
  <2>1. ab \in Seq(Opcodes)
    BY <1>9 DEF ab
  <2> QED
    BY <1>4, <2>1, ConcatProperties
<1>11. ab \in Seq(Opcodes) /\ Len(ab) = Len(a) + Len(b)
       /\ (Len(a) > 0 => ab[1] = a[1]) /\ (Len(a) = 0 /\ Len(b) > 0 => ab[1] = b[1])
  BY <1>1, <1>3, <1>5, <1>9 DEF ab
<1>12. Unread = ab \o c
  BY <1>8 DEF ab
<1> QED
  BY <1>1, <1>3, <1>4, <1>5, <1>6, <1>7, <1>10, <1>11, <1>12

\* sendCommand pairs answers and commands by opcode alone, and that is enough:
\* whatever times out and however late its answer, the next answer is not read
\* as that of a stop, clear, prepare, begin or data command it does not belong
\* to, for any number of failures.
THEOREM NoAnswerMistaken == Spec => []AnswersNotMistaken
<1>1. IInv => AnswersNotMistaken
  <2> SUFFICES ASSUME IInv, pc = "await", Len(Unread) > 1, cmd.op # "?"
               PROVE  Unread[1] # cmd.op
    BY DEF AnswersNotMistaken
  <2>a. /\ Typed /\ InOrder /\ cmd.op \notin Stale /\ "?" \in Stale
        /\ Len(wire) \in Nat /\ Len(inbox) \in Nat
        /\ (wire = <<>> <=> Len(wire) = 0) /\ (inbox = <<>> <=> Len(inbox) = 0)
    BY EmptyFacts DEF IInv, InOrder, Typed, Stale
  <2>1. CASE wire # <<>> /\ inbox # <<>>
    <3>1. WireStale /\ 1 \in 1..Len(wire)
      BY <2>a, <2>1 DEF InOrder
    <3> QED
      BY <2>a, <2>1, <3>1, UnreadFirst DEF WireStale
  <2>2. CASE wire # <<>> /\ inbox = <<>>
    <3>1. link = "greeted"
      BY <2>a, <2>2 DEF InOrder
    <3>2. Len(wire) > 1
      BY <2>a, <2>2, <3>1, UnreadFirst
    <3>3. Answers(wire[1]) \in Stale
      BY <2>a, <3>2 DEF InOrder
    <3> QED
      BY <2>a, <2>2, <3>3, UnreadFirst
  <2>3. CASE wire = <<>> /\ link = "open"
    BY <2>a, <2>3, UnreadFirst
  <2>4. CASE wire = <<>> /\ link # "open"
    <3>1. Len(inbox) > 1
      BY <2>a, <2>4, UnreadFirst
    <3>2. inbox[1].op \in Stale
      BY <2>a, <3>1 DEF InOrder
    <3> QED
      BY <2>a, <2>4, <3>1, <3>2, UnreadFirst
  <2> QED
    BY <2>1, <2>2, <2>3, <2>4
<1> QED
  BY <1>1, AlwaysIInv, PTL

\* sendOrderlyStopBeforeClose, with the loop's knowledge of the DAC, leaves no
\* stream of ours playing behind a worker that returns, unless something failed.
THEOREM StopsWhatItBegan == Spec => []ShutdownStopsPlayback
<1>1. IInv => ShutdownStopsPlayback
  BY DEF IInv, Undisturbed, Quiet, Released, PlaysOurs, ShutdownStopsPlayback
<1> QED
  BY <1>1, AlwaysIInv, PTL

\* resetStartupBlank is called often enough: every restart of a DAC that starved
\* begins with blanked points, through lost, late and refused commands.
THEOREM RestartsBlanked == Spec => RestartIsBlanked
<1>1. IInv /\ [Next]_vars => [dac.dry /\ dac'.full > dac.full => Head(inbox).lead]_vars
  <2> SUFFICES ASSUME IInv, Next, dac.dry, dac'.full > dac.full
               PROVE  Head(inbox).lead
    OBVIOUS
  <2>a. dac \in Dacs /\ dac.full = 0 /\ Typed /\ dac.pb # "playing" /\ Capacity \in Nat
    BY EtherDreamAssumption DEF IInv, Typed, DacSane
  <2>1. CASE DacServes
    <3> DEFINE c == Head(inbox)
    <3>1. inbox # <<>> /\ c \in Commands
      BY <2>1, <2>a, Serves
    <3>2. PICK a : Served(dac, c, dac', a)
      BY <2>1, <2>a, Serves
    <3>3. c = inbox[1] /\ Len(inbox) \in Nat \ {0}
      BY <2>a, <3>1, TailFacts DEF Typed
    <3> HIDE DEF c
    <3>4. c.op = "d" /\ dac.pb # "idle"
      <4> SUFFICES ASSUME ~(c.op = "d" /\ dac.pb # "idle") PROVE FALSE
        OBVIOUS
      <4>1. \/ dac' = dac
            \/ dac' = [dac EXCEPT !.le = "ready"]
            \/ dac' = [dac EXCEPT !.pb = "idle", !.full = 0, !.bad = FALSE]
            \/ dac' = [dac EXCEPT !.pb = "prepared", !.full = 0, !.under = FALSE]
            \/ dac' = [dac EXCEPT !.pb = "playing", !.begun = TRUE]
        BY <3>2 DEF Served
      <4>2. dac'.full = dac.full \/ dac'.full = 0
        BY <2>a, <4>1 DEF Dacs
      <4> QED
        BY <2>a, <4>2
    <3>5. c.lead
      BY <3>3, <3>4 DEF IInv, Blanking, UnledRefused
    <3> QED
      BY <3>5 DEF c
  <2>2. CASE Tick
    BY <2>2, <2>a, Ticks
  <2>3. CASE DacUpset \/ WarmedUp \/ Connect
    <3>1. dac'.full = dac.full \/ dac'.full = 0
      BY <2>3, <2>a, DacAlone DEF Dacs
    <3> QED
      BY <2>a, <3>1
  <2>4. CASE ~(DacServes \/ Tick \/ DacUpset \/ WarmedUp \/ Connect)
    <3>1. dac' = dac
      BY <2>4 DEF Next, Worker, Failure, Return, Greeted, GreetingCancelled, FirmwareRead,
         SendAction, SyncPointRate, PollStatus, SendPoints, LeaveLoop, ReceiveAck, ReceiveNak,
         ReceiveMismatch, ConnectFails, GreetingTimeout, FirmwareTimeout, ResponseTimeout,
         DacGreets, StopThread, SetPointRate, SetTargetLatency
    <3> QED
      BY <2>a, <3>1
  <2> QED
    BY <2>1, <2>2, <2>3, <2>4
<1> QED
  BY <1>1, Initially, Inductive, PTL DEF Spec, RestartIsBlanked
=============================================================================
