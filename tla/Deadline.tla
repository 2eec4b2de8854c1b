------------------------------ MODULE Deadline ------------------------------
(***************************************************************************)
(* net::with_deadline and the TcpClient and UdpSocket calls made of it.    *)
(*                                                                         *)
(* A client thread blocks in a call while NetService's one I/O thread runs *)
(* handlers: the one that starts the operation and its timer, the one that *)
(* takes a step of the operation and the one of the timer.  Handlers of a  *)
(* socket run in the order in which they became ready; in which order a    *)
(* packet and the expiry of a timer make theirs ready is up to the kernel. *)
(* TcpClient's reads and writes are composed: the handler of each partial  *)
(* transfer starts the next one.  socket.cancel() ends only a transfer     *)
(* that is pending in the kernel at that moment.                           *)
(***************************************************************************)
EXTENDS Integers, Sequences, SequencesExt

CONSTANTS
    Size,      \* bytes of a read_exact or write_all
    MaxBytes,  \* bytes the peer sends in one behaviour
    MaxCalls   \* calls the client makes in one behaviour

ASSUME DeadlineAssumption ==
    /\ Size \in Nat \ {0}
    /\ MaxBytes \in Nat
    /\ MaxCalls \in Nat

VARIABLES
    call,     \* the call being made, or 0 while the client is in none
    calls,    \* calls made so far
    kind,     \* which function the call is of
    st,       \* State of each call: done, timeoutRequested, ec
    tasks,    \* handlers ready to run on the I/O thread, in order
    inKernel, \* the call whose transfer is pending in the kernel, or 0
    armed,    \* the call whose timer is running, or 0
    got,      \* bytes the composed operation has collected
    isOpen,   \* socket.is_open()
    unread,   \* bytes received by the kernel and not read
    sent,     \* bytes the peer has sent
    taken,    \* bytes read out of the kernel
    bytesOut  \* bytes told to the client: bytesTransferredOut

deadlineVars == <<call, calls, kind, st, tasks, inKernel, armed, got, isOpen,
                  unread, sent, taken, bytesOut>>

Calls == 1 .. MaxCalls
Kinds == {"connect", "read", "write", "datagram"}
Composed == {"read", "write"}
Codes == {"would_block", "ok", "timed_out", "aborted", "failed"}
Task == [h : {"start", "timer", "timer_aborted"}, c : Calls]
        \cup [h : {"step"}, c : Calls, ec : Codes, n : 0 .. Size]

\* Steps an operation of the kind needs: its bytes, or one.
Need(k) == IF k \in Composed THEN Size ELSE 1

NewState == [done |-> FALSE, timeoutRequested |-> FALSE, ec |-> "would_block"]

DeadlineInit ==
    /\ call = 0
    /\ calls = 0
    /\ kind = "connect"
    /\ st = [c \in Calls |-> NewState]
    /\ tasks = << >>
    /\ inKernel = 0
    /\ armed = 0
    /\ got = 0
    /\ isOpen = FALSE
    /\ unread = 0
    /\ sent = 0
    /\ taken = 0
    /\ bytesOut = 0

-----------------------------------------------------------------------------
(* The client thread.                                                      *)

\* with_deadline posts the start of the operation and waits.  connect() first
\* closes the socket and makes a new one, and what the old connection had
\* received is gone with it.
Call(k) ==
    /\ call = 0
    /\ calls < MaxCalls
    /\ calls' = calls + 1
    /\ call' = calls + 1
    /\ kind' = k
    /\ tasks' = Append(tasks, [h |-> "start", c |-> calls + 1])
    /\ unread' = IF k = "connect" THEN 0 ELSE unread
    /\ isOpen' = IF k = "connect" THEN FALSE ELSE isOpen
    /\ UNCHANGED <<st, inKernel, armed, got, sent, taken, bytesOut>>

\* Mutant: a read that failed reports no bytes.
CountIfComplete == IF kind = "read" /\ st[call].ec = "ok" THEN got ELSE 0

\* bytesTransferredOut
BytesTransferred == IF kind = "read" THEN got ELSE 0

\* The wait on the condition variable ends.  read_exact copies out the byte
\* count; a connect that failed closes the socket.
Return ==
    /\ call # 0
    /\ st[call].done
    /\ call' = 0
    /\ bytesOut' = bytesOut + BytesTransferred
    /\ IF kind = "connect" /\ st[call].ec # "ok"
       THEN isOpen' = FALSE /\ unread' = 0
       ELSE UNCHANGED <<isOpen, unread>>
    /\ got' = 0
    /\ UNCHANGED <<calls, kind, st, tasks, inKernel, armed, sent, taken>>

\* UdpSocket::open_v4 and bind_any.
Open ==
    /\ call = 0
    /\ ~isOpen
    /\ isOpen' = TRUE
    /\ UNCHANGED <<call, calls, kind, st, tasks, inKernel, armed, got, unread, sent, taken,
                   bytesOut>>

\* close() between calls.
CloseSocket ==
    /\ call = 0
    /\ isOpen
    /\ isOpen' = FALSE
    /\ unread' = 0
    /\ UNCHANGED <<call, calls, kind, st, tasks, inKernel, armed, got, sent, taken, bytesOut>>

-----------------------------------------------------------------------------
(* The I/O thread.                                                         *)

Head1(h) == tasks # << >> /\ Head(tasks).h = h

\* timer->cancel(): a timer that is still running completes as aborted; one
\* whose expiry is already among the tasks is not affected.
CancelTimer(rest) ==
    /\ armed' = 0
    /\ tasks' = IF armed # 0 THEN Append(rest, [h |-> "timer_aborted", c |-> armed])
                             ELSE rest

\* Mutant: the operation is started without its timer.
StartUntimed ==
    /\ Head1("start")
    /\ inKernel' = Head(tasks).c
    /\ isOpen' = (isOpen \/ kind = "connect")
    /\ tasks' = Tail(tasks)
    /\ UNCHANGED <<call, calls, kind, st, armed, got, unread, sent, taken, bytesOut>>

\* The posted handler arms the timer and starts the operation.
Start ==
    /\ Head1("start")
    /\ LET c == Head(tasks).c IN
         /\ armed' = c
         /\ inKernel' = c
         /\ isOpen' = (isOpen \/ kind = "connect")
         /\ tasks' = Tail(tasks)
    /\ UNCHANGED <<call, calls, kind, st, got, unread, sent, taken, bytesOut>>

\* Starting the operation throws: the call ends with the error.
StartThrows ==
    /\ Head1("start")
    /\ LET c == Head(tasks).c IN
         /\ st' = [st EXCEPT ![c].ec = "failed", ![c].done = TRUE]
         /\ tasks' = Append(Tail(tasks), [h |-> "timer_aborted", c |-> c])
    /\ UNCHANGED <<call, calls, kind, inKernel, armed, got, isOpen, unread, sent, taken, bytesOut>>

\* op_handler
OpHandler(c, ec) ==
    IF st[c].done
    THEN /\ tasks' = Tail(tasks)
         /\ UNCHANGED <<st, armed>>
    ELSE /\ st' = [st EXCEPT ![c].ec = IF st[c].timeoutRequested THEN "timed_out" ELSE ec,
                             ![c].done = TRUE]
         /\ CancelTimer(Tail(tasks))

\* A transfer of the operation has ended.  A composed operation that is
\* neither finished nor in error goes on with the next transfer.
Step ==
    /\ Head1("step")
    /\ LET t == Head(tasks) IN
         /\ got' = got + t.n
         /\ IF t.ec = "ok" /\ got + t.n < Need(kind)
            THEN /\ inKernel' = t.c
                 /\ tasks' = Tail(tasks)
                 /\ UNCHANGED <<st, armed>>
            ELSE /\ OpHandler(t.c, t.ec)
                 /\ UNCHANGED inKernel
    /\ UNCHANGED <<call, calls, kind, isOpen, unread, sent, taken, bytesOut>>

\* Mutant: the timer's handler reports the timeout itself.
FinishAsTimedOut(c) ==
    st' = [st EXCEPT ![c].timeoutRequested = TRUE, ![c].done = TRUE, ![c].ec = "timed_out"]

\* timeoutRequested tells op_handler how to report the end of the operation.
RequestTimeout(c) == st' = [st EXCEPT ![c].timeoutRequested = TRUE]

\* cancel(): the transfer that is pending now, if there is one, is aborted.
Cancel(rest) ==
    /\ inKernel' = 0
    /\ tasks' = IF inKernel # 0
                THEN Append(rest, [h |-> "step", c |-> inKernel, ec |-> "aborted", n |-> 0])
                ELSE rest

\* The timer's handler, which does nothing once the call is done.
Timer ==
    /\ Head1("timer")
    /\ LET c == Head(tasks).c IN
         IF st[c].done
         THEN /\ tasks' = Tail(tasks)
              /\ UNCHANGED <<st, inKernel>>
         ELSE /\ RequestTimeout(c)
              /\ Cancel(Tail(tasks))
    /\ UNCHANGED <<call, calls, kind, armed, got, isOpen, unread, sent, taken, bytesOut>>

\* The handler of a cancelled timer returns at once.
TimerAborted ==
    /\ Head1("timer_aborted")
    /\ tasks' = Tail(tasks)
    /\ UNCHANGED <<call, calls, kind, st, inKernel, armed, got, isOpen,
                   unread, sent, taken, bytesOut>>

RunHandler == Start \/ Step \/ Timer \/ TimerAborted

-----------------------------------------------------------------------------
(* The kernel and the peer.                                                *)

PeerSends ==
    /\ isOpen
    /\ sent < MaxBytes
    /\ sent' = sent + 1
    /\ unread' = unread + 1
    /\ UNCHANGED <<call, calls, kind, st, tasks, inKernel, armed, got, isOpen, taken, bytesOut>>

\* What is left of the buffer.
Remaining == Need(kind) - got

\* The pending transfer moves some of the bytes it still needs.
Transfer(n) ==
    /\ inKernel # 0
    /\ isOpen
    /\ n <= Remaining
    /\ kind = "read" => n <= unread
    /\ unread' = IF kind = "read" THEN unread - n ELSE unread
    /\ taken' = IF kind = "read" THEN taken + n ELSE taken
    /\ tasks' = Append(tasks, [h |-> "step", c |-> inKernel, ec |-> "ok", n |-> n])
    /\ inKernel' = 0
    /\ UNCHANGED <<call, calls, kind, st, armed, got, isOpen, sent, bytesOut>>

\* The kernel hands over what it has received.
Deliver == kind = "read" /\ \E n \in 1 .. Size : Transfer(n)

\* Refused, reset, closed by the peer, or made on a closed socket.
TransferFails ==
    /\ inKernel # 0
    /\ tasks' = Append(tasks, [h |-> "step", c |-> inKernel, ec |-> "failed", n |-> 0])
    /\ inKernel' = 0
    /\ UNCHANGED <<call, calls, kind, st, armed, got, isOpen, unread, sent, taken, bytesOut>>

Expire ==
    /\ armed # 0
    /\ tasks' = Append(tasks, [h |-> "timer", c |-> armed])
    /\ armed' = 0
    /\ UNCHANGED <<call, calls, kind, st, inKernel, got, isOpen, unread, sent, taken, bytesOut>>

-----------------------------------------------------------------------------

DeadlineNext ==
    \/ \E k \in Kinds : Call(k)
    \/ Return
    \/ Open
    \/ CloseSocket
    \/ Start
    \/ StartThrows
    \/ Step
    \/ Timer
    \/ TimerAborted
    \/ PeerSends
    \/ \E n \in 1 .. Size : Transfer(n)
    \/ TransferFails
    \/ Expire

\* The I/O thread runs what is ready, the kernel hands over what it has, a
\* deadline passes, and a client that was notified returns.  The peer promises
\* nothing.
DeadlineSpec ==
    /\ DeadlineInit
    /\ [][DeadlineNext]_deadlineVars
    /\ WF_deadlineVars(RunHandler)
    /\ WF_deadlineVars(Deliver)
    /\ WF_deadlineVars(Expire)
    /\ WF_deadlineVars(Return)

-----------------------------------------------------------------------------
(* Properties.                                                             *)

\* Where the handlers of transfers that have ended are among the tasks.
Steps == {i \in DOMAIN tasks : tasks[i].h = "step"}

\* Bytes read out of the socket are all told to the client, those of a read
\* that timed out included, which is what lets it close the connection
\* instead of reading the middle of an answer as the start of the next one;
\* until then the operation has collected them, or the handler of its one
\* transfer is about to.
BytesAccounted ==
    LET reading == call # 0 /\ kind = "read" IN
    /\ \A i, j \in Steps : i = j
    /\ Steps = {} \/ ~reading => taken = bytesOut + (IF reading THEN got ELSE 0)
    /\ reading => \A i \in Steps : taken = bytesOut + got + tasks[i].n

\* The kinds of the variables.
StateType == [done : BOOLEAN, timeoutRequested : BOOLEAN, ec : Codes]

Typed ==
    /\ call \in 0 .. MaxCalls
    /\ calls \in 0 .. MaxCalls
    /\ kind \in Kinds
    /\ st \in [Calls -> StateType]
    /\ tasks \in Seq(Task)
    /\ inKernel \in 0 .. MaxCalls
    /\ armed \in 0 .. MaxCalls
    /\ got \in 0 .. Size
    /\ isOpen \in BOOLEAN
    /\ unread \in Nat
    /\ sent \in 0 .. MaxBytes
    /\ taken \in Nat
    /\ bytesOut \in Nat

\* Every variable keeps its kind, a read never collects more than it asked for
\* and no byte it took is lost to the caller, however the call ended.
DeadlineTypeOK == Typed /\ BytesAccounted

\* The calls whose operation can still touch the client's buffer: a transfer
\* is pending in the kernel or its handler has not run.
InFlight == {t.c : t \in {u \in ToSet(tasks) : u.h \in {"start", "step"}}}
            \cup ({inKernel} \ {0})

\* "caller-owned buffers cannot outlive pending I/O": no operation is in
\* flight but that of the call the client is still blocked in, so a call that
\* was timed out has let go of the buffer when it returns.
BuffersReleased == InFlight \subseteq {call} \ {0}

\* A connect, a datagram sent or received returns, whatever the peer does.
SingleStepReturns == (call # 0 /\ kind \notin Composed) ~> (call = 0)

\* What TcpClient says of its reads and writes: they return although the peer
\* stays silent.
DeadlineKept == (call # 0) ~> (call = 0)

=============================================================================
