--------------------------- MODULE NetworkProofs ---------------------------
(***************************************************************************)
(* The network calls and the LaserCube that is driven over the network.    *)
(*                                                                         *)
(* For reads of any size and any number of calls: an operation that is in  *)
(* flight belongs to the call the client is blocked in, and every byte     *)
(* taken out of the socket reaches the client.                             *)
(*                                                                         *)
(* For any number of message numbers, any device buffer and any rates: the *)
(* count of packets in flight stays exact, no more is sent than the device *)
(* can hold, and the rate assumed is one the device was told.              *)
(***************************************************************************)
EXTENDS Deadline, LaserCubeNet, SequenceTheorems, FiniteSetTheorems, TLAPS

-----------------------------------------------------------------------------
(* A call with a deadline.                                                  *)

Operations == {"start", "step"}

\* No handler of an operation is among the tasks s, or x is the only one.
NoOperation(s) == \A i \in DOMAIN s : s[i].h \notin Operations
OneOperation(s, x) ==
    /\ x.h \in Operations
    /\ \E i \in DOMAIN s : s[i] = x /\ \A j \in DOMAIN s : j # i => s[j].h \notin Operations

\* The bytes a read has collected, when there is one.
Collected == IF call # 0 /\ kind = "read" THEN got ELSE 0

Blocked == call # 0 /\ ~st[call].done

\* The operation is nowhere, in the kernel, or one task of the I/O thread; in
\* the last two cases its call has not ended.
Operation ==
    \/ NoOperation(tasks) /\ inKernel = 0 /\ taken = bytesOut + Collected
    \/ /\ NoOperation(tasks) /\ inKernel = call /\ Blocked
       /\ taken = bytesOut + Collected
    \/ \E x \in Task :
         /\ OneOperation(tasks, x) /\ inKernel = 0
         /\ x.c = call /\ Blocked
         /\ x.h = "start" => taken = bytesOut + Collected
         /\ x.h = "step" =>
              /\ got + x.n <= Need(kind)
              /\ taken = bytesOut + (IF kind = "read" THEN got + x.n ELSE 0)

\* The call being made is the last one; later ones are new; what is collected
\* fits.
Progress ==
    /\ call = 0 \/ call = calls
    /\ call = 0 => got = 0
    /\ call # 0 => got <= Need(kind)
    /\ \A c \in Calls : c > calls => ~st[c].done

DeadlineIInv == Typed /\ Progress /\ Operation


-----------------------------------------------------------------------------
(* The queue of the I/O thread.                                             *)

\* What is left of a queue is the queue without its head.
LEMMA TailFacts ==
    ASSUME NEW s \in Seq(Task), s # << >>
    PROVE  /\ Tail(s) \in Seq(Task)
           /\ Head(s) \in Task /\ Head(s) = s[1] /\ 1 \in DOMAIN s
           /\ \A i \in DOMAIN Tail(s) : i + 1 \in DOMAIN s /\ i + 1 # 1 /\ Tail(s)[i] = s[i + 1]
           /\ \A i \in DOMAIN s : i # 1 => i - 1 \in DOMAIN Tail(s) /\ Tail(s)[i - 1] = s[i]
<1>1. /\ Head(s) \in Task /\ Tail(s) \in Seq(Task)
      /\ Len(Tail(s)) = Len(s) - 1
      /\ \A i \in 1 .. Len(Tail(s)) : Tail(s)[i] = s[i + 1]
  BY HeadTailProperties
<1>2. Head(s) = s[1]
  OBVIOUS
<1>3. /\ Len(s) \in Nat /\ Len(s) # 0
      /\ DOMAIN s = 1 .. Len(s) /\ DOMAIN Tail(s) = 1 .. Len(Tail(s))
  BY <1>1, LenProperties, EmptySeq
<1> QED
  BY <1>1, <1>2, <1>3

\* An appended task comes after all the others.
LEMMA AppendFacts ==
    ASSUME NEW s \in Seq(Task), NEW x \in Task
    PROVE  /\ Append(s, x) \in Seq(Task)
           /\ \E n \in DOMAIN Append(s, x) :
                 /\ Append(s, x)[n] = x
                 /\ \A i \in DOMAIN Append(s, x) :
                       i # n => i \in DOMAIN s /\ Append(s, x)[i] = s[i]
                 /\ \A i \in DOMAIN s :
                       i # n /\ i \in DOMAIN Append(s, x) /\ Append(s, x)[i] = s[i]
<1>1. /\ Append(s, x) \in Seq(Task)
      /\ Len(Append(s, x)) = Len(s) + 1
      /\ \A i \in 1 .. Len(s) : Append(s, x)[i] = s[i]
      /\ Append(s, x)[Len(s) + 1] = x
  BY AppendProperties
<1>2. /\ Len(s) \in Nat /\ DOMAIN s = 1 .. Len(s)
      /\ DOMAIN Append(s, x) = 1 .. (Len(s) + 1)
  BY <1>1, LenProperties
<1> QED
  BY <1>1, <1>2

\* Running a task that is no operation changes nothing about the operation.
LEMMA TailKeeps ==
    ASSUME NEW s \in Seq(Task), s # << >>, Head(s).h \notin Operations
    PROVE  /\ NoOperation(s) => NoOperation(Tail(s))
           /\ \A x \in Task : OneOperation(s, x) => OneOperation(Tail(s), x)
<1>1. NoOperation(s) => NoOperation(Tail(s))
  BY TailFacts DEF NoOperation
<1>2. ASSUME NEW x \in Task, OneOperation(s, x)
      PROVE  OneOperation(Tail(s), x)
  <2>1. PICK i \in DOMAIN s : s[i] = x /\ \A j \in DOMAIN s : j # i => s[j].h \notin Operations
    BY <1>2 DEF OneOperation
  <2>2. i # 1 /\ x.h \in Operations
    BY <1>2, <2>1, TailFacts DEF OneOperation
  <2>3. i \in Int /\ \A j \in DOMAIN Tail(s) : j \in Int
    BY TailFacts, LenProperties
  <2>4. i - 1 \in DOMAIN Tail(s) /\ Tail(s)[i - 1] = x
    BY <2>1, <2>2, TailFacts
  <2>5. \A j \in DOMAIN Tail(s) : j # i - 1 => Tail(s)[j].h \notin Operations
    BY <2>1, <2>3, TailFacts
  <2> QED
    BY <2>2, <2>4, <2>5 DEF OneOperation
<1> QED
  BY <1>1, <1>2

\* Running the task of the operation leaves none.
LEMMA TailTakes ==
    ASSUME NEW s \in Seq(Task), s # << >>, Head(s).h \in Operations
    PROVE  /\ ~NoOperation(s)
           /\ \A x \in Task : OneOperation(s, x) => Head(s) = x /\ NoOperation(Tail(s))
<1>1. ~NoOperation(s)
  BY TailFacts DEF NoOperation
<1>2. ASSUME NEW x \in Task, OneOperation(s, x)
      PROVE  Head(s) = x /\ NoOperation(Tail(s))
  <2>1. PICK i \in DOMAIN s : s[i] = x /\ \A j \in DOMAIN s : j # i => s[j].h \notin Operations
    BY <1>2 DEF OneOperation
  <2>2. i = 1
    BY <2>1, TailFacts
  <2> QED
    BY <2>1, <2>2, TailFacts DEF NoOperation
<1> QED
  BY <1>1, <1>2

\* Appending a task of a timer changes nothing about the operation, appending
\* one of an operation makes it the only one.
LEMMA AppendKeeps ==
    ASSUME NEW s \in Seq(Task), NEW y \in Task
    PROVE  /\ y.h \notin Operations /\ NoOperation(s) => NoOperation(Append(s, y))
           /\ y.h \notin Operations =>
                 \A x \in Task : OneOperation(s, x) => OneOperation(Append(s, y), x)
           /\ y.h \in Operations /\ NoOperation(s) => OneOperation(Append(s, y), y)
<1>1. PICK n \in DOMAIN Append(s, y) :
        /\ Append(s, y)[n] = y
        /\ \A i \in DOMAIN Append(s, y) : i # n => i \in DOMAIN s /\ Append(s, y)[i] = s[i]
        /\ \A i \in DOMAIN s : i # n /\ i \in DOMAIN Append(s, y) /\ Append(s, y)[i] = s[i]
  BY AppendFacts
<1>2. ASSUME y.h \notin Operations, NoOperation(s)
      PROVE  NoOperation(Append(s, y))
  BY <1>1, <1>2 DEF NoOperation
<1>3. ASSUME y.h \notin Operations, NEW x \in Task, OneOperation(s, x)
      PROVE  OneOperation(Append(s, y), x)
  <2>1. PICK i \in DOMAIN s : s[i] = x /\ \A j \in DOMAIN s : j # i => s[j].h \notin Operations
    BY <1>3 DEF OneOperation
  <2>2. i \in DOMAIN Append(s, y) /\ Append(s, y)[i] = x
    BY <1>1, <2>1
  <2>3. \A j \in DOMAIN Append(s, y) : j # i => Append(s, y)[j].h \notin Operations
    BY <1>1, <1>3, <2>1
  <2> QED
    BY <1>3, <2>2, <2>3 DEF OneOperation
<1>4. ASSUME y.h \in Operations, NoOperation(s)
      PROVE  OneOperation(Append(s, y), y)
  BY <1>1, <1>4 DEF NoOperation, OneOperation
<1> QED
  BY <1>2, <1>3, <1>4

-----------------------------------------------------------------------------
(* The state of a call.                                                     *)

\* Ending a call, or asking for its timeout, keeps the kind of its state.
LEMMA StateTyped ==
    ASSUME NEW f \in [Calls -> StateType], NEW c \in Calls, NEW e \in Codes
    PROVE  /\ [f EXCEPT ![c].ec = e, ![c].done = TRUE] \in [Calls -> StateType]
           /\ [f EXCEPT ![c].timeoutRequested = TRUE] \in [Calls -> StateType]
BY Zenon DEF StateType

\* Asking for the timeout of a call does not end it, and ending one ends no
\* other.
LEMMA StateDone ==
    ASSUME NEW f \in [Calls -> StateType], NEW c \in Calls, NEW e, NEW d \in Calls
    PROVE  /\ d # c => [f EXCEPT ![c].ec = e, ![c].done = TRUE][d] = f[d]
           /\ [f EXCEPT ![c].timeoutRequested = TRUE][d].done = f[d].done
BY DEF StateType

\* A task has the fields of its kind.
LEMMA TaskFields ==
    ASSUME NEW t \in Task
    PROVE  /\ t.c \in Calls /\ t.h \in {"start", "timer", "timer_aborted", "step"}
           /\ t.h = "step" => t.ec \in Codes /\ t.n \in 0 .. Size
BY DEF Task

-----------------------------------------------------------------------------
(* The invariant is inductive: one lemma per action that moves the          *)
(* operation, and one for the rest.                                         *)

\* The call is posted when no operation is left of an earlier one.
LEMMA CallStep ==
    ASSUME DeadlineIInv, NEW k \in Kinds, Call(k)
    PROVE  DeadlineIInv'
<1> DEFINE x == [h |-> "start", c |-> calls + 1]
<1>a. Typed /\ Progress /\ Operation
  BY DEF DeadlineIInv
<1>b. calls + 1 \in Calls /\ call = 0 /\ got = 0 /\ ~st[calls + 1].done
  <2>1. calls \in Nat /\ calls < MaxCalls /\ call = 0
    BY <1>a DEF Call, Typed
  <2>2. calls + 1 \in Calls /\ calls + 1 > calls
    BY <2>1, DeadlineAssumption DEF Calls
  <2> QED
    BY <1>a, <2>1, <2>2 DEF Progress
<1>c. NoOperation(tasks) /\ inKernel = 0 /\ taken = bytesOut
  BY <1>a, <1>b DEF Operation, Blocked, Collected, Typed
<1>d. x \in Task /\ x.h = "start" /\ x.c = calls + 1
  BY <1>b DEF Task
<1>e. tasks' = Append(tasks, x) /\ tasks \in Seq(Task)
  BY <1>a DEF Call, Typed
<1> HIDE DEF x
<1>1. Typed'
  <2>1. tasks' \in Seq(Task)
    BY <1>d, <1>e, AppendFacts
  <2>2. isOpen' \in BOOLEAN
    BY <1>a, Zenon DEF Call, Typed
  <2>3. unread' \in Nat
    BY <1>a DEF Call, Typed
  <2>4. call' \in 0 .. MaxCalls /\ calls' \in 0 .. MaxCalls /\ kind' \in Kinds
    BY <1>b DEF Call, Calls
  <2>5. UNCHANGED <<st, inKernel, armed, got, sent, taken, bytesOut>>
    BY DEF Call
  <2> QED
    BY <1>a, <2>1, <2>2, <2>3, <2>4, <2>5 DEF Typed
<1>2. Progress'
  <2>1. calls' = calls + 1 /\ call' = calls + 1 /\ got' = 0 /\ st' = st /\ kind' = k
    BY <1>b DEF Call
  <2>2. 0 <= Need(kind')
    BY DeadlineAssumption DEF Need
  <2>3. \A c \in Calls : c > calls' => c > calls
    BY <1>a, <2>1 DEF Typed, Calls
  <2> QED
    BY <1>a, <1>b, <2>1, <2>2, <2>3 DEF Progress, Calls
<1>3. OneOperation(tasks', x)
  BY <1>c, <1>d, <1>e, AppendKeeps DEF Operations
<1>4. Operation'
  <2>1. /\ call' = calls + 1 /\ inKernel' = 0 /\ st' = st /\ got' = 0
        /\ taken' = taken /\ bytesOut' = bytesOut
    BY <1>b, <1>c DEF Call
  <2>2. Collected' = 0 /\ bytesOut \in Nat /\ calls + 1 # 0
    BY <1>a, <1>b, <2>1 DEF Collected, Typed, Calls
  <2> QED
    BY <1>b, <1>c, <1>d, <1>3, <2>1, <2>2 DEF Operation, Blocked
<1> QED
  BY <1>1, <1>2, <1>4 DEF DeadlineIInv

\* A call returns once its operation has ended, and reports what it read.
LEMMA ReturnStep ==
    ASSUME DeadlineIInv, Return
    PROVE  DeadlineIInv'
<1>a. Typed /\ Progress /\ Operation
  BY DEF DeadlineIInv
<1>b. NoOperation(tasks) /\ inKernel = 0 /\ taken = bytesOut + Collected
  BY <1>a DEF Return, Operation, Blocked
<1>c. bytesOut' = bytesOut + Collected
  BY DEF Return, Collected, BytesTransferred
<1>1. Typed'
  <2>1. bytesOut' \in Nat
    BY <1>a, <1>c DEF Typed, Collected
  <2>2. isOpen' \in BOOLEAN
    BY <1>a, Zenon DEF Return, Typed
  <2>3. unread' \in Nat
    BY <1>a DEF Return, Typed
  <2> QED
    BY <1>a, <2>1, <2>2, <2>3, DeadlineAssumption DEF Return, Typed
<1>2. Progress'
  BY <1>a DEF Return, Progress
<1>3. Operation'
  BY <1>a, <1>b, <1>c DEF Return, Operation, Collected, Typed
<1> QED
  BY <1>1, <1>2, <1>3 DEF DeadlineIInv

\* The operation goes from the queue into the kernel.
LEMMA StartStep ==
    ASSUME DeadlineIInv, Start
    PROVE  DeadlineIInv'
<1>a. Typed /\ Progress /\ Operation /\ tasks \in Seq(Task) /\ tasks # << >>
  BY DEF DeadlineIInv, Typed, Start, Head1
<1>b. Head(tasks).h = "start" /\ Head(tasks) \in Task /\ Tail(tasks) \in Seq(Task)
  BY <1>a, TailFacts DEF Start, Head1
<1>c. /\ NoOperation(Tail(tasks)) /\ inKernel = 0 /\ Head(tasks).c = call /\ Blocked
      /\ taken = bytesOut + Collected
  BY <1>a, <1>b, TailTakes DEF Operation, Operations
<1>1. Typed'
  <2>1. isOpen' \in BOOLEAN
    BY <1>a, Zenon DEF Start, Typed
  <2>2. call \in 0 .. MaxCalls
    BY <1>a DEF Typed
  <2> QED
    BY <1>a, <1>b, <1>c, <2>1, <2>2 DEF Start, Typed
<1>2. Progress'
  BY <1>a DEF Start, Progress
<1>3. Operation'
  BY <1>c DEF Start, Operation, Blocked, Collected
<1> QED
  BY <1>1, <1>2, <1>3 DEF DeadlineIInv

\* Ending the call that is being made keeps the invariant, given that its
\* operation has gone.
LEMMA EndStep ==
    ASSUME DeadlineIInv, NEW e \in Codes, call # 0,
           st' = [st EXCEPT ![call].ec = e, ![call].done = TRUE],
           NoOperation(tasks'), tasks' \in Seq(Task),
           inKernel = 0,
           UNCHANGED <<call, calls, kind, inKernel, isOpen, unread, sent, taken, bytesOut>>,
           got' \in 0 .. Size, got' <= Need(kind), armed' \in 0 .. MaxCalls,
           taken = bytesOut + (IF kind = "read" THEN got' ELSE 0)
    PROVE  DeadlineIInv'
<1>a. Typed /\ Progress
  BY DEF DeadlineIInv
<1>b. call \in Calls
  BY <1>a DEF Typed, Calls
<1>1. Typed'
  BY <1>a, <1>b, StateTyped DEF Typed
<1>2. Progress'
  <2>1. \A c \in Calls : c > calls => c # call
    BY <1>a DEF Typed, Progress, Calls
  <2>2. \A c \in Calls : c # call => st'[c] = st[c]
    BY <1>a, <1>b, StateDone DEF Typed
  <2> QED
    BY <1>a, <2>1, <2>2 DEF Progress
<1>3. Operation'
  BY DEF Operation, Collected
<1> QED
  BY <1>1, <1>2, <1>3 DEF DeadlineIInv

\* The operation never starts; the call ends with the error.
LEMMA StartThrowsStep ==
    ASSUME DeadlineIInv, StartThrows
    PROVE  DeadlineIInv'
<1> DEFINE x == [h |-> "timer_aborted", c |-> call]
<1>a. Typed /\ Progress /\ Operation /\ tasks \in Seq(Task) /\ tasks # << >>
  BY DEF DeadlineIInv, Typed, StartThrows, Head1
<1>b. Head(tasks).h = "start" /\ Head(tasks) \in Task /\ Tail(tasks) \in Seq(Task)
  BY <1>a, TailFacts DEF StartThrows, Head1
<1>c. /\ NoOperation(Tail(tasks)) /\ inKernel = 0 /\ Head(tasks).c = call /\ Blocked
      /\ taken = bytesOut + Collected
  BY <1>a, <1>b, TailTakes DEF Operation, Operations
<1>d. call # 0 /\ call \in Calls
  BY <1>a, <1>c DEF Blocked, Typed, Calls
<1>e. x \in Task /\ x.h \notin Operations
  BY <1>d DEF Task, Operations
<1>f. tasks' = Append(Tail(tasks), x)
  BY <1>c DEF StartThrows
<1> HIDE DEF x
<1>1. NoOperation(tasks') /\ tasks' \in Seq(Task)
  BY <1>b, <1>c, <1>e, <1>f, AppendKeeps, AppendFacts
<1>2. st' = [st EXCEPT ![call].ec = "failed", ![call].done = TRUE] /\ "failed" \in Codes
  BY <1>c DEF StartThrows, Codes
<1>3. got' \in 0 .. Size /\ got' <= Need(kind) /\ armed' \in 0 .. MaxCalls
  BY <1>a, <1>d DEF StartThrows, Typed, Progress
<1>4. taken = bytesOut + (IF kind = "read" THEN got' ELSE 0)
  BY <1>c, <1>d DEF StartThrows, Collected
<1>5. UNCHANGED <<call, calls, kind, inKernel, isOpen, unread, sent, taken, bytesOut>>
  BY DEF StartThrows
<1> QED
  BY <1>c, <1>d, <1>1, <1>2, <1>3, <1>4, <1>5, EndStep

\* A transfer's bytes are collected; the next one starts or the call ends.
LEMMA StepStep ==
    ASSUME DeadlineIInv, Step
    PROVE  DeadlineIInv'
<1> DEFINE t == Head(tasks)
<1>a. Typed /\ Progress /\ Operation /\ tasks \in Seq(Task) /\ tasks # << >>
  BY DEF DeadlineIInv, Typed, Step, Head1
<1>b. t.h = "step" /\ t \in Task /\ Tail(tasks) \in Seq(Task)
  BY <1>a, TailFacts DEF Step, Head1
<1>c. /\ NoOperation(Tail(tasks)) /\ inKernel = 0 /\ t.c = call /\ Blocked
      /\ got + t.n <= Need(kind)
      /\ taken = bytesOut + (IF kind = "read" THEN got + t.n ELSE 0)
  BY <1>a, <1>b, TailTakes DEF Operation, Operations
<1>d. call # 0 /\ call \in Calls /\ ~st[call].done /\ t.ec \in Codes /\ t.n \in 0 .. Size
  BY <1>a, <1>b, <1>c, TaskFields DEF Blocked, Typed, Calls
<1>e. got' = got + t.n /\ got' \in 0 .. Size
  <2>1. got' = got + t.n /\ got \in 0 .. Size
    BY <1>a DEF Step, Typed
  <2>2. Size \in Nat /\ Need(kind) \in 1 .. Size
    BY DeadlineAssumption DEF Need
  <2> QED
    BY <1>c, <1>d, <2>1, <2>2
<1>f. UNCHANGED <<call, calls, kind, isOpen, unread, sent, taken, bytesOut>>
  BY DEF Step
<1>1. CASE t.ec = "ok" /\ got + t.n < Need(kind)
  <2>1. inKernel' = call /\ tasks' = Tail(tasks) /\ UNCHANGED <<st, armed>>
    BY <1>1, <1>c DEF Step
  <2>2. Typed'
    BY <1>a, <1>b, <1>e, <1>f, <2>1 DEF Typed
  <2>3. Progress'
    BY <1>a, <1>c, <1>d, <1>e, <1>f, <2>1 DEF Progress
  <2>4. Operation'
    BY <1>c, <1>d, <1>e, <1>f, <2>1 DEF Operation, Blocked, Collected
  <2> QED
    BY <2>2, <2>3, <2>4 DEF DeadlineIInv
<1>2. CASE ~(t.ec = "ok" /\ got + t.n < Need(kind))
  <2> DEFINE e == IF st[call].timeoutRequested THEN "timed_out" ELSE t.ec
             x == [h |-> "timer_aborted", c |-> armed]
  <2>1. OpHandler(call, t.ec) /\ UNCHANGED inKernel
    BY <1>2, <1>c DEF Step
  <2>2. st' = [st EXCEPT ![call].ec = e, ![call].done = TRUE] /\ CancelTimer(Tail(tasks))
    BY <1>d, <2>1 DEF OpHandler
  <2>3. e \in Codes
    BY <1>d DEF Codes
  <2>4. armed # 0 => x \in Task /\ x.h \notin Operations
    BY <1>a DEF Typed, Calls, Task, Operations
  <2>5. armed' = 0 /\ tasks' = IF armed # 0 THEN Append(Tail(tasks), x) ELSE Tail(tasks)
    BY <2>2 DEF CancelTimer
  <2> HIDE DEF e, x
  <2>6. NoOperation(tasks') /\ tasks' \in Seq(Task)
    BY <1>b, <1>c, <2>4, <2>5, AppendKeeps, AppendFacts
  <2>7. armed' \in 0 .. MaxCalls
    BY <2>5, DeadlineAssumption
  <2>8. got' <= Need(kind) /\ taken = bytesOut + (IF kind = "read" THEN got' ELSE 0)
    BY <1>c, <1>e
  <2> QED
    BY <1>c, <1>d, <1>e, <1>f, <2>1, <2>2, <2>3, <2>6, <2>7, <2>8, EndStep
<1> QED
  BY <1>1, <1>2

\* The kernel ends a transfer: the operation becomes a task again.
LEMMA EndedTransferStep ==
    ASSUME DeadlineIInv, NEW e \in Codes, NEW n \in 0 .. Size, inKernel # 0,
           NEW rest \in Seq(Task), NoOperation(tasks) => NoOperation(rest),
           tasks' = Append(rest, [h |-> "step", c |-> inKernel, ec |-> e, n |-> n]),
           inKernel' = 0, got + n <= Need(kind),
           UNCHANGED <<call, calls, kind, armed, got, isOpen, sent, bytesOut>>,
           unread' \in Nat, taken' \in Nat,
           kind = "read" => taken' = taken + n, kind # "read" => taken' = taken,
           st' \in [Calls -> StateType], \A c \in Calls : st'[c].done = st[c].done
    PROVE  DeadlineIInv'
<1> DEFINE x == [h |-> "step", c |-> inKernel, ec |-> e, n |-> n]
<1>a. Typed /\ Progress /\ Operation
  BY DEF DeadlineIInv
<1>b. NoOperation(tasks) /\ inKernel = call /\ Blocked /\ taken = bytesOut + Collected
  BY <1>a DEF Operation
<1>c. inKernel \in Calls
  BY <1>a DEF Typed, Calls
<1>d. x \in Task /\ x.h = "step" /\ x.c = inKernel /\ x.n = n
  BY <1>c DEF Task
<1> HIDE DEF x
<1>e. tasks' = Append(rest, x)
  BY DEF x
<1>1. OneOperation(tasks', x) /\ tasks' \in Seq(Task)
  BY <1>b, <1>d, <1>e, AppendKeeps, AppendFacts DEF Operations
<1>2. Typed'
  BY <1>a, <1>1, DeadlineAssumption DEF Typed
<1>3. Progress'
  BY <1>a DEF Progress
<1>4. Blocked'
  BY <1>b, <1>c DEF Blocked
<1>5. taken' = bytesOut + (IF kind = "read" THEN got + n ELSE 0)
  BY <1>a, <1>b DEF Blocked, Collected, Typed
<1>6. Operation'
  BY <1>1, <1>4, <1>5, <1>b, <1>d DEF Operation
<1> QED
  BY <1>2, <1>3, <1>6 DEF DeadlineIInv

\* A step that only adds or removes tasks of timers.
LEMMA TimerTasksStep ==
    ASSUME DeadlineIInv, NEW rest \in Seq(Task), tasks' = rest,
           NoOperation(tasks) => NoOperation(rest),
           \A x \in Task : OneOperation(tasks, x) => OneOperation(rest, x),
           UNCHANGED <<call, calls, kind, inKernel, got, sent, taken, bytesOut>>,
           armed' \in 0 .. MaxCalls, isOpen' \in BOOLEAN, unread' \in Nat,
           st' \in [Calls -> StateType], \A c \in Calls : st'[c].done = st[c].done
    PROVE  DeadlineIInv'
<1>a. Typed /\ Progress /\ Operation
  BY DEF DeadlineIInv
<1>1. Typed'
  BY <1>a DEF Typed
<1>2. Progress'
  BY <1>a DEF Progress
<1>3. Blocked => Blocked'
  BY <1>a DEF Blocked, Typed, Calls
<1>4. Collected' = Collected
  BY DEF Collected
<1>5. Operation'
  <2>1. CASE NoOperation(tasks) /\ inKernel = 0 /\ taken = bytesOut + Collected
    BY <1>4, <2>1 DEF Operation
  <2>2. CASE /\ NoOperation(tasks) /\ inKernel = call /\ Blocked
             /\ taken = bytesOut + Collected
    BY <1>3, <1>4, <2>2 DEF Operation
  <2>3. ASSUME NEW x \in Task,
               OneOperation(tasks, x), inKernel = 0, x.c = call, Blocked,
               x.h = "start" => taken = bytesOut + Collected,
               x.h = "step" =>
                 /\ got + x.n <= Need(kind)
                 /\ taken = bytesOut + (IF kind = "read" THEN got + x.n ELSE 0)
        PROVE  Operation'
    <3>1. OneOperation(tasks', x)
      BY <2>3
    <3>2. x.h = "step" =>
            /\ got' + x.n <= Need(kind')
            /\ taken' = bytesOut' + (IF kind' = "read" THEN got' + x.n ELSE 0)
      BY <2>3
    <3>3. x.h = "start" => taken' = bytesOut' + Collected'
      BY <1>4, <2>3
    <3> QED
      BY <1>3, <2>3, <3>1, <3>2, <3>3 DEF Operation
  <2> QED
    BY <1>a, <2>1, <2>2, <2>3 DEF Operation
<1> QED
  BY <1>1, <1>2, <1>5 DEF DeadlineIInv

\* The timer's handler cancels the transfer that is pending, if there is one.
LEMMA TimerStep ==
    ASSUME DeadlineIInv, Timer
    PROVE  DeadlineIInv'
<1> DEFINE c == Head(tasks).c
<1>a. Typed /\ tasks \in Seq(Task) /\ tasks # << >>
  BY DEF DeadlineIInv, Typed, Timer, Head1
<1>b. /\ Head(tasks).h = "timer" /\ Head(tasks) \in Task /\ Tail(tasks) \in Seq(Task)
      /\ c \in Calls
  BY <1>a, TailFacts, TaskFields DEF Timer, Head1
<1>c. /\ NoOperation(tasks) => NoOperation(Tail(tasks))
      /\ \A x \in Task : OneOperation(tasks, x) => OneOperation(Tail(tasks), x)
  BY <1>a, <1>b, TailKeeps DEF Operations
<1>d. UNCHANGED <<call, calls, kind, armed, got, isOpen, unread, sent, taken, bytesOut>>
  BY DEF Timer
<1>e. /\ armed \in 0 .. MaxCalls /\ isOpen \in BOOLEAN /\ unread \in Nat /\ taken \in Nat
      /\ st \in [Calls -> StateType]
  BY <1>a DEF Typed
<1>1. CASE st[c].done
  <2>1. tasks' = Tail(tasks) /\ UNCHANGED <<st, inKernel>>
    BY <1>1 DEF Timer
  <2> QED
    BY <1>b, <1>c, <1>d, <1>e, <2>1, TimerTasksStep
<1>2. CASE ~st[c].done
  <2>1. RequestTimeout(c) /\ Cancel(Tail(tasks))
    BY <1>2 DEF Timer
  <2>2. st' \in [Calls -> StateType] /\ \A d \in Calls : st'[d].done = st[d].done
    <3>1. st' = [st EXCEPT ![c].timeoutRequested = TRUE]
      BY <2>1 DEF RequestTimeout
    <3>2. "ok" \in Codes
      BY DEF Codes
    <3>3. st' \in [Calls -> StateType]
      BY <1>b, <1>e, <3>1, <3>2, StateTyped
    <3> QED
      BY <1>b, <1>e, <3>1, <3>3, StateDone
  <2>3. CASE inKernel = 0
    <3>1. tasks' = Tail(tasks) /\ inKernel' = inKernel
      BY <2>1, <2>3 DEF Cancel
    <3> QED
      BY <1>b, <1>c, <1>d, <1>e, <2>2, <3>1, TimerTasksStep
  <2>4. CASE inKernel # 0
    <3>1. /\ tasks' = Append(Tail(tasks),
                             [h |-> "step", c |-> inKernel, ec |-> "aborted", n |-> 0])
          /\ inKernel' = 0
      BY <2>1, <2>4 DEF Cancel
    <3>2. "aborted" \in Codes /\ 0 \in 0 .. Size
      BY DeadlineAssumption DEF Codes
    <3>3. got + 0 <= Need(kind)
      BY <2>4 DEF DeadlineIInv, Operation, Blocked, Progress, Typed
    <3>4. taken' = taken + 0 /\ taken' = taken
      BY <1>d, <1>e
    <3> QED
      BY <1>b, <1>c, <1>d, <1>e, <2>2, <2>4, <3>1, <3>2, <3>3, <3>4, EndedTransferStep
  <2> QED
    BY <2>3, <2>4
<1> QED
  BY <1>1, <1>2

\* The other steps of the I/O thread, the kernel and the client.
LEMMA OtherSteps ==
    ASSUME DeadlineIInv,
           \/ TimerAborted \/ Expire \/ Open \/ CloseSocket \/ PeerSends \/ TransferFails
           \/ \E n \in 1 .. Size : Transfer(n)
    PROVE  DeadlineIInv'
<1>a. Typed /\ tasks \in Seq(Task)
  BY DEF DeadlineIInv, Typed
<1>b. /\ armed \in 0 .. MaxCalls /\ isOpen \in BOOLEAN /\ unread \in Nat /\ taken \in Nat
      /\ st \in [Calls -> StateType] /\ got \in 0 .. Size
  BY <1>a DEF Typed
<1>c. inKernel # 0 => got <= Need(kind)
  BY DEF DeadlineIInv, Operation, Blocked, Progress
<1>1. CASE TimerAborted
  <2>1. tasks # << >> /\ Head(tasks).h \notin Operations /\ tasks' = Tail(tasks)
    BY <1>1 DEF TimerAborted, Head1, Operations
  <2>2. UNCHANGED <<call, calls, kind, st, inKernel, armed, got, isOpen, unread, sent, taken,
                    bytesOut>>
    BY <1>1 DEF TimerAborted
  <2> QED
    BY <1>a, <1>b, <2>1, <2>2, TailKeeps, TailFacts, TimerTasksStep
<1>2. CASE Expire
  <2> DEFINE y == [h |-> "timer", c |-> armed]
  <2>1. y \in Task /\ y.h \notin Operations
    BY <1>2, <1>b DEF Expire, Task, Calls, Operations
  <2>2. tasks' = Append(tasks, y) /\ armed' = 0
    BY <1>2 DEF Expire
  <2>3. UNCHANGED <<call, calls, kind, st, inKernel, got, isOpen, unread, sent, taken, bytesOut>>
    BY <1>2 DEF Expire
  <2> HIDE DEF y
  <2>4. armed' \in 0 .. MaxCalls
    BY <2>2, DeadlineAssumption
  <2> QED
    BY <1>a, <1>b, <2>1, <2>2, <2>3, <2>4, AppendKeeps, AppendFacts, TimerTasksStep
<1>3. CASE Open \/ CloseSocket
  <2>1. UNCHANGED <<call, calls, kind, st, tasks, inKernel, armed, got, sent, taken, bytesOut>>
    BY <1>3 DEF Open, CloseSocket
  <2>2. isOpen' \in BOOLEAN
    BY <1>3, Zenon DEF Open, CloseSocket
  <2>3. unread' \in Nat
    BY <1>3, <1>b DEF Open, CloseSocket
  <2> QED
    BY <1>a, <1>b, <2>1, <2>2, <2>3, TimerTasksStep
<1>4. CASE PeerSends
  <2>1. UNCHANGED <<call, calls, kind, st, tasks, inKernel, armed, got, isOpen, taken, bytesOut>>
    BY <1>4 DEF PeerSends
  <2>2. unread' \in Nat /\ sent' \in 0 .. MaxBytes
    BY <1>4, <1>a, DeadlineAssumption DEF PeerSends, Typed
  <2>3. Typed'
    BY <1>a, <2>1, <2>2 DEF Typed
  <2>4. Progress' /\ Operation'
    BY <2>1 DEF DeadlineIInv, Progress, Operation, Blocked, Collected
  <2> QED
    BY <2>3, <2>4 DEF DeadlineIInv
<1>5. CASE TransferFails
  <2>1. /\ tasks' = Append(tasks, [h |-> "step", c |-> inKernel, ec |-> "failed", n |-> 0])
        /\ inKernel # 0 /\ inKernel' = 0
        /\ UNCHANGED <<call, calls, kind, st, armed, got, isOpen, unread, sent, taken, bytesOut>>
    BY <1>5 DEF TransferFails
  <2>2. "failed" \in Codes /\ 0 \in 0 .. Size /\ got + 0 <= Need(kind)
    BY <1>b, <1>c, <2>1, DeadlineAssumption DEF Codes
  <2>3. taken' = taken + 0
    BY <1>b, <2>1
  <2> QED
    BY <1>a, <1>b, <2>1, <2>2, <2>3, EndedTransferStep
<1>6. ASSUME NEW n \in 1 .. Size, Transfer(n)
      PROVE  DeadlineIInv'
  <2>1. /\ tasks' = Append(tasks, [h |-> "step", c |-> inKernel, ec |-> "ok", n |-> n])
        /\ inKernel # 0 /\ inKernel' = 0
        /\ UNCHANGED <<call, calls, kind, st, armed, got, isOpen, sent, bytesOut>>
    BY <1>6 DEF Transfer
  <2>2. "ok" \in Codes /\ n \in 0 .. Size
    BY DEF Codes
  <2>3. got + n <= Need(kind)
    <3>1. Need(kind) \in Nat /\ n <= Need(kind) - got
      BY <1>6, DeadlineAssumption DEF Transfer, Remaining, Need
    <3> QED
      BY <1>b, <3>1
  <2>4. /\ kind = "read" => taken' = taken + n /\ unread' = unread - n /\ n <= unread
        /\ kind # "read" => taken' = taken /\ unread' = unread
    BY <1>6 DEF Transfer
  <2>5. taken' \in Nat /\ unread' \in Nat
    BY <1>b, <2>4
  <2> QED
    BY <1>a, <1>b, <2>1, <2>2, <2>3, <2>4, <2>5, EndedTransferStep
<1> QED
  BY <1>1, <1>2, <1>3, <1>4, <1>5, <1>6

-----------------------------------------------------------------------------
(* What the invariant says.                                                 *)

\* The invariant holds of every reachable state.
LEMMA DeadlineInductive == DeadlineSpec => []DeadlineIInv
<1>1. DeadlineInit => DeadlineIInv
  <2> SUFFICES ASSUME DeadlineInit PROVE DeadlineIInv
    OBVIOUS
  <2>1. Typed
    <3>1. NewState \in StateType
      BY Zenon DEF NewState, StateType, Codes
    <3>2. isOpen \in BOOLEAN
      BY Zenon DEF DeadlineInit
    <3>3. tasks \in Seq(Task)
      BY DEF DeadlineInit
    <3> QED
      BY <3>1, <3>2, <3>3, DeadlineAssumption DEF DeadlineInit, Typed, Kinds
  <2>2. Progress
    BY DeadlineAssumption DEF DeadlineInit, Progress, NewState
  <2>3. Operation
    BY DEF DeadlineInit, Operation, NoOperation, Collected
  <2> QED
    BY <2>1, <2>2, <2>3 DEF DeadlineIInv
<1>2. DeadlineIInv /\ [DeadlineNext]_deadlineVars => DeadlineIInv'
  <2>1. ASSUME DeadlineIInv, DeadlineNext
        PROVE  DeadlineIInv'
    BY <2>1, CallStep, ReturnStep, StartStep, StartThrowsStep, StepStep, TimerStep, OtherSteps
       DEF DeadlineNext
  <2>2. ASSUME DeadlineIInv, UNCHANGED deadlineVars
        PROVE  DeadlineIInv'
    BY <2>2 DEF DeadlineIInv, Typed, Progress, Operation, Blocked, Collected, deadlineVars
  <2> QED
    BY <2>1, <2>2
<1> QED
  BY <1>1, <1>2, PTL DEF DeadlineSpec

\* Every variable keeps its kind, a read fits its buffer, and the bytes taken
\* out of the socket are those reported or still on their way to the caller of
\* the read, whether it completed, failed or timed out.
THEOREM DeadlineTypeCorrect == DeadlineSpec => []DeadlineTypeOK
<1>1. DeadlineIInv => DeadlineTypeOK
  <2> SUFFICES ASSUME DeadlineIInv PROVE BytesAccounted
    BY DEF DeadlineIInv, DeadlineTypeOK
  <2>a. Typed /\ Operation
    BY DEF DeadlineIInv
  <2>1. CASE NoOperation(tasks) /\ taken = bytesOut + Collected
    BY <2>1 DEF BytesAccounted, Steps, NoOperation, Operations, Collected
  <2>2. ASSUME NEW x \in Task, OneOperation(tasks, x), call # 0,
               x.h = "start" => taken = bytesOut + Collected,
               x.h = "step" => taken = bytesOut + (IF kind = "read" THEN got + x.n ELSE 0)
        PROVE  BytesAccounted
    <3>1. PICK i \in DOMAIN tasks :
            tasks[i] = x /\ \A j \in DOMAIN tasks : j # i => tasks[j].h \notin Operations
      BY <2>2 DEF OneOperation
    <3>2. \A j \in Steps : j = i
      BY <3>1 DEF Steps, Operations
    <3>3. CASE x.h = "start"
      <4>1. Steps = {}
        BY <3>1, <3>2, <3>3 DEF Steps
      <4> QED
        BY <2>2, <3>3, <4>1 DEF BytesAccounted, Collected
    <3>4. CASE x.h = "step"
      <4>1. Steps = {i}
        BY <3>1, <3>2, <3>4 DEF Steps
      <4>2. x.n \in 0 .. Size
        BY <3>4, TaskFields
      <4>3. kind = "read" => taken = bytesOut + got + x.n
        BY <2>2, <2>a, <3>4, <4>2 DEF Typed
      <4> QED
        BY <2>2, <3>1, <3>4, <4>1, <4>3 DEF BytesAccounted
    <3> QED
      BY <2>2, <3>3, <3>4 DEF OneOperation, Operations
  <2> QED
    BY <2>1, <2>2, <2>a DEF Operation, Blocked
<1> QED
  BY <1>1, DeadlineInductive, PTL

\* An operation that can still touch the caller's buffer is that of the call
\* the caller is blocked in: with_deadline never returns before its operation
\* has ended, whichever way the timer and the transfer race.
THEOREM BuffersAreReleased == DeadlineSpec => []BuffersReleased
<1>1. DeadlineIInv => BuffersReleased
  <2> SUFFICES ASSUME DeadlineIInv PROVE BuffersReleased
    OBVIOUS
  <2>a. tasks \in Seq(Task) /\ Operation
    BY DEF DeadlineIInv, Typed
  <2>1. ASSUME NEW t \in ToSet(tasks), t.h \in Operations
        PROVE  t.c = call /\ call # 0
    <3>1. PICK i \in DOMAIN tasks : t = tasks[i]
      BY <2>1 DEF ToSet
    <3>2. ~NoOperation(tasks)
      BY <2>1, <3>1 DEF NoOperation
    <3>3. PICK x \in Task : OneOperation(tasks, x) /\ x.c = call /\ call # 0
      BY <2>a, <3>2 DEF Operation, Blocked
    <3>4. t = x
      BY <2>1, <3>1, <3>3 DEF OneOperation
    <3> QED
      BY <3>3, <3>4
  <2>2. inKernel # 0 => inKernel = call
    BY <2>a DEF Operation
  <2> QED
    BY <2>1, <2>2 DEF BuffersReleased, InFlight, Operations
<1> QED
  BY <1>1, DeadlineInductive, PTL

-----------------------------------------------------------------------------
(* What the shared buffer arithmetic promises its callers, for every rate,  *)
(* capacity, latency, floor and headroom.                                   *)

\* A clamped value lies in its window, and is kept if it was there already.
LEMMA ClampInWindow ==
    ASSUME NEW x \in Int, NEW lo \in Int, NEW hi \in Int, lo <= hi
    PROVE  /\ Clamp(x, lo, hi) \in Int
           /\ lo <= Clamp(x, lo, hi) /\ Clamp(x, lo, hi) <= hi
           /\ (lo <= x /\ x <= hi => Clamp(x, lo, hi) = x)
BY DEF Clamp, Larger, Smaller

\* A rate and a time stand for a natural number of points.
LEMMA PointsForTimeNat ==
    ASSUME NEW rate \in Nat, NEW millis \in Nat
    PROVE  PointsForTime(rate, millis) \in Nat
<1> DEFINE p == rate * millis + 500
<1>1. p \in Nat OBVIOUS
<1> HIDE DEF p
<1>2. p \div 1000 \in Nat BY <1>1
<1>3. QED BY <1>2 DEF PointsForTime, p

\* targetBufferPoints never asks for more than the device holds nor for less
\* than the floor (or all of a device smaller than that), and where the floor
\* leaves room it keeps the safety headroom free: the fill loop of a backend
\* aims at a level it can reach, and begin, due at that level, can become due.
THEOREM TargetIsReachable ==
    ASSUME NEW rate \in Nat, NEW capacity \in Nat \ {0}, NEW latency \in Int,
           NEW floor \in Nat, NEW headroom \in Nat
    PROVE  LET target == TargetBufferPoints(rate, capacity, latency, floor, headroom)
           IN  /\ target \in 0..capacity
               /\ Smaller(floor, capacity) <= target
               /\ (floor + headroom <= capacity => target + headroom <= capacity)
<1> DEFINE lowest == Clamp(floor, 0, capacity)
           spare == Clamp(headroom, 0, Larger(0, capacity - lowest))
           highest == Larger(lowest, capacity - spare)
           wanted == PointsForTime(rate, Larger(0, latency))
           target == TargetBufferPoints(rate, capacity, latency, floor, headroom)
<1>1. lowest \in 0..capacity /\ lowest = Smaller(floor, capacity)
  BY DEF Clamp, Larger, Smaller
<1>2. /\ spare \in Nat /\ spare <= capacity - lowest
      /\ (headroom <= capacity - lowest => spare = headroom)
  <2>1. Larger(0, capacity - lowest) = capacity - lowest
    BY <1>1 DEF Larger
  <2>2. spare = Clamp(headroom, 0, capacity - lowest)
    BY <2>1
  <2> HIDE DEF lowest, spare
  <2>3. QED BY <1>1, <2>2 DEF Clamp, Larger, Smaller
<1>3. highest = capacity - spare /\ highest \in Int /\ lowest <= highest
  <2> HIDE DEF lowest, spare
  <2>1. QED BY <1>1, <1>2 DEF Larger
<1>4. wanted \in Nat
  <2>1. Larger(0, latency) \in Nat BY DEF Larger
  <2>2. QED BY <2>1, PointsForTimeNat
<1>5. target = IF rate = 0 THEN lowest ELSE Clamp(wanted, lowest, highest)
  BY DEF TargetBufferPoints
<1> HIDE DEF lowest, spare, highest, wanted, target
<1>6. lowest <= target /\ target <= highest /\ target \in Int
  <2>1. CASE rate = 0 BY <2>1, <1>1, <1>3, <1>5
  <2>2. CASE rate # 0 BY <2>2, <1>1, <1>3, <1>4, <1>5, ClampInWindow
  <2>3. QED BY <2>1, <2>2
<1>7. floor + headroom <= capacity => spare = headroom
  BY <1>1, <1>2 DEF Smaller
<1>8. /\ target \in 0..capacity
      /\ Smaller(floor, capacity) <= target
      /\ (floor + headroom <= capacity => target + headroom <= capacity)
  BY <1>1, <1>2, <1>3, <1>6, <1>7
<1>9. QED BY <1>8 DEF target

-----------------------------------------------------------------------------
(* The LaserCube's worker: the inductive invariant, one part per group of   *)
(* variables.                                                               *)

Control ==
    /\ pc \in {"new", "loop", "reconnect", "rate", "send", "acks", "sleep", "done"}
    /\ {running, net, requested, connected, push, online, content} \subseteq BOOLEAN
    /\ disc \in {"idle", "clamp", "check", "request"}

\* The packets that wait for an ack, and how many they are.
Waiting ==
    /\ slots \in [Numbers -> -1 .. MaxAge]
    /\ number \in Numbers
    /\ PendingCounted

\* What is believed to be in the device's buffer fits into it.
Snapshots ==
    /\ {sentSize, reported} \subseteq 0 .. Capacity
    /\ {sentAge, ackAge} \subseteq 0 .. MaxAge

\* Unless a push is due, the device was told the rate the worker assumes; and
\* none is due while points flow.
Rated ==
    /\ desired \in 1 .. MaxRate
    /\ lastRate \in 0 .. MaxRate /\ told \in 0 .. MaxRate /\ discRate \in 0 .. MaxRate
    /\ disc = "clamp" => discRate # 0
    /\ ~push => lastRate = told /\ told # 0
    /\ pc \in {"send", "acks"} /\ net => ~push

\* A request that is set, and one the worker has taken and not yet served,
\* each stand for a status that was heard.  The first request is the manager's.
Heard ==
    /\ credit \in 0 .. 2
    /\ requested => credit >= 1
    /\ pc = "reconnect" => credit >= 1
    /\ requested /\ pc = "reconnect" => credit = 2
    /\ pc = "new" => requested /\ ~net

Bounded ==
    /\ polls \in 0 .. MaxPolls
    /\ faults \in 0 .. MaxFaults /\ changes \in 0 .. MaxChanges

IInv == Control /\ Waiting /\ Snapshots /\ Rated /\ Heard /\ Bounded

-----------------------------------------------------------------------------
(* The packets that wait for an ack.                                        *)

\* There are as many message numbers as slots.
LEMMA NumbersFinite ==
    /\ IsFiniteSet(Numbers) /\ Cardinality(Numbers) = Slots
    /\ 0 \in Numbers /\ Numbers \subseteq Int
<1>1. Slots \in Nat /\ Slots # 0
  BY LaserCubeAssumption
<1>2. IsFiniteSet(0 .. Slots - 1) /\ Cardinality(0 .. Slots - 1) = Slots
  BY <1>1, FS_Interval
<1> QED
  BY <1>1, <1>2 DEF Numbers

\* The oldest age a time stamp is followed to.
LEMMA Ages == MaxAge \in Nat /\ MaxAge >= Capacity
BY LaserCubeAssumption DEF MaxAge, Larger

\* An age that grows stays within the largest one told apart.
LEMMA OlderAge ==
    ASSUME NEW age \in 0 .. MaxAge
    PROVE  Older(age) \in 0 .. MaxAge
BY LaserCubeAssumption, Ages DEF Older, Smaller

\* No more packets wait than there are numbers.
LEMMA PendingFinite ==
    /\ IsFiniteSet(Pending) /\ Cardinality(Pending) \in 0 .. Slots
<1>1. Pending \in SUBSET Numbers
  BY DEF Pending
<1>2. IsFiniteSet(Pending) /\ Cardinality(Pending) <= Slots
  BY <1>1, NumbersFinite, FS_Subset
<1>3. Cardinality(Pending) \in Nat /\ Slots \in Nat
  BY <1>2, FS_CardinalityType, LaserCubeAssumption
<1> QED
  BY <1>2, <1>3

\* Emptying the table leaves nothing to wait for.
LEMMA TableCleared ==
    ASSUME slots' = [n \in Numbers |-> -1], pending' = 0
    PROVE  slots' \in [Numbers -> -1 .. MaxAge] /\ PendingCounted'
<1>1. Pending' = {}
  BY DEF Pending
<1>2. Cardinality(Pending') = 0
  BY <1>1, FS_EmptySet
<1> QED
  BY <1>2, Ages DEF PendingCounted

\* An ack ends the wait of one packet.
LEMMA TableAcked ==
    ASSUME Waiting, NEW n \in Numbers, slots[n] >= 0,
           slots' = [slots EXCEPT ![n] = -1], pending' = Larger(0, pending - 1)
    PROVE  slots' \in [Numbers -> -1 .. MaxAge] /\ PendingCounted'
<1>1. Pending' = Pending \ {n} /\ n \in Pending
  BY NumbersFinite, Ages DEF Waiting, Pending
<1>2. Cardinality(Pending') = Cardinality(Pending) - 1
  BY <1>1, PendingFinite, FS_RemoveElement
<1>3. Cardinality(Pending) >= 1
  BY <1>1, PendingFinite, FS_EmptySet
<1>4. pending' = Cardinality(Pending')
  BY <1>2, <1>3, PendingFinite DEF Waiting, PendingCounted, Larger
<1> QED
  BY <1>4, Ages DEF Waiting, PendingCounted

\* A packet sent under a number waits; it is one more unless the packet that
\* had the number was waiting still.
LEMMA TableSent ==
    ASSUME Waiting, CountPacket, slots' = [slots EXCEPT ![number] = 0]
    PROVE  slots' \in [Numbers -> -1 .. MaxAge] /\ PendingCounted'
<1>1. number \in Numbers /\ slots[number] \in -1 .. MaxAge
  BY DEF Waiting
<1>2. Pending' = Pending \cup {number}
  BY <1>1, NumbersFinite DEF Waiting, Pending
<1>3. number \in Pending <=> ~(slots[number] < 0)
  BY <1>1, Ages DEF Pending
<1>4. Cardinality(Pending') =
        IF number \in Pending THEN Cardinality(Pending) ELSE Cardinality(Pending) + 1
  BY <1>2, PendingFinite, FS_AddElement
<1>5. pending' = Cardinality(Pending')
  BY <1>3, <1>4 DEF Waiting, PendingCounted, CountPacket
<1> QED
  BY <1>5, Ages DEF Waiting, PendingCounted

\* Packets that are given up wait no longer.
LEMMA TableForgets ==
    ASSUME Waiting,
           slots' = [n \in Numbers |-> IF n \in Forgotten THEN -1 ELSE slots[n]],
           pending' = Larger(0, pending - Cardinality(Forgotten))
    PROVE  slots' \in [Numbers -> -1 .. MaxAge] /\ PendingCounted'
<1>1. Pending' = Pending \ Forgotten
  BY DEF Waiting, Pending
<1>2. Pending \cap Forgotten = Forgotten /\ Forgotten \in SUBSET Pending
  BY DEF Forgotten
<1>3. Cardinality(Pending') = Cardinality(Pending) - Cardinality(Forgotten)
  BY <1>1, <1>2, PendingFinite, FS_Difference
<1>4. Cardinality(Forgotten) \in Nat /\ Cardinality(Forgotten) <= Cardinality(Pending)
  BY <1>2, PendingFinite, FS_Subset, FS_CardinalityType
<1>5. pending' = Cardinality(Pending')
  BY <1>3, <1>4, PendingFinite DEF Waiting, PendingCounted, Larger
<1> QED
  BY <1>5, Ages DEF Waiting, PendingCounted

\* Time passes for the packets that wait.
LEMMA TableAges ==
    ASSUME Waiting, UNCHANGED pending,
           slots' = [n \in Numbers |-> IF slots[n] < 0 THEN -1 ELSE Older(slots[n])]
    PROVE  slots' \in [Numbers -> -1 .. MaxAge] /\ PendingCounted'
<1>1. \A n \in Numbers : slots[n] \in -1 .. MaxAge
  BY DEF Waiting
<1>2. \A n \in Numbers : ~(slots[n] < 0) => Older(slots[n]) \in 0 .. MaxAge
  BY <1>1, OlderAge, Ages
<1>3. slots' \in [Numbers -> -1 .. MaxAge]
  BY <1>1, <1>2, Ages
<1>4. \A n \in Numbers : slots'[n] >= 0 <=> slots[n] >= 0
  BY <1>1, <1>2, Ages
<1>5. Pending' = Pending
  BY <1>4 DEF Pending
<1> QED
  BY <1>3, <1>5 DEF Waiting, PendingCounted

-----------------------------------------------------------------------------
(* Each part is kept by every step.                                         *)

\* Every step keeps Waiting.
LEMMA WaitingKept ==
    ASSUME IInv, [Next]_vars
    PROVE  Waiting'
<1>a. Waiting
  BY DEF IInv
<1>b. ASSUME UNCHANGED <<slots, pending, number>>
      PROVE  Waiting'
  BY <1>a, <1>b DEF Waiting, PendingCounted, Pending
<1>c. NextNumber \in Numbers
  <2>1. number \in Int /\ Slots \in Nat \ {0}
    BY <1>a, NumbersFinite, LaserCubeAssumption DEF Waiting
  <2>2. (number + 1) % Slots \in 0 .. Slots - 1
    BY <2>1
  <2> QED
    BY <2>2 DEF NextNumber, Numbers
<1>1. CASE Prepare \/ Reconnect \/ Close
  <2>1. slots' = [n \in Numbers |-> -1] /\ pending' = 0 /\ number' = number
    BY <1>1 DEF Prepare, Reconnect, Close, ConnectToStatus, ConnectSucceeds, ConnectFails,
                ResetAcks
  <2> QED
    BY <1>a, <2>1, TableCleared DEF Waiting
<1>2. CASE SendPoints
  <2>1. \/ UNCHANGED <<slots, pending, number>>
        \/ CountPacket /\ slots' = [slots EXCEPT ![number] = 0] /\ number' = NextNumber
        \/ UNCHANGED <<slots, pending>> /\ number' = NextNumber
    BY <1>2 DEF SendPoints, timing
  <2> QED
    BY <1>a, <1>b, <1>c, <2>1, TableSent DEF Waiting, PendingCounted, Pending
<1>3. ASSUME NEW n \in Numbers, NEW f \in 0 .. Capacity, TakeAck(n, f)
      PROVE  Waiting'
  BY <1>a, <1>3, TableAcked DEF TakeAck, Waiting
<1>4. CASE EndAcks
  BY <1>a, <1>4, TableForgets DEF EndAcks, Waiting
<1>5. CASE Sleep
  BY <1>a, <1>5, TableAges DEF Sleep, Waiting
<1>6. CASE \/ Loop \/ LoopLost \/ SyncPointRate \/ IgnoreDatagram \/ Exit \/ Announce
           \/ ClampRate \/ CheckConnected \/ RequestReconnect \/ Stop
           \/ ContentStartsOrStops \/ DeviceComesOrGoes
  BY <1>b, <1>6 DEF Loop, LoopLost, SyncPointRate, IgnoreDatagram, Exit, Announce,
       ClampRate, CheckConnected, RequestReconnect, Stop, ContentStartsOrStops,
       DeviceComesOrGoes, timing
<1>7. ASSUME NEW r \in Rates, SetPointRate(r)
      PROVE  Waiting'
  BY <1>b, <1>7 DEF SetPointRate, timing
<1>8. CASE UNCHANGED vars
  BY <1>b, <1>8 DEF vars, timing
<1> QED
  BY <1>1, <1>2, <1>3, <1>4, <1>5, <1>6, <1>7, <1>8 DEF Next

\* What is left of a snapshot is not negative.
LEMMA LeftNat ==
    ASSUME NEW size \in 0 .. Capacity, NEW age \in 0 .. MaxAge, NEW rate \in Nat
    PROVE  Left(size, age, rate) \in Nat
<1>1. age * rate \in Nat
  BY Ages
<1> QED
  BY <1>1, LaserCubeAssumption DEF Left, EstimateFromSnapshot, Larger

\* Every step keeps Snapshots.
LEMMA SnapshotsKept ==
    ASSUME IInv, [Next]_vars
    PROVE  Snapshots'
<1>a. Snapshots /\ lastRate \in Nat
  BY DEF IInv, Rated
<1>b. ASSUME UNCHANGED <<sentSize, sentAge, reported, ackAge>>
      PROVE  Snapshots'
  BY <1>a, <1>b DEF Snapshots
<1>c. Capacity \in Nat \ {0} /\ Latency \in Int /\ Packet \in Nat /\ 2 * Packet \in Nat
      /\ MaxAge \in Nat
  BY LaserCubeAssumption, Ages
<1>1. CASE Prepare \/ Reconnect
  <2>1. sentSize' = 0 /\ sentAge' = 0 /\ reported' = 0 /\ ackAge' = 0
    BY <1>1 DEF Prepare, Reconnect, ConnectToStatus, ConnectSucceeds, ConnectFails, ResetAcks
  <2> QED
    BY <1>c, <2>1 DEF Snapshots
<1>2. CASE SendPoints
  <2> DEFINE est == Larger(Left(sentSize, sentAge, lastRate), Left(reported, ackAge, lastRate))
             target == TargetBufferPoints(lastRate, Capacity, Latency, Packet, 2 * Packet)
             n == Smaller(Packet, target - est)
  <2>1. \/ UNCHANGED timing
        \/ n > 0 /\ sentSize' = est + n /\ sentAge' = 0 /\ UNCHANGED <<reported, ackAge>>
    BY <1>2, Zenon DEF SendPoints
  <2>2. Left(sentSize, sentAge, lastRate) \in Nat /\ Left(reported, ackAge, lastRate) \in Nat
    BY <1>a, LeftNat DEF Snapshots
  <2>3. est \in Nat
    BY <2>2 DEF Larger
  <2>4. target \in 0 .. Capacity
    BY <1>a, <1>c, TargetIsReachable
  <2> HIDE DEF est, target
  <2>5. n \in Int /\ n <= target - est
    BY <1>c, <2>3, <2>4 DEF Smaller
  <2> HIDE DEF n
  <2>6. CASE UNCHANGED timing
    BY <1>b, <2>6 DEF timing
  <2>7. CASE n > 0 /\ sentSize' = est + n /\ sentAge' = 0 /\ UNCHANGED <<reported, ackAge>>
    <3>1. sentSize' \in 0 .. Capacity
      BY <1>c, <2>3, <2>4, <2>5, <2>7
    <3> QED
      BY <1>a, <1>c, <2>7, <3>1 DEF Snapshots
  <2> QED
    BY <2>1, <2>6, <2>7
<1>3. ASSUME NEW n \in Numbers, NEW f \in 0 .. Capacity, TakeAck(n, f)
      PROVE  Snapshots'
  BY <1>c, <1>3 DEF TakeAck, Snapshots
<1>4. CASE Sleep
  BY <1>a, <1>4, OlderAge DEF Sleep, Snapshots
<1>5. CASE \/ Loop \/ LoopLost \/ SyncPointRate \/ IgnoreDatagram \/ EndAcks \/ Exit \/ Announce
           \/ ClampRate \/ CheckConnected \/ RequestReconnect \/ Stop \/ Close
           \/ ContentStartsOrStops \/ DeviceComesOrGoes
  BY <1>b, <1>5 DEF Loop, LoopLost, SyncPointRate, IgnoreDatagram, EndAcks, Exit, Announce,
       ClampRate, CheckConnected, RequestReconnect, Stop, Close, ContentStartsOrStops,
       DeviceComesOrGoes, timing
<1>6. ASSUME NEW r \in Rates, SetPointRate(r)
      PROVE  Snapshots'
  BY <1>b, <1>6 DEF SetPointRate, timing
<1>7. CASE UNCHANGED vars
  BY <1>b, <1>7 DEF vars, timing
<1> QED
  BY <1>1, <1>2, <1>3, <1>4, <1>5, <1>6, <1>7 DEF Next

\* A rate is clamped to one the device takes, and stays a rate.
LEMMA ClampedRate ==
    ASSUME NEW r \in Nat \ {0}
    PROVE  ClampPointRate(r) \in 1 .. MaxRate
BY LaserCubeAssumption DEF ClampPointRate, Smaller

\* Every step keeps Rated.
LEMMA RatedKept ==
    ASSUME IInv, [Next]_vars
    PROVE  Rated'
<1>a. Rated /\ desired \in Nat \ {0} /\ MaxRate \in Nat
  BY LaserCubeAssumption DEF IInv, Rated
<1>b. ASSUME UNCHANGED <<desired, rating, finder>>,
             pc' \in {"send", "acks"} /\ net' => pc \in {"send", "acks"} /\ net
      PROVE  Rated'
  BY <1>a, <1>b DEF Rated, rating, finder
<1>c. ClampPointRate(desired) \in 1 .. MaxRate
  BY <1>a, ClampedRate
<1>1. CASE Prepare \/ Reconnect
  <2>1. /\ pc' \notin {"send", "acks"} /\ desired' = ClampPointRate(desired)
        /\ UNCHANGED <<disc, discRate>>
    BY <1>1 DEF Prepare, Reconnect, ConnectToStatus, ConnectSucceeds, ConnectFails, finder
  <2>2. \/ UNCHANGED rating
        \/ push' = TRUE /\ told' = 0 /\ UNCHANGED lastRate
    BY <1>1 DEF Prepare, Reconnect, ConnectToStatus, ConnectSucceeds, ConnectFails, RateUnknown
  <2>3. /\ lastRate' \in 0 .. MaxRate /\ told' \in 0 .. MaxRate
        /\ ~push' => lastRate' = told' /\ told' # 0
    BY <1>a, <2>2 DEF Rated, rating
  <2> QED
    BY <1>a, <1>c, <2>1, <2>3 DEF Rated
<1>2. CASE SyncPointRate
  <2>1. pc' = "send" /\ UNCHANGED <<desired, disc, discRate>>
    BY <1>2 DEF SyncPointRate, finder
  <2>2. CASE ~push /\ UNCHANGED <<rating, link, bounds>>
    BY <1>a, <2>1, <2>2 DEF Rated, rating
  <2>3. CASE lastRate' = desired /\ push' = FALSE /\ told' = desired
    BY <1>a, <2>1, <2>3 DEF Rated
  <2>4. CASE SendFails /\ push' = TRUE /\ UNCHANGED <<lastRate, told>>
    BY <1>a, <2>1, <2>4 DEF Rated, SendFails
  <2> QED
    BY <1>2, <2>2, <2>3, <2>4 DEF SyncPointRate
<1>3. CASE SendPoints
  <2>1. pc = "send" /\ UNCHANGED <<desired, rating, finder>>
    BY <1>3 DEF SendPoints
  <2>2. UNCHANGED link \/ SendFails
    BY <1>3 DEF SendPoints
  <2>3. net' => net
    BY <2>2 DEF link, SendFails
  <2> QED
    BY <1>b, <2>1, <2>3
<1>4. CASE Announce
  BY <1>a, <1>4 DEF Announce, Rated, link, rating
<1>5. CASE ClampRate
  <2>1. discRate \in Nat \ {0}
    BY <1>a, <1>5 DEF ClampRate, Rated
  <2>2. ClampPointRate(discRate) \in 1 .. MaxRate
    BY <2>1, ClampedRate
  <2> QED
    BY <1>a, <1>5, <2>2 DEF ClampRate, Rated, link, rating
<1>6. CASE CheckConnected \/ RequestReconnect
  BY <1>a, <1>6 DEF CheckConnected, RequestReconnect, Rated, link, rating
<1>7. ASSUME NEW r \in Rates, SetPointRate(r)
      PROVE  Rated'
  <2>1. ClampPointRate(r) \in 1 .. MaxRate
    BY ClampedRate, LaserCubeAssumption
  <2> QED
    BY <1>a, <1>7, <2>1 DEF SetPointRate, Rated, link, rating, finder
<1>8. ASSUME NEW n \in Numbers, NEW f \in 0 .. Capacity, TakeAck(n, f)
      PROVE  Rated'
  BY <1>b, <1>8 DEF TakeAck, link
<1>9. CASE \/ Loop \/ LoopLost \/ IgnoreDatagram \/ EndAcks \/ Sleep \/ Exit \/ Stop \/ Close
           \/ ContentStartsOrStops \/ DeviceComesOrGoes
  BY <1>b, <1>9 DEF Loop, LoopLost, IgnoreDatagram, EndAcks, Sleep, Exit, Stop, Close,
       ContentStartsOrStops, DeviceComesOrGoes, link
<1>10. CASE UNCHANGED vars
  BY <1>b, <1>10 DEF vars, link
<1> QED
  BY <1>1, <1>2, <1>3, <1>4, <1>5, <1>6, <1>7, <1>8, <1>9, <1>10 DEF Next

\* A status that is heard counts for one more reconnect, up to two.
LEMMA HeardKept ==
    ASSUME IInv, [Next]_vars
    PROVE  Heard'
<1>a. Heard /\ credit \in Int
  BY DEF IInv, Heard
<1>b. ASSUME UNCHANGED credit, requested' => requested, pc' = "reconnect" => pc = "reconnect",
             pc' = "new" => pc = "new" /\ UNCHANGED <<requested, net>>
      PROVE  Heard'
  BY <1>a, <1>b DEF Heard
<1>1. CASE Prepare
  <2>1. \/ net' = TRUE /\ requested' = FALSE
        \/ UNCHANGED <<requested, net>>
    BY <1>1 DEF Prepare, ConnectToStatus, ConnectSucceeds, ConnectFails, RequestServed
  <2>2. pc = "new" /\ pc' = "loop" /\ credit' = IF net' THEN credit - 1 ELSE credit
    BY <1>1 DEF Prepare
  <2>3. requested /\ ~net /\ credit \in 1 .. 2
    BY <1>a, <2>2 DEF Heard
  <2>4. CASE net' = TRUE /\ requested' = FALSE
    BY <2>2, <2>3, <2>4 DEF Heard
  <2>5. CASE UNCHANGED <<requested, net>>
    <3>1. credit' = credit
      BY <2>2, <2>3, <2>5
    <3> QED
      BY <2>2, <2>3, <2>5, <3>1 DEF Heard
  <2> QED
    BY <2>1, <2>4, <2>5
<1>2. CASE LoopLost
  <2>1. /\ requested' = FALSE /\ credit' = credit /\ pc' # "new"
        /\ pc' = "reconnect" => requested
    BY <1>2 DEF LoopLost
  <2> QED
    BY <1>a, <2>1 DEF Heard
<1>3. CASE Reconnect
  <2>1. requested' = FALSE \/ UNCHANGED requested
    BY <1>3 DEF Reconnect, ConnectToStatus, ConnectSucceeds, ConnectFails, RequestServed
  <2>2. pc = "reconnect" /\ pc' = "sleep" /\ credit' = Larger(-1, credit - 1)
    BY <1>3 DEF Reconnect
  <2> QED
    BY <1>a, <2>1, <2>2 DEF Heard, Larger
<1>4. CASE RequestReconnect
  <2>1. credit' = Smaller(2, credit + 1) /\ pc' = pc
    BY <1>4 DEF RequestReconnect
  <2>2. credit' \in 1 .. 2 /\ (pc' = "reconnect" => credit' = 2)
    BY <1>a, <2>1 DEF Heard, Smaller
  <2> QED
    BY <1>4, <1>a, <2>2 DEF Heard, RequestReconnect
<1>5. CASE SyncPointRate \/ SendPoints
  BY <1>b, <1>5 DEF SyncPointRate, SendPoints, link, SendFails
<1>6. ASSUME NEW n \in Numbers, NEW f \in 0 .. Capacity, TakeAck(n, f)
      PROVE  Heard'
  BY <1>b, <1>6 DEF TakeAck, link
<1>7. ASSUME NEW r \in Rates, SetPointRate(r)
      PROVE  Heard'
  BY <1>b, <1>7 DEF SetPointRate, link
<1>8. CASE \/ Loop \/ IgnoreDatagram \/ EndAcks \/ Sleep \/ Exit \/ Announce \/ ClampRate
           \/ CheckConnected \/ Stop \/ Close \/ ContentStartsOrStops \/ DeviceComesOrGoes
  BY <1>b, <1>8 DEF Loop, IgnoreDatagram, EndAcks, Sleep, Exit, Announce, ClampRate,
       CheckConnected, Stop, Close, ContentStartsOrStops, DeviceComesOrGoes, link
<1>9. CASE UNCHANGED vars
  BY <1>b, <1>9 DEF vars, link
<1> QED
  BY <1>1, <1>2, <1>3, <1>4, <1>5, <1>6, <1>7, <1>8, <1>9 DEF Next

\* Every step keeps Bounded.
LEMMA BoundedKept ==
    ASSUME IInv, [Next]_vars
    PROVE  Bounded'
<1>a. Bounded /\ {MaxPolls, MaxFaults, MaxChanges} \subseteq Nat
  BY LaserCubeAssumption DEF IInv
<1>1. polls' \in 0 .. MaxPolls
  <2>1. polls' \in {polls, 0} \/ (polls < MaxPolls /\ polls' = polls + 1)
    BY DEF Next, Prepare, Loop, LoopLost, Reconnect, SyncPointRate, SendPoints, IgnoreDatagram,
         TakeAck, EndAcks, Sleep, Exit, Announce, ClampRate, CheckConnected, RequestReconnect,
         SetPointRate, Stop, Close, ContentStartsOrStops, DeviceComesOrGoes, vars
  <2> QED
    BY <1>a, <2>1 DEF Bounded
<1>2. faults' \in 0 .. MaxFaults
  <2>1. faults' = faults \/ (faults < MaxFaults /\ faults' = faults + 1)
    BY DEF Next, Prepare, Loop, LoopLost, Reconnect, SyncPointRate, SendPoints, IgnoreDatagram,
         TakeAck, EndAcks, Sleep, Exit, Announce, ClampRate, CheckConnected, RequestReconnect,
         SetPointRate, Stop, Close, ContentStartsOrStops, DeviceComesOrGoes,
         vars, bounds, ConnectToStatus,
         ConnectSucceeds, ConnectFails, SendFails
  <2> QED
    BY <1>a, <2>1 DEF Bounded
<1>3. changes' \in 0 .. MaxChanges
  <2>1. changes' = changes \/ (changes < MaxChanges /\ changes' = changes + 1)
    BY DEF Next, Prepare, Loop, LoopLost, Reconnect, SyncPointRate, SendPoints, IgnoreDatagram,
         TakeAck, EndAcks, Sleep, Exit, Announce, ClampRate, CheckConnected, RequestReconnect,
         SetPointRate, Stop, Close, ContentStartsOrStops, DeviceComesOrGoes,
         vars, bounds, ConnectToStatus,
         ConnectSucceeds, ConnectFails, SendFails
  <2> QED
    BY <1>a, <2>1 DEF Bounded
<1> QED
  BY <1>1, <1>2, <1>3 DEF Bounded

\* Every step keeps Control.
LEMMA ControlKept ==
    ASSUME IInv, [Next]_vars
    PROVE  Control'
<1>a. Control
  BY DEF IInv
<1>1. pc' \in {"new", "loop", "reconnect", "rate", "send", "acks", "sleep", "done"}
  BY <1>a, Zenon DEF Control, Next, Prepare, Loop, LoopLost, Reconnect, SyncPointRate, SendPoints,
       IgnoreDatagram, TakeAck, EndAcks, Sleep, Exit, Announce, ClampRate, CheckConnected,
       RequestReconnect, SetPointRate, Stop, Close, ContentStartsOrStops, DeviceComesOrGoes, vars
<1>2. disc' \in {"idle", "clamp", "check", "request"}
  BY <1>a, Zenon DEF Control, Next, Prepare, Loop, LoopLost, Reconnect, SyncPointRate, SendPoints,
       IgnoreDatagram, TakeAck, EndAcks, Sleep, Exit, Announce, ClampRate, CheckConnected,
       RequestReconnect, SetPointRate, Stop, Close, ContentStartsOrStops, DeviceComesOrGoes,
       vars, finder
<1>3. /\ running' \in {running, TRUE, FALSE} /\ net' \in {net, TRUE, FALSE}
      /\ requested' \in {requested, TRUE, FALSE} /\ connected' \in {connected, TRUE, FALSE}
  BY DEF Next, Prepare, Loop, LoopLost, Reconnect, SyncPointRate, SendPoints,
       IgnoreDatagram, TakeAck, EndAcks, Sleep, Exit, Announce, ClampRate, CheckConnected,
       RequestReconnect, SetPointRate, Stop, Close, ContentStartsOrStops, DeviceComesOrGoes,
       vars, link,
       ConnectToStatus, ConnectSucceeds, ConnectFails, RequestServed, SendFails
<1>4. push' \in {push, TRUE, FALSE}
  BY DEF Next, Prepare, Loop, LoopLost, Reconnect, SyncPointRate, SendPoints,
       IgnoreDatagram, TakeAck, EndAcks, Sleep, Exit, Announce, ClampRate, CheckConnected,
       RequestReconnect, SetPointRate, Stop, Close, ContentStartsOrStops, DeviceComesOrGoes,
       vars, rating, ConnectToStatus, ConnectSucceeds, ConnectFails, RateUnknown
<1>o. online' \in {online, ~online} /\ content' \in {content, ~content}
  BY DEF Next, Prepare, Loop, LoopLost, Reconnect, SyncPointRate, SendPoints,
       IgnoreDatagram, TakeAck, EndAcks, Sleep, Exit, Announce, ClampRate, CheckConnected,
       RequestReconnect, SetPointRate, Stop, Close, ContentStartsOrStops, DeviceComesOrGoes,
       vars, outside
<1>5. {running', net', requested', connected', push', online', content'} \subseteq BOOLEAN
  BY <1>a, <1>3, <1>4, <1>o, Zenon DEF Control
<1> QED
  BY <1>1, <1>2, <1>5 DEF Control

-----------------------------------------------------------------------------
(* What the invariant says.                                                 *)

\* The inductive invariant always holds.
LEMMA Inductive == Spec => []IInv
<1>1. Init => IInv
  <2> SUFFICES ASSUME Init PROVE IInv
    OBVIOUS
  <2>1. Control
    BY Zenon DEF Init, Control
  <2>2. Waiting
    <3>1. Pending = {} /\ number \in Numbers /\ slots \in [Numbers -> -1 .. MaxAge]
      BY NumbersFinite, Ages DEF Init, Pending
    <3> QED
      BY <3>1, FS_EmptySet DEF Init, Waiting, PendingCounted
  <2>3. Snapshots
    BY Ages, LaserCubeAssumption DEF Init, Snapshots
  <2>4. Rated
    BY ClampedRate, LaserCubeAssumption DEF Init, Rated
  <2>5. Heard /\ Bounded
    BY LaserCubeAssumption DEF Init, Heard, Bounded
  <2> QED
    BY <2>1, <2>2, <2>3, <2>4, <2>5 DEF IInv
<1>2. IInv /\ [Next]_vars => IInv'
  BY ControlKept, WaitingKept, SnapshotsKept, RatedKept, HeardKept, BoundedKept DEF IInv
<1> QED
  BY <1>1, <1>2, PTL DEF Spec

\* LaserCubeNetController: the pending count is the number of packets that
\* wait for an ack, what was sent fits the device, and the worker never
\* reconnects without having heard of the device, whatever is lost, doubled or
\* late.
THEOREM TypeCorrect == Spec => []TypeOK
<1>1. IInv => TypeOK
  <2> SUFFICES ASSUME IInv PROVE TypeOK
    OBVIOUS
  <2>1. PendingCounted /\ pending \in 0 .. Slots
    BY PendingFinite DEF IInv, Waiting, PendingCounted
  <2>2. {desired, lastRate, told, discRate} \subseteq 0 .. MaxRate
    BY DEF IInv, Rated
  <2> QED
    BY <2>1, <2>2 DEF IInv, Control, Waiting, Snapshots, Heard, Bounded, TypeOK
<1> QED
  BY <1>1, Inductive, PTL

\* While points flow the worker assumes a rate it told the device on this
\* connection (pointRatePushNeeded survives every failed send and reconnect).
THEOREM RateWasTold == Spec => []AssumedRateWasTold
<1>1. IInv => AssumedRateWasTold
  BY DEF IInv, Rated, AssumedRateWasTold
<1> QED
  BY <1>1, Inductive, PTL
=============================================================================
