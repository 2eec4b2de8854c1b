--------------------- MODULE ControllerManagersProofs ---------------------
(***************************************************************************)
(* For every number of devices and controllers, a manager that never       *)
(* evicts a live controller can reach every worker, and shutdown leaves    *)
(* nothing running.                                                        *)
(***************************************************************************)
EXTENDS ControllerManagers, TLAPS

\* A controller something still has to be done about before it may be forgotten.
Busy(i) == ctrl[i].thread # "none" \/ ctrl[i].open

Reached(i) ==
    \/ cache[ctrl[i].key] = i /\ ctrl[i].owners # {}
    \/ "call" \in ctrl[i].owners
    \/ "snapshot" \in ctrl[i].owners
    \/ dtor["app"] = i \/ dtor["listener"] = i

\* The cache and the controllers agree about keys.
KeysAgree ==
    /\ \A i \in Controllers : (Busy(i) \/ ctrl[i].owners # {}) => ctrl[i].key # 0
    /\ \A k \in Keys : cache[k] # 0 => ctrl[cache[k]].key = k

\* What the application thread knows of the controller in its hands.
CallInv ==
    /\ \A i \in Controllers :
         "call" \in ctrl[i].owners =>
             inst = i /\ pc \in {"quieten", "prepare", "existing", "stopping"}
    /\ pc \in {"quieten", "prepare", "existing"} =>
         "call" \in ctrl[inst].owners /\ cache[ctrl[inst].key] = inst
    /\ pc \in {"quieten", "prepare"} => ~Busy(inst)
    /\ \A i \in Controllers :
         "snapshot" \in ctrl[i].owners => pc \in {"closeEach", "closeOne"}

\* What the discovery thread holds, and when.
ListenerInv ==
    /\ listener.at # "listen" => listener.thread = "up"
    /\ listener.at = "find" => listener.key # 0
    /\ listener.at = "update" => listener.held # 0
    /\ dtor["listener"] # 0 => listener.thread = "up"
    /\ \A i \in Controllers :
         "listener" \in ctrl[i].owners => listener.at = "update" /\ listener.held = i

AllReached == \A i \in Controllers : Busy(i) => Reached(i)

\* From the snapshot on, the snapshot is the only way to a busy controller.
ClosingInv ==
    pc \in {"closeEach", "closeOne", "down"} =>
        /\ listener.thread = "none"
        /\ \A k \in Keys : cache[k] = 0
        /\ \A i \in Controllers : Busy(i) => "snapshot" \in ctrl[i].owners

IInv ==
    /\ TypeOK
    /\ backend # "Helios"
    /\ KeysAgree
    /\ CallInv
    /\ ListenerInv
    /\ AllReached
    /\ ClosingInv


-----------------------------------------------------------------------------
(* Updating a field of a controller, or of the listener, keeps its type.    *)

\* Setting the owners keeps the type.
LEMMA OwnersSet ==
    ASSUME NEW c \in [Controllers -> ControllerType], NEW i \in Controllers,
           NEW o \in SUBSET Owners
    PROVE  [c EXCEPT ![i].owners = o]
             \in [Controllers -> ControllerType]
BY Zenon DEF ControllerType

\* So does setting the thread,
LEMMA ThreadSet ==
    ASSUME NEW c \in [Controllers -> ControllerType], NEW i \in Controllers,
           NEW v \in {"none", "up", "done"}
    PROVE  [c EXCEPT ![i].thread = v]
             \in [Controllers -> ControllerType]
BY Zenon DEF ControllerType

\* the transport,
LEMMA OpenSet ==
    ASSUME NEW c \in [Controllers -> ControllerType], NEW i \in Controllers,
           NEW b \in BOOLEAN
    PROVE  [c EXCEPT ![i].open = b]
             \in [Controllers -> ControllerType]
BY Zenon DEF ControllerType

\* the running flag,
LEMMA RunningSet ==
    ASSUME NEW c \in [Controllers -> ControllerType], NEW i \in Controllers,
           NEW a \in BOOLEAN
    PROVE  [c EXCEPT ![i].running = a]
             \in [Controllers -> ControllerType]
BY Zenon DEF ControllerType

\* the thread and the transport,
LEMMA WorkerGone ==
    ASSUME NEW c \in [Controllers -> ControllerType], NEW i \in Controllers,
           NEW v \in {"none", "up", "done"}, NEW b \in BOOLEAN
    PROVE  [c EXCEPT ![i].thread = v, ![i].open = b]
             \in [Controllers -> ControllerType]
BY Zenon DEF ControllerType

\* the thread and the flag,
LEMMA WorkerDied ==
    ASSUME NEW c \in [Controllers -> ControllerType], NEW i \in Controllers,
           NEW v \in {"none", "up", "done"}, NEW a \in BOOLEAN
    PROVE  [c EXCEPT ![i].thread = v, ![i].running = a]
             \in [Controllers -> ControllerType]
BY Zenon DEF ControllerType

\* the flag and the owners.
LEMMA StopSet ==
    ASSUME NEW c \in [Controllers -> ControllerType], NEW i \in Controllers,
           NEW a \in BOOLEAN, NEW o \in SUBSET Owners
    PROVE  [c EXCEPT ![i].running = a, ![i].owners = o]
             \in [Controllers -> ControllerType]
BY Zenon DEF ControllerType

\* The same for the record of one controller.
LEMMA RecordUpdates ==
    ASSUME NEW r \in ControllerType, NEW o \in SUBSET Owners, NEW v \in {"none", "up", "done"},
           NEW a \in BOOLEAN, NEW b \in BOOLEAN
    PROVE  /\ [r EXCEPT !.owners = o] \in ControllerType
           /\ [r EXCEPT !.owners = o, !.running = a] \in ControllerType
           /\ [r EXCEPT !.thread = v, !.open = b] \in ControllerType
           /\ [r EXCEPT !.running = a, !.thread = v, !.open = b, !.owners = o]
                \in ControllerType
BY Zenon DEF ControllerType

\* Each update of the listener keeps its type.
LEMMA ListenerUpdates ==
    ASSUME NEW l \in ListenerType, NEW v \in {"none", "up", "done"}, NEW b \in BOOLEAN,
           NEW p \in {"listen", "find", "update"}, NEW k \in Keys \cup {0},
           NEW i \in Controllers \cup {0}
    PROVE  /\ [l EXCEPT !.thread = v] \in ListenerType
           /\ [l EXCEPT !.running = b] \in ListenerType
           /\ [l EXCEPT !.at = p, !.key = k] \in ListenerType
           /\ [l EXCEPT !.at = p, !.key = k, !.held = i] \in ListenerType
           /\ [l EXCEPT !.at = p, !.held = i] \in ListenerType
BY Zenon DEF ListenerType

\* The fields of a controller have the types of ControllerType.
LEMMA ControllerFields ==
    ASSUME TypeOK, NEW i \in Controllers
    PROVE  /\ ctrl[i] \in ControllerType
           /\ ctrl[i].key \in Keys \cup {0}
           /\ ctrl[i].owners \in SUBSET Owners
           /\ ctrl[i].thread \in {"none", "up", "done"}
           /\ ctrl[i].running \in BOOLEAN
           /\ ctrl[i].open \in BOOLEAN
<1>1. ctrl[i] \in ControllerType
  BY DEF TypeOK
<1> QED
  BY <1>1 DEF ControllerType

\* Replacing one controller by a typed record keeps the type.
LEMMA SetController ==
    ASSUME TypeOK, NEW i \in Controllers, NEW r \in ControllerType
    PROVE  [ctrl EXCEPT ![i] = r] \in [Controllers -> ControllerType]
BY DEF TypeOK

\* A released controller is one.
LEMMA ReleasedType ==
    ASSUME TypeOK, NEW i \in Controllers, NEW o \in Owners
    PROVE  Released(i, o) \in ControllerType
<1>1. ctrl[i].owners \ {o} \in SUBSET Owners
  BY ControllerFields
<1>2. (ctrl[i].running /\ ctrl[i].owners \ {o} # {}) \in BOOLEAN
  OBVIOUS
<1> QED
  BY <1>1, <1>2, ControllerFields, RecordUpdates, Zenon DEF Released

\* startThread keeps the type.
LEMMA StartType ==
    ASSUME TypeOK, NEW i \in Controllers, NEW opened \in BOOLEAN, Start(i, opened)
    PROVE  ctrl' \in [Controllers -> ControllerType]
<1> DEFINE v == IF ctrl[i].running THEN ctrl[i].thread ELSE "up"
           o == (ctrl[i].owners \ {"call"}) \cup {"app"}
           r == [ctrl[i] EXCEPT !.running = TRUE, !.thread = v, !.open = opened, !.owners = o]
<1>1. v \in {"none", "up", "done"} /\ o \in SUBSET Owners /\ ctrl[i] \in ControllerType
  BY ControllerFields DEF Owners
<1>2. ctrl' = [ctrl EXCEPT ![i] = r]
  BY Zenon DEF Start, TypeOK
<1> HIDE DEF v, o
<1>3. r \in ControllerType
  BY <1>1, RecordUpdates, Zenon
<1> HIDE DEF r
<1> QED
  BY <1>2, <1>3, SetController

-----------------------------------------------------------------------------
(* Types of the two record-valued variables after each action.              *)

\* The controllers keep their type under every action.
LEMMA ControllersTyped ==
    ASSUME IInv, Next
    PROVE  ctrl' \in [Controllers -> ControllerType]
<1> USE ConstantsAssumption
<1>a. TypeOK /\ CallInv /\ ListenerInv
  BY DEF IInv
<1>b. /\ ctrl \in [Controllers -> ControllerType]
      /\ inst \in Controllers \cup {0}
      /\ dtor \in [{"app", "listener"} -> Controllers \cup {0}]
      /\ cache \in [Keys -> Controllers \cup {0}]
      /\ listener.held \in Controllers \cup {0}
      /\ listener.key \in Keys \cup {0}
  BY <1>a DEF TypeOK, ListenerType
<1>c. \A k \in Keys : Lock(k) \in Controllers \cup {0}
  BY <1>b DEF Lock
<1>d. /\ {"call"} \in SUBSET Owners /\ {"app"} \in SUBSET Owners
      /\ \A i \in Controllers : /\ ctrl[i].owners \cup {"call"} \in SUBSET Owners
                                /\ ctrl[i].owners \cup {"listener"} \in SUBSET Owners
                                /\ ctrl[i].owners \cup {"snapshot"} \in SUBSET Owners
                                /\ (ctrl[i].owners \ {"call"}) \cup {"app"} \in SUBSET Owners
  BY <1>a, ControllerFields DEF Owners
<1>e. "call" \in Owners /\ "app" \in Owners /\ "snapshot" \in Owners /\ "listener" \in Owners
  BY DEF Owners
<1>1. ASSUME NEW t \in {"app", "listener"}, Destroyed(t)
      PROVE  ctrl' \in [Controllers -> ControllerType]
  <2>1. dtor[t] \in Controllers
    BY <1>1, <1>b DEF Destroyed
  <2>2. ctrl' = [ctrl EXCEPT ![dtor[t]].thread = "none", ![dtor[t]].open = FALSE]
    BY <1>1 DEF Destroyed
  <2> QED
    BY <2>1, <2>2, <1>b, WorkerGone, Zenon
<1>2. ASSUME NEW i \in Controllers, ReleaseHandle(i)
      PROVE  ctrl' \in [Controllers -> ControllerType]
  <2>1. ctrl' = [ctrl EXCEPT ![i] = Released(i, "app")]
    BY <1>2 DEF ReleaseHandle, Release
  <2> QED
    BY <2>1, <1>a, <1>e, ReleasedType, SetController
<1>3. ASSUME NEW k \in Keys, Reuse(k)
      PROVE  ctrl' \in [Controllers -> ControllerType]
  <2>1. Lock(k) \in Controllers
    BY <1>3, <1>c DEF Reuse, Reusable
  <2>2. ctrl' = [ctrl EXCEPT ![Lock(k)].owners = ctrl[Lock(k)].owners \cup {"call"}]
    BY <1>3, <1>b, <2>1, Zenon DEF Reuse
  <2> QED
    BY <2>1, <2>2, <1>b, <1>d, OwnersSet, Zenon
<1>4. ASSUME NEW k \in Keys, Create(k)
      PROVE  ctrl' \in [Controllers -> ControllerType]
  <2>1. PICK i \in Controllers :
          ctrl' = [ctrl EXCEPT ![i] = [Blank EXCEPT !.key = k, !.owners = {"call"},
                                                    !.open = backend \in OpenedByFactory]]
    BY <1>4 DEF Create
  <2>2. (backend \in OpenedByFactory) \in BOOLEAN
    OBVIOUS
  <2>3. [Blank EXCEPT !.key = k, !.owners = {"call"}, !.open = backend \in OpenedByFactory]
           \in ControllerType
    BY <1>d, <2>2, Zenon DEF Blank, ControllerType
  <2> QED
    BY <2>1, <2>3, <1>a, SetController
<1>5. ASSUME PrepareNew
      PROVE  ctrl' \in [Controllers -> ControllerType]
  <2>1. inst \in Controllers
    BY <1>5, <1>a DEF PrepareNew, TypeOK
  <2>2. PICK opened \in BOOLEAN : Start(inst, opened)
    BY <1>5 DEF PrepareNew
  <2> QED
    BY <2>1, <2>2, <1>a, StartType, Zenon
<1>6. ASSUME DropNew
      PROVE  ctrl' \in [Controllers -> ControllerType]
  <2>1. inst \in Controllers
    BY <1>6, <1>a DEF DropNew, TypeOK
  <2>2. ctrl' = [ctrl EXCEPT ![inst] = Released(inst, "call")]
    BY <1>6 DEF DropNew, Release
  <2> QED
    BY <2>1, <2>2, <1>a, <1>e, ReleasedType, SetController
<1>7. ASSUME PrepareExisting
      PROVE  ctrl' \in [Controllers -> ControllerType]
  <2>1. inst \in Controllers /\ ctrl[inst].open \in BOOLEAN
    BY <1>7, <1>a, ControllerFields DEF PrepareExisting, TypeOK
  <2> DEFINE o == (ctrl[inst].owners \ {"call"}) \cup {"app"}
  <2>2. Start(inst, ctrl[inst].open) \/ ctrl' = [ctrl EXCEPT ![inst].owners = o]
    BY <1>7, <2>1, <1>b, Zenon DEF PrepareExisting
  <2>3. CASE ctrl' = [ctrl EXCEPT ![inst].owners = o]
    <3>1. o \in SUBSET Owners
      BY <2>1, <1>d
    <3> HIDE DEF o
    <3> QED
      BY <2>1, <2>3, <3>1, <1>b, OwnersSet, Zenon
  <2> QED
    BY <2>1, <2>2, <2>3, <1>a, StartType, Zenon
<1>8. ASSUME NEW k \in Keys, Disconnect(k)
      PROVE  ctrl' \in [Controllers -> ControllerType]
  <2>1. Taken(k) \in Controllers
    BY <1>8, <1>c DEF Disconnect, Taken
  <2>2. ctrl' = [ctrl EXCEPT ![Taken(k)].running = FALSE,
                             ![Taken(k)].owners = ctrl[Taken(k)].owners \cup {"call"}]
    BY <1>8, <1>b, <2>1, Zenon DEF Disconnect
  <2> QED
    BY <2>1, <2>2, <1>b, <1>d, StopSet, Zenon
<1>9. ASSUME Disconnected \/ CloseNext
      PROVE  ctrl' \in [Controllers -> ControllerType]
  <2>1. inst \in Controllers
    BY <1>9, <1>a DEF Disconnected, CloseNext, TypeOK
  <2>2. PICK o \in Owners :
          ctrl' = [ctrl EXCEPT ![inst] = [Released(inst, o) EXCEPT !.thread = "none",
                                                                   !.open = FALSE]]
    BY <1>9, <1>e, Zenon DEF Disconnected, CloseNext
  <2>3. [Released(inst, o) EXCEPT !.thread = "none", !.open = FALSE] \in ControllerType
    BY <2>1, <1>a, ReleasedType, RecordUpdates, Zenon
  <2> QED
    BY <2>1, <2>2, <2>3, <1>a, SetController
<1>10. ASSUME Snapshot
       PROVE  ctrl' \in [Controllers -> ControllerType]
  <2> DEFINE r(i) == IF Born(i) /\ Lock(ctrl[i].key) = i
                     THEN [ctrl[i] EXCEPT !.owners = ctrl[i].owners \cup {"snapshot"}]
                     ELSE ctrl[i]
  <2>1. ASSUME NEW i \in Controllers
        PROVE  r(i) \in ControllerType
    <3>1. [ctrl[i] EXCEPT !.owners = ctrl[i].owners \cup {"snapshot"}] \in ControllerType
      BY <1>a, <1>d, ControllerFields, RecordUpdates, Zenon
    <3> QED
      BY <3>1, <1>a, ControllerFields
  <2>2. ctrl' = [i \in Controllers |-> r(i)]
    BY <1>10, Zenon DEF Snapshot
  <2> HIDE DEF r
  <2> QED
    BY <2>1, <2>2, Zenon
<1>11. ASSUME StopNext
       PROVE  ctrl' \in [Controllers -> ControllerType]
  <2>1. PICK i \in Controllers : ctrl' = [ctrl EXCEPT ![i].running = FALSE]
    BY <1>11 DEF StopNext, InSnapshot
  <2> QED
    BY <2>1, <1>b, RunningSet, Zenon
<1>12. ASSUME FindLive
       PROVE  ctrl' \in [Controllers -> ControllerType]
  <2>1. listener.key \in Keys
    BY <1>12, <1>a, <1>b DEF FindLive, ListenerInv
  <2> DEFINE i == Lock(listener.key)
  <2>2. ctrl' = ctrl \/ (i # 0 /\ ctrl' = [ctrl EXCEPT ![i].owners = @ \cup {"listener"}])
    BY <1>12, Zenon DEF FindLive
  <2>3. CASE i # 0 /\ ctrl' = [ctrl EXCEPT ![i].owners = @ \cup {"listener"}]
    <3>1. i \in Controllers
      BY <2>1, <2>3, <1>c
    <3> HIDE DEF i
    <3>2. ctrl' = [ctrl EXCEPT ![i].owners = ctrl[i].owners \cup {"listener"}]
      BY <2>3, <3>1, <1>b, Zenon
    <3> QED
      BY <3>1, <3>2, <1>b, <1>d, OwnersSet, Zenon
  <2> QED
    BY <2>2, <2>3, <1>b
<1>13. ASSUME UpdateLive
       PROVE  ctrl' \in [Controllers -> ControllerType]
  <2>1. listener.held \in Controllers
    BY <1>13, <1>a, <1>b DEF UpdateLive, ListenerInv
  <2>2. ctrl' = [ctrl EXCEPT ![listener.held] = Released(listener.held, "listener")]
    BY <1>13 DEF UpdateLive, Release
  <2> QED
    BY <2>1, <2>2, <1>a, <1>e, ReleasedType, SetController
<1>14. ASSUME NEW i \in Controllers, Worker(i)
       PROVE  ctrl' \in [Controllers -> ControllerType]
  <2>1. CASE WorkerExits(i)
    BY <2>1, <1>b, ThreadSet, Zenon DEF WorkerExits
  <2>2. CASE WorkerThrows(i)
    BY <2>2, <1>b, WorkerDied, Zenon DEF WorkerThrows
  <2>3. CASE WorkerDisconnects(i)
    BY <2>3, <1>b, OpenSet, Zenon DEF WorkerDisconnects
  <2>4. CASE WorkerReconnects(i)
    BY <2>4, <1>b, OpenSet, Zenon DEF WorkerReconnects
  <2> QED
    BY <1>14, <2>1, <2>2, <2>3, <2>4, Zenon DEF Worker
<1>15. CASE UNCHANGED ctrl
  BY <1>15, <1>b
<1>16. \/ UNCHANGED ctrl
       \/ \E t \in {"app", "listener"} : Destroyed(t)
       \/ \E i \in Controllers : ReleaseHandle(i) \/ Worker(i)
       \/ \E k \in Keys : Reuse(k) \/ Create(k) \/ Disconnect(k)
       \/ PrepareNew \/ DropNew \/ PrepareExisting \/ Disconnected \/ CloseNext
       \/ Snapshot \/ StopNext \/ FindLive \/ UpdateLive
  BY Zenon DEF Next, AppSteps, CallSteps, ListenerSteps, Discover, Shutdown, Quietened,
         CreateFails, AllClosed, Receive, Age, Prune, ListenerExits
<1> QED
  BY <1>1, <1>2, <1>3, <1>4, <1>5, <1>6, <1>7, <1>8, <1>9, <1>10, <1>11, <1>12, <1>13,
     <1>14, <1>15, <1>16, Zenon

\* The discovery thread's record keeps its type under every action.
LEMMA ListenerTyped ==
    ASSUME IInv, Next
    PROVE  listener' \in ListenerType
<1>a. TypeOK /\ ListenerInv
  BY DEF IInv
<1>b. listener \in ListenerType
  BY <1>a DEF TypeOK
<1>1. ASSUME NEW k \in Keys, Create(k)
      PROVE  listener' \in ListenerType
  <2>1. listener' = [listener EXCEPT !.running = listener.running /\ backend \notin QuietOnConnect]
    BY <1>1, <1>b, Zenon DEF Create, ListenerType
  <2>2. (listener.running /\ backend \notin QuietOnConnect) \in BOOLEAN
    OBVIOUS
  <2> QED
    BY <2>1, <2>2, <1>b, ListenerUpdates, Zenon
<1>2. ASSUME Quietened \/ Snapshot \/ ListenerExits
      PROVE  listener' \in ListenerType
  <2>1. PICK v \in {"none", "up", "done"} : listener' = [listener EXCEPT !.thread = v]
    BY <1>2, Zenon DEF Quietened, Snapshot, ListenerExits
  <2> QED
    BY <2>1, <1>b, ListenerUpdates, Zenon
<1>3. ASSUME Shutdown
      PROVE  listener' \in ListenerType
  BY <1>3, <1>b, ListenerUpdates, Zenon DEF Shutdown
<1>4. ASSUME NEW k \in Keys, Receive(k)
      PROVE  listener' \in ListenerType
  <2>1. k \in Keys \cup {0}
    OBVIOUS
  <2>2. listener' = listener \/ listener' = [listener EXCEPT !.at = "find", !.key = k]
    BY <1>4, Zenon DEF Receive
  <2>3. [listener EXCEPT !.at = "find", !.key = k] \in ListenerType
    BY <2>1, <1>b, ListenerUpdates, Zenon
  <2> QED
    BY <2>2, <2>3, <1>b
<1>5. ASSUME FindLive
      PROVE  listener' \in ListenerType
  <2> DEFINE i == Lock(listener.key)
             p == IF i = 0 THEN "listen" ELSE "update"
  <2>1. listener.key \in Keys
    BY <1>5, <1>a, <1>b DEF FindLive, ListenerInv, ListenerType
  <2>2. i \in Controllers \cup {0}
    BY <2>1, <1>a DEF Lock, TypeOK
  <2>3. p \in {"listen", "find", "update"} /\ 0 \in Keys \cup {0}
    OBVIOUS
  <2>4. listener' = [listener EXCEPT !.at = p, !.key = 0, !.held = i]
    BY <1>5, Zenon DEF FindLive
  <2> HIDE DEF i, p
  <2> QED
    BY <2>2, <2>3, <2>4, <1>b, ListenerUpdates, Zenon
<1>6. ASSUME UpdateLive
      PROVE  listener' \in ListenerType
  <2>1. listener' = [listener EXCEPT !.at = "listen", !.held = 0] /\ 0 \in Controllers \cup {0}
    BY <1>6 DEF UpdateLive
  <2> QED
    BY <2>1, <1>b, ListenerUpdates, Zenon
<1>7. CASE UNCHANGED listener
  BY <1>7, <1>b
<1>8. \/ UNCHANGED listener
      \/ \E k \in Keys : Create(k) \/ Receive(k)
      \/ Quietened \/ Snapshot \/ ListenerExits \/ Shutdown \/ FindLive \/ UpdateLive
  BY Zenon DEF Next, AppSteps, CallSteps, ListenerSteps, Worker, Discover, PrepareNew, DropNew,
       PrepareExisting, Disconnected, StopNext, CloseNext, AllClosed, Reuse, CreateFails,
       Disconnect, ReleaseHandle, Prune, Age, WorkerExits, WorkerThrows, WorkerDisconnects,
       WorkerReconnects, Destroyed
<1> QED
  BY <1>1, <1>2, <1>3, <1>4, <1>5, <1>6, <1>7, <1>8, Zenon

-----------------------------------------------------------------------------
(* The other variables' types.                                              *)

PlainTypes ==
    /\ backend \in Kinds
    /\ cache \in [Keys -> Controllers \cup {0}]
    /\ pc \in {"idle", "quieten", "prepare", "existing", "stopping", "closing",
               "closeEach", "closeOne", "down"}
    /\ inst \in Controllers \cup {0}
    /\ (inst # 0) <=> pc \in {"quieten", "prepare", "existing", "stopping", "closeOne"}
    /\ dtor \in [{"app", "listener"} -> Controllers \cup {0}]
    /\ entries \in [Keys -> {"absent", "fresh", "stale"}]
    /\ known \subseteq Keys
    /\ crashed \in BOOLEAN

\* So do the remaining variables.
LEMMA PlainTyped ==
    ASSUME IInv, Next
    PROVE  PlainTypes'
<1> USE ConstantsAssumption DEF IInv, TypeOK, Controllers
<1>1. ASSUME NEW t \in {"app", "listener"}, Destroyed(t)
      PROVE  PlainTypes'
  BY <1>1 DEF Destroyed, PlainTypes
<1>2. ASSUME NEW i \in Controllers, ReleaseHandle(i)
      PROVE  PlainTypes'
  BY <1>2 DEF ReleaseHandle, Release, Released, AppFree, PlainTypes
<1>3. ASSUME Discover
      PROVE  PlainTypes'
  <2>1. known' \subseteq Keys
    BY <1>3, Zenon DEF Discover
  <2>2. entries' \in [Keys -> {"absent", "fresh", "stale"}]
    BY <1>3 DEF Discover, Unstale
  <2> QED
    BY <1>3, <2>1, <2>2 DEF Discover, PlainTypes
<1>4. ASSUME NEW k \in Keys, Reuse(k)
      PROVE  PlainTypes'
  BY <1>4 DEF Reuse, AppFree, Reusable, Lock, Alive, CallInv, PlainTypes
<1>5. ASSUME NEW k \in Keys, Create(k)
      PROVE  PlainTypes'
  BY <1>5 DEF Create, AppFree, Reusable, Lock, Alive, Born, Blank, OpenedByFactory,
             QuietOnConnect, PlainTypes
<1>6. ASSUME NEW k \in Keys, CreateFails(k)
      PROVE  PlainTypes'
  BY <1>6 DEF CreateFails, AppFree, Reusable, Lock, Alive, OpenedByFactory, PlainTypes
<1>7. ASSUME Quietened
      PROVE  PlainTypes'
  BY <1>7 DEF Quietened, AppFree, PlainTypes
<1>8. ASSUME PrepareNew
      PROVE  PlainTypes'
  BY <1>8 DEF PrepareNew, AppFree, Start, PlainTypes
<1>9. ASSUME DropNew
      PROVE  PlainTypes'
  <2>1. cache' \in [Keys -> Controllers \cup {0}]
    BY <1>9 DEF DropNew
  <2>2. dtor' \in [{"app", "listener"} -> Controllers \cup {0}]
    BY <1>9 DEF DropNew, Release
  <2> QED
    BY <1>9, <2>1, <2>2 DEF DropNew, PlainTypes
<1>10. ASSUME PrepareExisting
       PROVE  PlainTypes'
  <2>1. crashed' \in BOOLEAN
    BY <1>10, Zenon DEF PrepareExisting, Start
  <2> QED
    BY <1>10, <2>1 DEF PrepareExisting, PlainTypes
<1>11. ASSUME NEW k \in Keys, Disconnect(k)
       PROVE  PlainTypes'
  BY <1>11 DEF Disconnect, AppFree, Taken, Lock, Alive, PlainTypes
<1>12. ASSUME Disconnected
       PROVE  PlainTypes'
  BY <1>12 DEF Disconnected, AppFree, Released, PlainTypes
<1>13. ASSUME Shutdown
       PROVE  PlainTypes'
  BY <1>13 DEF Shutdown, AppFree, PlainTypes
<1>14. ASSUME Snapshot
       PROVE  PlainTypes'
  BY <1>14 DEF Snapshot, AppFree, Born, Lock, Alive, PlainTypes
<1>15. ASSUME StopNext
       PROVE  PlainTypes'
  BY <1>15 DEF StopNext, AppFree, InSnapshot, PlainTypes
<1>16. ASSUME CloseNext
       PROVE  PlainTypes'
  BY <1>16 DEF CloseNext, AppFree, Released, PlainTypes
<1>17. ASSUME AllClosed
       PROVE  PlainTypes'
  BY <1>17 DEF AllClosed, AppFree, InSnapshot, PlainTypes
<1>18. ASSUME NEW k \in Keys, Receive(k)
       PROVE  PlainTypes'
  BY <1>18 DEF Receive, Listens, ListenerFree, Unstale, PlainTypes
<1>19. ASSUME FindLive
       PROVE  PlainTypes'
  BY <1>19 DEF FindLive, ListenerFree, Lock, Alive, ListenerInv, ListenerType,
             PlainTypes
<1>20. ASSUME UpdateLive
       PROVE  PlainTypes'
  BY <1>20 DEF UpdateLive, ListenerFree, Release, Released, ListenerInv, ListenerType,
             PlainTypes
<1>21. ASSUME Prune
       PROVE  PlainTypes'
  BY <1>21 DEF Prune, Listens, ListenerFree, Unstale, PlainTypes
<1>22. ASSUME ListenerExits
       PROVE  PlainTypes'
  BY <1>22 DEF ListenerExits, Listens, ListenerFree, PlainTypes
<1>23. ASSUME NEW k \in Keys, Age(k)
       PROVE  PlainTypes'
  BY <1>23 DEF Age, PlainTypes
<1>24. ASSUME NEW i \in Controllers, WorkerExits(i)
       PROVE  PlainTypes'
  BY <1>24 DEF WorkerExits, PlainTypes
<1>25. ASSUME NEW i \in Controllers, WorkerThrows(i)
       PROVE  PlainTypes'
  BY <1>25 DEF WorkerThrows, PlainTypes
<1>26. ASSUME NEW i \in Controllers, WorkerDisconnects(i)
       PROVE  PlainTypes'
  BY <1>26 DEF WorkerDisconnects, PlainTypes
<1>27. ASSUME NEW i \in Controllers, WorkerReconnects(i)
       PROVE  PlainTypes'
  BY <1>27 DEF WorkerReconnects, PlainTypes
<1> QED
  BY <1>1, <1>2, <1>3, <1>4, <1>5, <1>6, <1>7, <1>8, <1>9, <1>10, <1>11, <1>12, <1>13,
     <1>14, <1>15, <1>16, <1>17, <1>18, <1>19, <1>20, <1>21, <1>22, <1>23, <1>24,
     <1>25, <1>26, <1>27, Zenon
     DEF Next, AppSteps, CallSteps, ListenerSteps, Worker

-----------------------------------------------------------------------------
(* Each action keeps the parts of the invariant.                            *)

\* What an update of one controller leaves of the fields the invariant speaks of.
LEMMA OwnersFields ==
    ASSUME TypeOK, NEW c \in Controllers, NEW o \in SUBSET Owners,
           ctrl' = [ctrl EXCEPT ![c].owners = o]
    PROVE  \A i \in Controllers :
             /\ ctrl'[i].key = ctrl[i].key
             /\ ctrl'[i].thread = ctrl[i].thread
             /\ ctrl'[i].open = ctrl[i].open
             /\ ctrl'[i].owners = IF i = c THEN o ELSE ctrl[i].owners
BY Zenon DEF TypeOK, ControllerType

\* The same when the worker is told to stop.
LEMMA StopFields ==
    ASSUME TypeOK, NEW c \in Controllers, NEW o \in SUBSET Owners,
           ctrl' = [ctrl EXCEPT ![c].running = FALSE, ![c].owners = o]
    PROVE  \A i \in Controllers :
             /\ ctrl'[i].key = ctrl[i].key
             /\ ctrl'[i].thread = ctrl[i].thread
             /\ ctrl'[i].open = ctrl[i].open
             /\ ctrl'[i].owners = IF i = c THEN o ELSE ctrl[i].owners
BY Zenon DEF TypeOK, ControllerType

\* startThread leaves other controllers alone and hands the pointer over.
LEMMA StartFields ==
    ASSUME TypeOK, NEW c \in Controllers, NEW opened \in BOOLEAN, Start(c, opened)
    PROVE  /\ \A i \in Controllers \ {c} : ctrl'[i] = ctrl[i]
           /\ ctrl'[c].key = ctrl[c].key
           /\ ctrl'[c].owners = (ctrl[c].owners \ {"call"}) \cup {"app"}
BY Zenon DEF TypeOK, ControllerType, Start

\* connectController finding a live controller keeps the invariant.
LEMMA ReuseKeeps ==
    ASSUME IInv, NEW k \in Keys, Reuse(k)
    PROVE  (KeysAgree /\ CallInv /\ ListenerInv /\ AllReached /\ ClosingInv)'
<1> USE ConstantsAssumption
<1> DEFINE c == Lock(k)
           o == ctrl[c].owners \cup {"call"}
<1>1. c \in Controllers /\ cache[k] = c /\ ctrl[c].owners # {} /\ ctrl[c].key = k
  BY DEF Reuse, Reusable, Lock, Alive, IInv, TypeOK, KeysAgree
<1>2. o \in SUBSET Owners
  BY <1>1, ControllerFields DEF Owners, IInv
<1>3. \A i \in Controllers :
             /\ ctrl'[i].key = ctrl[i].key
             /\ ctrl'[i].thread = ctrl[i].thread
             /\ ctrl'[i].open = ctrl[i].open
             /\ ctrl'[i].owners = IF i = c THEN o ELSE ctrl[i].owners
  <2>1. TypeOK /\ ctrl' = [ctrl EXCEPT ![c].owners = o]
    BY <1>1 DEF Reuse, IInv
  <2> HIDE DEF c, o
  <2> QED
    BY <1>1, <1>2, <2>1, OwnersFields, Zenon
<1>4. /\ pc = "idle" /\ pc' = "existing" /\ inst' = c /\ inst \in Controllers \cup {0}
      /\ UNCHANGED <<cache, dtor, listener>>
  BY DEF Reuse, IInv, TypeOK
<1> HIDE DEF c
<1> USE DEF IInv, Busy, Controllers
<1>5. KeysAgree'
  BY <1>1, <1>3, <1>4 DEF KeysAgree, TypeOK
<1>6. CallInv'
  BY <1>1, <1>3, <1>4 DEF CallInv
<1>7. ListenerInv'
  BY <1>1, <1>3, <1>4 DEF ListenerInv
<1>8. AllReached'
  BY <1>1, <1>3, <1>4 DEF AllReached, Reached
<1>9. ClosingInv'
  BY <1>4 DEF ClosingInv
<1> QED
  BY <1>5, <1>6, <1>7, <1>8, <1>9

\* Taking a controller out of the cache keeps it, because the call holds it.
LEMMA DisconnectKeeps ==
    ASSUME IInv, NEW k \in Keys, Disconnect(k)
    PROVE  (KeysAgree /\ CallInv /\ ListenerInv /\ AllReached /\ ClosingInv)'
<1> USE ConstantsAssumption
<1> DEFINE c == Lock(k)
           o == ctrl[c].owners \cup {"call"}
<1>1. c \in Controllers /\ cache[k] = c /\ ctrl[c].owners # {} /\ ctrl[c].key = k
  BY DEF Disconnect, Taken, Lock, Alive, IInv, TypeOK, KeysAgree
<1>2. o \in SUBSET Owners
  BY <1>1, ControllerFields DEF Owners, IInv
<1>3. \A i \in Controllers :
             /\ ctrl'[i].key = ctrl[i].key
             /\ ctrl'[i].thread = ctrl[i].thread
             /\ ctrl'[i].open = ctrl[i].open
             /\ ctrl'[i].owners = IF i = c THEN o ELSE ctrl[i].owners
  <2>1. TypeOK /\ ctrl' = [ctrl EXCEPT ![c].running = FALSE, ![c].owners = o]
    BY <1>1 DEF Disconnect, Taken, IInv
  <2> HIDE DEF c, o
  <2> QED
    BY <1>1, <1>2, <2>1, StopFields, Zenon
<1>4. /\ pc = "idle" /\ pc' = "stopping" /\ inst' = c /\ inst \in Controllers \cup {0}
      /\ cache' = [cache EXCEPT ![k] = 0] /\ cache \in [Keys -> Controllers \cup {0}]
      /\ UNCHANGED <<dtor, listener>>
  BY DEF Disconnect, Taken, IInv, TypeOK
<1> HIDE DEF c
<1> USE DEF IInv, Busy, Controllers
<1>5. KeysAgree'
  BY <1>1, <1>3, <1>4 DEF KeysAgree
<1>6. CallInv'
  BY <1>1, <1>3, <1>4 DEF CallInv
<1>7. ListenerInv'
  BY <1>1, <1>3, <1>4 DEF ListenerInv
<1>8. AllReached'
  BY <1>1, <1>3, <1>4 DEF AllReached, Reached, KeysAgree
<1>9. ClosingInv'
  BY <1>4 DEF ClosingInv
<1> QED
  BY <1>5, <1>6, <1>7, <1>8, <1>9

\* Both ends of connectController turn the call's pointer into the application's.
LEMMA PrepareKeeps ==
    ASSUME IInv, PrepareNew \/ PrepareExisting
    PROVE  (KeysAgree /\ CallInv /\ ListenerInv /\ AllReached /\ ClosingInv)'
<1> USE ConstantsAssumption
<1>1. /\ inst \in Controllers /\ pc \in {"prepare", "existing"} /\ pc' = "idle" /\ inst' = 0
      /\ UNCHANGED <<cache, dtor, listener>>
      /\ ctrl[inst].owners \in SUBSET Owners /\ ctrl[inst].open \in BOOLEAN
  BY ControllerFields DEF PrepareNew, PrepareExisting, IInv, TypeOK
<1>2. ctrl[inst].key # 0 /\ cache[ctrl[inst].key] = inst
  BY <1>1 DEF IInv, CallInv, KeysAgree
<1>3. /\ \A i \in Controllers \ {inst} :
           /\ ctrl'[i].key = ctrl[i].key
           /\ ctrl'[i].thread = ctrl[i].thread
           /\ ctrl'[i].open = ctrl[i].open
           /\ ctrl'[i].owners = ctrl[i].owners
      /\ ctrl'[inst].key = ctrl[inst].key
      /\ ctrl'[inst].owners = (ctrl[inst].owners \ {"call"}) \cup {"app"}
  <2>1. CASE \E opened \in BOOLEAN : Start(inst, opened)
    BY <1>1, <2>1, StartFields, Zenon DEF IInv
  <2>2. CASE ctrl' = [ctrl EXCEPT ![inst].owners = (ctrl[inst].owners \ {"call"}) \cup {"app"}]
    <3> DEFINE o == (ctrl[inst].owners \ {"call"}) \cup {"app"}
    <3>1. o \in SUBSET Owners
      BY <1>1 DEF Owners
    <3> HIDE DEF o
    <3>2. TypeOK /\ ctrl' = [ctrl EXCEPT ![inst].owners = o]
      BY <2>2 DEF o, IInv
    <3>3. \A i \in Controllers :
             /\ ctrl'[i].key = ctrl[i].key
             /\ ctrl'[i].thread = ctrl[i].thread
             /\ ctrl'[i].open = ctrl[i].open
             /\ ctrl'[i].owners = IF i = inst THEN o ELSE ctrl[i].owners
      BY <1>1, <3>1, <3>2, OwnersFields, Zenon
    <3> QED
      BY <1>1, <3>3 DEF o
  <2>3. PrepareExisting => Start(inst, ctrl[inst].open)
                           \/ ctrl' = [ctrl EXCEPT ![inst].owners = (@ \ {"call"}) \cup {"app"}]
    BY Zenon DEF PrepareExisting
  <2>4. PrepareNew => \E opened \in BOOLEAN : Start(inst, opened)
    BY Zenon DEF PrepareNew
  <2> QED
    BY <1>1, <2>1, <2>2, <2>3, <2>4, Zenon
<1> USE DEF IInv, Busy, Controllers
<1>5. KeysAgree'
  <2>1. \A k \in Keys : cache[k] # 0 => cache[k] \in Controllers
    BY DEF TypeOK
  <2> QED
    BY <1>1, <1>2, <1>3, <2>1 DEF KeysAgree
<1>6. CallInv'
  BY <1>1, <1>3 DEF CallInv
<1>7. ListenerInv'
  BY <1>1, <1>3 DEF ListenerInv
<1>8. AllReached'
  BY <1>1, <1>2, <1>3 DEF AllReached, Reached
<1>9. ClosingInv'
  BY <1>1 DEF ClosingInv
<1> QED
  BY <1>5, <1>6, <1>7, <1>8, <1>9

\* The discovery thread's lookup keeps it: only an expired entry is erased.
LEMMA FindLiveKeeps ==
    ASSUME IInv, FindLive
    PROVE  (KeysAgree /\ CallInv /\ ListenerInv /\ AllReached /\ ClosingInv)'
<1> USE ConstantsAssumption
<1> DEFINE k == listener.key
           c == Lock(k)
           o == ctrl[c].owners \cup {"listener"}
<1>1. k \in Keys /\ listener \in ListenerType /\ listener.thread = "up"
  BY DEF FindLive, IInv, TypeOK, ListenerType, ListenerInv
<1>2. /\ c \in Controllers \cup {0}
      /\ c # 0 => cache[k] = c /\ ctrl[c].owners # {} /\ ctrl[c].key = k
      /\ c = 0 /\ cache[k] # 0 => cache[k] \in Controllers /\ ctrl[cache[k]].owners = {}
  BY <1>1 DEF Lock, Alive, IInv, TypeOK, KeysAgree
<1>3. /\ listener'.thread = "up" /\ listener'.key = 0 /\ listener'.held = c
      /\ listener'.at = IF c = 0 THEN "listen" ELSE "update"
  BY <1>1 DEF FindLive, ListenerType
<1>4. \A i \in Controllers :
             /\ ctrl'[i].key = ctrl[i].key
             /\ ctrl'[i].thread = ctrl[i].thread
             /\ ctrl'[i].open = ctrl[i].open
             /\ ctrl'[i].owners = IF i = c THEN o ELSE ctrl[i].owners
  <2>1. CASE c = 0
    BY <2>1 DEF FindLive, Controllers
  <2>2. CASE c # 0
    <3>1. c \in Controllers
      BY <1>2, <2>2
    <3>2. o \in SUBSET Owners
      BY <3>1, ControllerFields DEF Owners, IInv
    <3>3. TypeOK /\ ctrl' = [ctrl EXCEPT ![c].owners = o]
      BY <2>2 DEF FindLive, IInv
    <3> HIDE DEF c, o
    <3> QED
      BY <3>1, <3>2, <3>3, OwnersFields, Zenon
  <2> QED
    BY <2>1, <2>2
<1>5. /\ UNCHANGED <<pc, inst, dtor>> /\ inst \in Controllers \cup {0}
      /\ cache' = [cache EXCEPT ![k] = c] /\ cache \in [Keys -> Controllers \cup {0}]
      /\ pc \in {"quieten", "prepare", "existing"} => inst \in Controllers
  BY DEF FindLive, IInv, TypeOK
<1>6. listener.at = "find"
  BY DEF FindLive
<1> HIDE DEF k, c
<1> USE DEF IInv, Busy, Controllers
<1>7. KeysAgree'
  BY <1>1, <1>2, <1>4, <1>5 DEF KeysAgree
<1>8. CallInv'
  BY <1>1, <1>2, <1>4, <1>5 DEF CallInv
<1>9. ListenerInv'
  BY <1>1, <1>2, <1>3, <1>4, <1>5, <1>6 DEF ListenerInv
<1>10. AllReached'
  BY <1>1, <1>2, <1>4, <1>5 DEF AllReached, Reached, KeysAgree
<1>11. ClosingInv'
  BY <1>1, <1>5 DEF ClosingInv
<1> QED
  BY <1>7, <1>8, <1>9, <1>10, <1>11

\* Every action keeps the parts of the invariant beside the types.
LEMMA ActionsKeep ==
    ASSUME IInv, Next
    PROVE  (KeysAgree /\ CallInv /\ ListenerInv /\ AllReached /\ ClosingInv)'
<1> DEFINE Parts == KeysAgree /\ CallInv /\ ListenerInv /\ AllReached /\ ClosingInv
<1> USE ConstantsAssumption
<1> USE DEF IInv, TypeOK, KeysAgree, CallInv, ListenerInv, AllReached, ClosingInv, Busy, Reached,
            Controllers, Owners, ControllerType, ListenerType
<1>1. ASSUME NEW t \in {"app", "listener"}, Destroyed(t)
      PROVE  Parts'
  BY <1>1, SMTT(30)
     DEF Destroyed
<1>2. ASSUME NEW i \in Controllers, ReleaseHandle(i)
      PROVE  Parts'
  BY <1>2, SMTT(30)
     DEF ReleaseHandle, Release, Released, AppFree
<1>3. ASSUME Discover
      PROVE  Parts'
  BY <1>3, SMTT(30)
     DEF Discover, AppFree, Unstale
<1>4. ASSUME NEW k \in Keys, Reuse(k)
      PROVE  Parts'
  BY <1>4, ReuseKeeps, Zenon
<1>5. ASSUME NEW k \in Keys, Create(k)
      PROVE  Parts'
  BY <1>5, SMTT(30)
     DEF Create, AppFree, Reusable, Lock, Alive, Born, Blank, OpenedByFactory,
         QuietOnConnect
<1>6. ASSUME NEW k \in Keys, CreateFails(k)
      PROVE  Parts'
  BY <1>6, SMTT(30)
     DEF CreateFails, AppFree, Reusable, Lock, Alive, OpenedByFactory
<1>7. ASSUME Quietened
      PROVE  Parts'
  BY <1>7, SMTT(30)
     DEF Quietened, AppFree
<1>8. ASSUME PrepareNew
      PROVE  Parts'
  BY <1>8, PrepareKeeps, Zenon
<1>9. ASSUME DropNew
      PROVE  Parts'
  BY <1>9, SMTT(30)
     DEF DropNew, AppFree, Release, Released
<1>10. ASSUME PrepareExisting
       PROVE  Parts'
  BY <1>10, PrepareKeeps, Zenon
<1>11. ASSUME NEW k \in Keys, Disconnect(k)
       PROVE  Parts'
  BY <1>11, DisconnectKeeps, Zenon
<1>12. ASSUME Disconnected
       PROVE  Parts'
  BY <1>12, SMTT(30)
     DEF Disconnected, AppFree, Released
<1>13. ASSUME Shutdown
       PROVE  Parts'
  BY <1>13, SMTT(30)
     DEF Shutdown, AppFree
<1>14. ASSUME Snapshot
       PROVE  Parts'
  BY <1>14, SMTT(30)
     DEF Snapshot, AppFree, Born, Lock, Alive
<1>15. ASSUME StopNext
       PROVE  Parts'
  BY <1>15, SMTT(30)
     DEF StopNext, AppFree, InSnapshot
<1>16. ASSUME CloseNext
       PROVE  Parts'
  BY <1>16, SMTT(30)
     DEF CloseNext, AppFree, Released
<1>17. ASSUME AllClosed
       PROVE  Parts'
  BY <1>17, SMTT(30)
     DEF AllClosed, AppFree, InSnapshot
<1>18. ASSUME NEW k \in Keys, Receive(k)
       PROVE  Parts'
  BY <1>18, SMTT(30)
     DEF Receive, Listens, ListenerFree, Unstale
<1>19. ASSUME FindLive
       PROVE  Parts'
  BY <1>19, FindLiveKeeps, Zenon
<1>20. ASSUME UpdateLive
       PROVE  Parts'
  BY <1>20, SMTT(30)
     DEF UpdateLive, ListenerFree, Release, Released
<1>21. ASSUME Prune
       PROVE  Parts'
  BY <1>21, SMTT(30)
     DEF Prune, Listens, ListenerFree, Unstale
<1>22. ASSUME ListenerExits
       PROVE  Parts'
  BY <1>22, SMTT(30)
     DEF ListenerExits, Listens, ListenerFree
<1>23. ASSUME NEW k \in Keys, Age(k)
       PROVE  Parts'
  BY <1>23, SMTT(30)
     DEF Age
<1>24. ASSUME NEW i \in Controllers, WorkerExits(i)
       PROVE  Parts'
  BY <1>24, SMTT(30)
     DEF WorkerExits
<1>25. ASSUME NEW i \in Controllers, WorkerThrows(i)
       PROVE  Parts'
  BY <1>25, SMTT(30)
     DEF WorkerThrows
<1>26. ASSUME NEW i \in Controllers, WorkerDisconnects(i)
       PROVE  Parts'
  BY <1>26, SMTT(30)
     DEF WorkerDisconnects
<1>27. ASSUME NEW i \in Controllers, WorkerReconnects(i)
       PROVE  Parts'
  BY <1>27, SMTT(30)
     DEF WorkerReconnects
<1>28. Parts'
  <2> HIDE DEF Parts, IInv
  <2> QED
    BY <1>1, <1>2, <1>3, <1>4, <1>5, <1>6, <1>7, <1>8, <1>9, <1>10, <1>11, <1>12,
       <1>13, <1>14, <1>15, <1>16, <1>17, <1>18, <1>19, <1>20, <1>21, <1>22, <1>23,
       <1>24, <1>25, <1>26, <1>27, Zenon
       DEF Next, AppSteps, CallSteps, ListenerSteps, Worker
<1> QED
  BY <1>28

-----------------------------------------------------------------------------
(* The invariant, and what it implies.                                      *)

\* The invariant holds initially,
LEMMA InitEstablishes ==
    ASSUME Init, "Helios" \notin Backends
    PROVE  IInv
<1> USE ConstantsAssumption DEF Init
<1>1. TypeOK
  <2>1. ctrl \in [Controllers -> ControllerType]
    <3>1. Blank \in ControllerType
      BY Zenon DEF Blank, ControllerType
    <3> QED
      BY <3>1
  <2>2. listener \in ListenerType
    <3>1. (backend \in Listening) \in BOOLEAN
      OBVIOUS
    <3>2. (IF backend \in Listening THEN "up" ELSE "none") \in {"none", "up", "done"}
      OBVIOUS
    <3>3. /\ 0 \in Keys \cup {0} /\ 0 \in Controllers \cup {0}
          /\ "listen" \in {"listen", "find", "update"}
      OBVIOUS
    <3> QED
      BY <3>1, <3>2, <3>3, Zenon DEF ListenerType
  <2> QED
    BY <2>1, <2>2 DEF TypeOK, Kinds
<1>2. \A i \in Controllers : ~Busy(i) /\ ctrl[i].owners = {}
  BY DEF Busy, Blank
<1>3. backend # "Helios" /\ KeysAgree /\ CallInv /\ ListenerInv /\ AllReached /\ ClosingInv
  BY <1>2 DEF KeysAgree, CallInv, ListenerInv, AllReached, ClosingInv
<1> QED
  BY <1>1, <1>3 DEF IInv

\* every step keeps it,
LEMMA StepKeeps ==
    ASSUME IInv, [Next]_vars
    PROVE  IInv'
<1>1. CASE Next
  <2>1. backend' # "Helios"
    <3>1. backend' = backend
      BY <1>1, Zenon DEF Next, AppSteps, CallSteps, ListenerSteps, Worker, Destroyed, ReleaseHandle,
           Discover, Reuse, Create, CreateFails, Quietened, PrepareNew, DropNew,
           PrepareExisting, Disconnect, Disconnected, Shutdown, Snapshot, StopNext,
           CloseNext, AllClosed, Receive, FindLive, UpdateLive, Prune, ListenerExits,
           Age, WorkerExits, WorkerThrows, WorkerDisconnects, WorkerReconnects
    <3> QED
      BY <3>1 DEF IInv
  <2>2. TypeOK'
    BY <1>1, ControllersTyped, ListenerTyped, PlainTyped, Zenon DEF TypeOK, PlainTypes
  <2> QED
    BY <1>1, <2>1, <2>2, ActionsKeep, Zenon DEF IInv
<1>2. CASE UNCHANGED vars
  BY <1>2, Zenon DEF vars, IInv, TypeOK, KeysAgree, CallInv, ListenerInv, AllReached, ClosingInv,
       Busy, Reached
<1> QED
  BY <1>1, <1>2

\* and so it always holds.
LEMMA Invariance ==
    ASSUME "Helios" \notin Backends
    PROVE  Spec => []IInv
<1>1. Init => IInv
  BY InitEstablishes
<1>2. IInv /\ [Next]_vars => IInv'
  BY StepKeeps
<1> QED
  BY <1>1, <1>2, PTL DEF Spec

\* Where no manager judges reuse by the transport (every backend but Helios), the
\* variables of connectController, closeAll and the discovery thread keep their types.
THEOREM TypesKept ==
    ASSUME "Helios" \notin Backends
    PROVE  Spec => []TypeOK
<1>1. IInv => TypeOK
  BY DEF IInv
<1> QED
  BY <1>1, Invariance, PTL

\* For any number of devices and controllers: unless the manager is Helios, closeAll
\* can reach every running worker, through the cache, a call or a destructor.
THEOREM WorkersStayReachable ==
    ASSUME "Helios" \notin Backends
    PROVE  Spec => []WorkersReachable
<1>1. IInv => WorkersReachable
  <2> SUFFICES ASSUME IInv, NEW i \in Controllers, ctrl[i].thread = "up"
               PROVE  \/ Lock(ctrl[i].key) = i
                      \/ ctrl[i].owners \cap {"call", "snapshot"} # {}
                      \/ Destroying(i)
    BY DEF WorkersReachable
  <2>1. Busy(i) /\ Reached(i)
    BY DEF IInv, AllReached, Busy
  <2>2. i # 0
    BY ConstantsAssumption DEF Controllers
  <2> QED
    BY <2>1, <2>2 DEF Reached, Lock, Alive, Destroying
<1> QED
  BY <1>1, Invariance, PTL

\* For any number of devices and controllers: unless the manager is Helios, no thread
\* runs and no transport is open once System::shutdown has returned.
THEOREM ShutdownIsClean ==
    ASSUME "Helios" \notin Backends
    PROVE  Spec => []ShutdownStopsThreads
<1>1. IInv => ShutdownStopsThreads
  <2> SUFFICES ASSUME IInv, pc = "down"
               PROVE  /\ listener.thread = "none"
                      /\ \A i \in Controllers : ctrl[i].thread = "none" /\ ~ctrl[i].open
    BY DEF ShutdownStopsThreads
  <2>1. \A i \in Controllers : "snapshot" \notin ctrl[i].owners
    BY DEF IInv, CallInv
  <2> QED
    BY <2>1 DEF IInv, ClosingInv, Busy
<1> QED
  BY <1>1, Invariance, PTL

\* For any number of devices and controllers: unless the manager is Helios, a destructor
\* that is through has joined the worker and closed the transport of its controller.
THEOREM DestructorsFinish ==
    ASSUME "Helios" \notin Backends
    PROVE  Spec => []NothingLeftBehind
<1>1. IInv => NothingLeftBehind
  BY DEF IInv, AllReached, Reached, Busy, NothingLeftBehind, Alive, Destroying, TypeOK, ControllerType
<1> QED
  BY <1>1, Invariance, PTL

\* For any number of devices and controllers: unless the manager is Helios, a discovery
\* thread that has ended holds no controller and is destroying none.
THEOREM DiscoveryLetsGo ==
    ASSUME "Helios" \notin Backends
    PROVE  Spec => []ListenerLetsGo
<1>1. IInv => ListenerLetsGo
  BY DEF IInv, ListenerInv, ListenerLetsGo
<1> QED
  BY <1>1, Invariance, PTL

-----------------------------------------------------------------------------
(* Two workers of one device.                                               *)

\* Controllers are constructed in order, the one a connect is preparing last,
\* and only some managers have a discovery thread.
Ordered ==
    /\ \A i, j \in Controllers : i < j /\ Born(j) => Born(i)
    /\ pc \in {"quieten", "prepare"} => \A j \in Controllers : inst < j => ~Born(j)
    /\ backend \notin Listening => listener.thread = "none"

\* Of two controllers of one device that are busy still, the discovery thread
\* is destroying the older one.
Handover ==
    \A i, j \in Controllers :
        i < j /\ ctrl[i].key = ctrl[j].key /\ Busy(i) /\ Busy(j) => dtor["listener"] = i

\* A step that constructs and starts no controller.
Calm ==
    /\ \A i \in Controllers : ctrl'[i].key = ctrl[i].key /\ (Busy(i)' => Busy(i))
    /\ \A i \in Controllers : dtor["listener"] = i => dtor'["listener"] = i \/ ~Busy(i)'
    /\ pc' \in {"quieten", "prepare"} => pc \in {"quieten", "prepare"} /\ inst' = inst
    /\ listener.thread = "none" => listener'.thread = "none"
    /\ backend' = backend

\* Most actions are such steps.
LEMMA CalmActions ==
    ASSUME IInv, Next,
           ~PrepareNew, ~PrepareExisting, \A k \in Keys : ~Create(k)
    PROVE  Calm
<1> USE ConstantsAssumption
<1>a. TypeOK /\ ListenerInv /\ CallInv
  BY DEF IInv
<1>b. \A k \in Keys : Lock(k) \in Controllers \cup {0}
  BY <1>a DEF Lock, TypeOK
<1> USE DEF TypeOK, ListenerInv, Busy, Controllers, Owners, ControllerType, ListenerType, Calm
<1>1. ASSUME NEW t \in {"app", "listener"}, Destroyed(t)
      PROVE  Calm
  <2>1. /\ ctrl' = [ctrl EXCEPT ![dtor[t]].thread = "none", ![dtor[t]].open = FALSE]
        /\ dtor[t] \in Controllers /\ dtor' = [dtor EXCEPT ![t] = 0]
        /\ UNCHANGED <<backend, pc, inst, listener>>
    BY <1>a, <1>1 DEF Destroyed
  <2>2. /\ \A i \in Controllers : ctrl'[i].key = ctrl[i].key
        /\ \A i \in Controllers : i # dtor[t] => ctrl'[i] = ctrl[i]
        /\ ctrl'[dtor[t]].thread = "none" /\ ctrl'[dtor[t]].open = FALSE
    BY <1>a, <2>1
  <2> QED
    BY <1>a, <2>1, <2>2
<1>2. ASSUME NEW i \in Controllers, ReleaseHandle(i)
      PROVE  Calm
  BY <1>a, <1>2 DEF ReleaseHandle, Release, Released
<1>3. CASE Discover \/ Shutdown \/ AllClosed \/ Quietened
  BY <1>a, <1>3 DEF Discover, Shutdown, AllClosed, Quietened
<1>4. ASSUME NEW k \in Keys, Reuse(k)
      PROVE  Calm
  <2>1. Lock(k) \in Controllers
    BY <1>b, <1>4 DEF Reuse, Reusable
  <2> QED
    BY <1>a, <1>4, <2>1 DEF Reuse
<1>5. ASSUME NEW k \in Keys, CreateFails(k) \/ Receive(k) \/ Age(k)
      PROVE  Calm
  BY <1>a, <1>5 DEF CreateFails, Receive, Age
<1>6. CASE DropNew
  BY <1>a, <1>6 DEF DropNew, Release, Released
<1>7. ASSUME NEW k \in Keys, Disconnect(k)
      PROVE  Calm
  <2>1. Taken(k) \in Controllers
    BY <1>b, <1>7 DEF Disconnect, Taken
  <2> QED
    BY <1>a, <1>7, <2>1 DEF Disconnect
<1>8. CASE Disconnected
  BY <1>a, <1>8 DEF Disconnected, Released
<1>9. CASE Snapshot
  BY <1>a, <1>9 DEF Snapshot
<1>10. CASE StopNext
  BY <1>a, <1>10 DEF StopNext, InSnapshot
<1>11. CASE CloseNext
  BY <1>a, <1>11 DEF CloseNext, Released
<1>12. CASE FindLive
  <2>1. listener.key \in Keys
    BY <1>a, <1>12 DEF FindLive
  <2>2. Lock(listener.key) \in Controllers \cup {0}
    BY <1>b, <2>1
  <2> QED
    BY <1>a, <1>12, <2>2 DEF FindLive
<1>13. CASE UpdateLive
  BY <1>a, <1>13 DEF UpdateLive, ListenerFree, Release, Released
<1>14. CASE Prune \/ ListenerExits
  BY <1>a, <1>14 DEF Prune, ListenerExits, Listens
<1>15. ASSUME NEW i \in Controllers, Worker(i)
       PROVE  Calm
  <2>1. UNCHANGED <<backend, pc, inst, dtor, listener>> /\ Busy(i)
    BY <1>15 DEF Worker, WorkerExits, WorkerThrows, WorkerDisconnects, WorkerReconnects
  <2>2. /\ \A j \in Controllers : ctrl'[j].key = ctrl[j].key
        /\ \A j \in Controllers : j # i => ctrl'[j] = ctrl[j]
    <3>1. CASE ctrl' = [ctrl EXCEPT ![i].thread = "done"]
      BY <1>a, <3>1
    <3>2. CASE ctrl' = [ctrl EXCEPT ![i].thread = "done", ![i].running = FALSE]
      BY <1>a, <3>2
    <3>3. CASE ctrl' = [ctrl EXCEPT ![i].open = FALSE]
      BY <1>a, <3>3
    <3>4. CASE ctrl' = [ctrl EXCEPT ![i].open = TRUE]
      BY <1>a, <3>4
    <3> QED
      BY <1>15, <3>1, <3>2, <3>3, <3>4
         DEF Worker, WorkerExits, WorkerThrows, WorkerDisconnects, WorkerReconnects
  <2> QED
    BY <2>1, <2>2
<1> HIDE DEF Calm
<1> QED
  BY <1>1, <1>2, <1>3, <1>4, <1>5, <1>6, <1>7, <1>8, <1>9, <1>10, <1>11, <1>12, <1>13, <1>14,
     <1>15, Zenon DEF Next, AppSteps, CallSteps, ListenerSteps

\* A controller that is being started is the only busy one of its device,
\* unless the discovery thread is destroying another.
LEMMA OtherIsDestroyed ==
    ASSUME IInv, AppFree, pc \in {"prepare", "existing"},
           NEW i \in Controllers, i # inst, Busy(i), ctrl[i].key = ctrl[inst].key
    PROVE  dtor["listener"] = i
<1>1. inst \in Controllers /\ cache[ctrl[inst].key] = inst
  BY DEF IInv, TypeOK, CallInv
<1>2. Reached(i)
  BY DEF IInv, AllReached
<1>3. "call" \notin ctrl[i].owners /\ "snapshot" \notin ctrl[i].owners
  BY DEF IInv, CallInv
<1>4. dtor["app"] # i
  BY ConstantsAssumption DEF AppFree, Controllers
<1> QED
  BY <1>1, <1>2, <1>3, <1>4 DEF Reached

\* Every step keeps the order and the handover.
LEMMA HandoverKept ==
    ASSUME IInv, Ordered, Handover, [Next]_vars
    PROVE  Ordered' /\ Handover'
<1> USE ConstantsAssumption
<1>a. TypeOK
  BY DEF IInv
<1>1. CASE Calm
  <2>1. Ordered'
    BY <1>1 DEF Calm, Ordered, Born
  <2>2. Handover'
    BY <1>1 DEF Calm, Handover, Controllers
  <2> QED
    BY <2>1, <2>2
<1>2. ASSUME NEW k \in Keys, Create(k)
      PROVE  Ordered' /\ Handover'
  <2>1. PICK c \in Controllers :
          /\ ~Born(c) /\ \A j \in Controllers : j < c => Born(j)
          /\ ctrl' = [ctrl EXCEPT ![c] = [Blank EXCEPT !.key = k, !.owners = {"call"},
                                                       !.open = backend \in OpenedByFactory]]
          /\ inst' = c
    BY <1>2 DEF Create
  <2>2. backend' = backend /\ dtor' = dtor /\ listener'.thread = listener.thread
    BY <1>2, <1>a DEF Create, TypeOK, ListenerType
  <2>3. backend \notin OpenedByFactory
    BY DEF IInv, OpenedByFactory
  <2>4. /\ \A i \in Controllers \ {c} : ctrl'[i] = ctrl[i]
        /\ ctrl'[c].key = k /\ ctrl'[c].thread = "none" /\ ctrl'[c].open = FALSE
    <3>1. (backend \in OpenedByFactory) = FALSE
      BY <2>3
    <3>2. ctrl' = [ctrl EXCEPT ![c] = [Blank EXCEPT !.key = k, !.owners = {"call"}, !.open = FALSE]]
      BY <2>1, <3>1
    <3> QED
      BY <1>a, <3>2 DEF TypeOK, Blank
  <2>5. \A i \in Controllers : c < i => ~Born(i)
    BY <2>1 DEF Ordered
  <2>6. Ordered'
    BY <2>1, <2>2, <2>4, <2>5 DEF Ordered, Born, Controllers
  <2>7. Handover'
    BY <2>2, <2>4 DEF Handover, Busy
  <2> QED
    BY <2>6, <2>7
<1>3. ASSUME PrepareNew \/ PrepareExisting
      PROVE  Ordered' /\ Handover'
  <2>1. /\ AppFree /\ pc \in {"prepare", "existing"} /\ pc' = "idle" /\ inst \in Controllers
        /\ UNCHANGED <<backend, dtor, listener>>
    BY <1>3, <1>a DEF PrepareNew, PrepareExisting, TypeOK
  <2>2. /\ \A i \in Controllers \ {inst} : ctrl'[i] = ctrl[i]
        /\ ctrl'[inst].key = ctrl[inst].key
        /\ \/ pc = "prepare"
           \/ backend \notin Listening
           \/ \A i \in Controllers : Busy(i)' => Busy(i)
    <3>1. CASE \E opened \in BOOLEAN : Start(inst, opened) /\ (pc = "prepare" \/ backend \in Restarting)
      <4>1. backend \in Restarting => backend \notin Listening
        BY DEF Restarting, Listening
      <4> QED
        BY <1>a, <2>1, <3>1, <4>1, StartFields, Zenon
    <3>2. CASE ctrl' = [ctrl EXCEPT ![inst].owners = (@ \ {"call"}) \cup {"app"}]
      BY <1>a, <2>1, <3>2 DEF TypeOK, ControllerType, Busy
    <3>3. ctrl[inst].open \in BOOLEAN
      BY <1>a, <2>1, ControllerFields
    <3> QED
      BY <1>3, <3>1, <3>2, <3>3 DEF PrepareNew, PrepareExisting
  <2>3. Ordered'
    BY <2>1, <2>2 DEF Ordered, Born
  <2>4. \A i \in Controllers : i # inst /\ Busy(i) /\ ctrl[i].key = ctrl[inst].key =>
            dtor["listener"] = i
    BY <2>1, OtherIsDestroyed
  <2>5. backend \notin Listening => dtor["listener"] = 0
    BY DEF Ordered, IInv, ListenerInv
  <2>6. \A i \in Controllers \ {inst} : Busy(i)' <=> Busy(i)
    BY <2>2 DEF Busy
  <2>7. Handover'
    <3> SUFFICES ASSUME NEW i \in Controllers, NEW j \in Controllers, i < j,
                        ctrl'[i].key = ctrl'[j].key, Busy(i)', Busy(j)'
                 PROVE  dtor'["listener"] = i
      BY DEF Handover
    <3>1. i # j /\ i # 0 /\ j # 0 /\ ctrl[i].key = ctrl[j].key
      BY <2>2 DEF Controllers
    <3>2. CASE i # inst /\ j # inst
      BY <2>1, <2>2, <2>6, <3>1, <3>2 DEF Handover
    <3>3. CASE j = inst
      BY <2>1, <2>4, <2>6, <3>1, <3>3
    <3>4. CASE i = inst
      <4>1. Busy(j) /\ dtor["listener"] = j
        BY <2>4, <2>6, <3>1, <3>4
      <4>2. backend \in Listening
        BY <2>5, <3>1, <4>1
      <4>3. ctrl[j].key # 0
        BY <4>1 DEF IInv, KeysAgree
      <4>4. pc # "prepare"
        BY <3>4, <4>3 DEF Ordered, Born
      <4>5. Busy(i)
        BY <2>2, <3>4, <4>2, <4>4
      <4> QED
        BY <2>1, <3>1, <4>1, <4>5 DEF Handover
    <3> QED
      BY <3>2, <3>3, <3>4
  <2> QED
    BY <2>3, <2>7
<1>4. CASE UNCHANGED vars
  BY <1>4 DEF vars, Ordered, Handover, Born, Busy
<1> QED
  BY <1>1, <1>2, <1>3, <1>4, CalmActions

\* For any number of devices and controllers: unless the manager is Helios,
\* connectController never leaves two workers driving one device, except while
\* the discovery thread is still destroying the older controller.
THEOREM OneWorkerPerDevice ==
    ASSUME "Helios" \notin Backends
    PROVE  Spec => []TwoWorkersOnlyInHandover
<1>1. Init => Ordered /\ Handover
  BY DEF Init, Ordered, Handover, Born, Busy, Blank
<1>2. IInv /\ Ordered /\ Handover /\ [Next]_vars => (Ordered /\ Handover)'
  BY HandoverKept
<1>3. Handover => TwoWorkersOnlyInHandover
  BY DEF Handover, TwoWorkersOnlyInHandover, Busy
<1> QED
  BY <1>1, <1>2, <1>3, Invariance, PTL DEF Spec
=============================================================================
