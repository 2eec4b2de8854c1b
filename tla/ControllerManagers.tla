------------------------ MODULE ControllerManagers ------------------------
(***************************************************************************)
(* System, ControllerManagerBase and ControllerCache: who owns a           *)
(* controller and who stops its worker.                                    *)
(*                                                                         *)
(* The cache of a manager holds weak pointers, the application strong      *)
(* ones.  One application thread calls System; a manager may have a        *)
(* discovery thread that briefly takes strong pointers of its own; every   *)
(* controller has a worker.  A destructor runs in whichever thread lets go *)
(* of the last strong pointer, and that thread waits for the worker.       *)
(*                                                                         *)
(* Managers share nothing, so one stands for all; "backend" is the kind it *)
(* is of, and the sets below say how the kinds differ.                     *)
(***************************************************************************)
EXTENDS Naturals, FiniteSets

CONSTANTS
    Keys,            \* stable discovery keys of the devices
    MaxControllers,  \* controllers constructed in one behaviour
    Backends         \* the kinds of manager to consider

Kinds == {"EtherDream", "LaserCubeNet", "LightSpaceNet", "LiberaProtocol",
          "LaserCubeUsb", "Plugin", "Idn", "Helios"}

ASSUME ConstantsAssumption ==
    /\ MaxControllers \in Nat
    /\ Backends \subseteq Kinds
    /\ 0 \notin Keys

VARIABLES
    backend,   \* the kind of manager; never changes
    ctrl,      \* the controllers constructed so far
    cache,     \* liveControllerCache: key -> controller, 0 when absent
    pc,        \* where the application thread is in its call
    inst,      \* the controller that call works on, 0 when none
    dtor,      \* the controller each thread is destroying, 0 when none
    listener,  \* the discovery thread
    entries,   \* what discovery has seen of each device
    known,     \* devices the application has a ControllerInfo of
    crashed    \* std::terminate was called

vars == <<backend, ctrl, cache, pc, inst, dtor, listener, entries, known, crashed>>

Controllers == 1 .. MaxControllers

\* How the managers differ: a discovery thread; one that also looks up live
\* controllers; discovery that ends with the first connect; a failed first
\* connect that drops the controller; a connect that starts an existing
\* controller's thread again; a controller its factory opens, and reuse of it
\* only while it is open; factories that may return nothing; workers that open
\* a lost transport again; transports one process can claim only once.
Listening == {"EtherDream", "LaserCubeNet", "LightSpaceNet"}
Touching == {"LaserCubeNet", "LightSpaceNet"}
QuietOnConnect == {"LightSpaceNet"}
DropsFailed == {"LiberaProtocol", "LaserCubeUsb", "Plugin"}
Restarting == {"Idn", "Helios"}
OpenedByFactory == {"Helios"}
FactoryMayFail == {"Helios", "LaserCubeUsb", "Plugin"}
Reconnecting == Kinds \ {"Plugin", "Idn"}
Exclusive == {"LaserCubeUsb", "Helios"}

\* Strong pointers to a controller: the application's handle, the call in
\* progress, the snapshot of closeAll, the discovery thread's.
Owners == {"app", "call", "snapshot", "listener"}

Blank == [key |-> 0, owners |-> {}, thread |-> "none", running |-> FALSE, open |-> FALSE]

Born(i) == ctrl[i].key # 0
Alive(i) == ctrl[i].owners # {}

\* weak_ptr::lock on a cache entry.
Lock(k) == IF cache[k] # 0 /\ Alive(cache[k]) THEN cache[k] ELSE 0

\* Another controller of this process has the device claimed.
Claimed(k, i) ==
    backend \in Exclusive /\ \E j \in Controllers \ {i} : ctrl[j].key = k /\ ctrl[j].open

AppFree == dtor["app"] = 0 /\ ~crashed
ListenerFree == dtor["listener"] = 0 /\ ~crashed

-----------------------------------------------------------------------------
Init ==
    /\ backend \in Backends
    /\ ctrl = [i \in Controllers |-> Blank]
    /\ cache = [k \in Keys |-> 0]
    /\ pc = "idle"
    /\ inst = 0
    /\ dtor = [t \in {"app", "listener"} |-> 0]
    /\ listener = [thread |-> IF backend \in Listening THEN "up" ELSE "none",
                   running |-> backend \in Listening, at |-> "listen", key |-> 0, held |-> 0]
    /\ entries = [k \in Keys |-> "absent"]
    /\ known = {}
    /\ crashed = FALSE

-----------------------------------------------------------------------------
(* Letting go of a strong pointer: the last one runs the destructor, which *)
(* begins with stopThread, in the thread that let go.                      *)

Released(i, o) ==
    LET left == ctrl[i].owners \ {o}
    IN  [ctrl[i] EXCEPT !.owners = left, !.running = @ /\ left # {}]

Release(i, o, t) ==
    /\ ctrl' = [ctrl EXCEPT ![i] = Released(i, o)]
    /\ dtor' = IF ctrl[i].owners = {o} THEN [dtor EXCEPT ![t] = i] ELSE dtor

\* Mutant: a destructor that detaches its worker instead of waiting for it.
DestroyedDetached(t) ==
    /\ dtor[t] # 0
    /\ dtor' = [dtor EXCEPT ![t] = 0]
    /\ ~crashed
    /\ UNCHANGED <<backend, ctrl, cache, pc, inst, listener, entries, known, crashed>>

\* The rest of the destructor: timedJoin has seen the worker finish, then close().
Destroyed(t) ==
    LET i == dtor[t]
    IN  /\ i # 0
        /\ ctrl[i].thread # "up"
        /\ ctrl' = [ctrl EXCEPT ![i].thread = "none", ![i].open = FALSE]
        /\ dtor' = [dtor EXCEPT ![t] = 0]
        /\ ~crashed
        /\ UNCHANGED <<backend, cache, pc, inst, listener, entries, known, crashed>>

\* The application resets one of its handles.
ReleaseHandle(i) ==
    /\ AppFree
    /\ pc \in {"idle", "down"}
    /\ "app" \in ctrl[i].owners
    /\ Release(i, "app", "app")
    /\ UNCHANGED <<backend, cache, pc, inst, listener, entries, known, crashed>>

-----------------------------------------------------------------------------
(* discover().  A manager without a discovery thread enumerates whatever    *)
(* is there; Ether Dream also drops what it has not heard of lately.        *)

Unstale == [k \in Keys |-> IF entries[k] = "stale" THEN "absent" ELSE entries[k]]

Discover ==
    /\ AppFree
    /\ pc = "idle"
    /\ entries' = IF backend = "EtherDream" THEN Unstale ELSE entries
    /\ IF backend \in Listening
       THEN known' = known \cup {k \in Keys : entries'[k] # "absent"}
       ELSE \E found \in SUBSET Keys : known' = known \cup found
    /\ UNCHANGED <<backend, ctrl, cache, pc, inst, dtor, listener, crashed>>

-----------------------------------------------------------------------------
(* connectController.                                                       *)

\* Mutant: every manager reuses only a controller whose transport is open.
ReusableIfOpen(i) == i # 0 /\ ctrl[i].open

Reusable(i) == i # 0 /\ (backend \in OpenedByFactory => ctrl[i].open)

\* getOrCreateIf finds a live controller it may reuse.
Reuse(k) ==
    /\ AppFree
    /\ pc = "idle" /\ k \in known
    /\ Reusable(Lock(k))
    /\ inst' = Lock(k)
    /\ ctrl' = [ctrl EXCEPT ![Lock(k)].owners = @ \cup {"call"}]
    /\ pc' = "existing"
    /\ UNCHANGED <<backend, cache, dtor, listener, entries, known, crashed>>

\* getOrCreateIf constructs a controller; an entry it may not reuse is replaced.
Create(k) ==
    /\ AppFree
    /\ pc = "idle" /\ k \in known
    /\ ~Reusable(Lock(k))
    /\ backend \in OpenedByFactory => ~Claimed(k, 0)
    /\ \E i \in Controllers :
        /\ ~Born(i) /\ \A j \in Controllers : j < i => Born(j)
        /\ ctrl' = [ctrl EXCEPT ![i] = [Blank EXCEPT !.key = k, !.owners = {"call"},
                                                     !.open = backend \in OpenedByFactory]]
        /\ cache' = [cache EXCEPT ![k] = i]
        /\ inst' = i
    /\ pc' = IF backend \in QuietOnConnect THEN "quieten" ELSE "prepare"
    /\ listener' = [listener EXCEPT !.running = @ /\ backend \notin QuietOnConnect]
    /\ UNCHANGED <<backend, dtor, entries, known, crashed>>

\* The factory fails: the entry that could not be reused is already erased.
CreateFails(k) ==
    /\ AppFree
    /\ pc = "idle" /\ k \in known
    /\ ~Reusable(Lock(k))
    /\ backend \in FactoryMayFail
    /\ cache' = [cache EXCEPT ![k] = 0]
    /\ UNCHANGED <<backend, ctrl, pc, inst, dtor, listener, entries, known, crashed>>

\* stopDiscoveryThread has joined the listener.
Quietened ==
    /\ AppFree
    /\ pc = "quieten" /\ listener.thread # "up"
    /\ listener' = [listener EXCEPT !.thread = "none"]
    /\ pc' = "prepare"
    /\ UNCHANGED <<backend, ctrl, cache, inst, dtor, entries, known, crashed>>

\* startThread on a controller of the call, which then becomes the
\* application's.  Assigning a new std::thread over a joinable one terminates.
Start(i, opened) ==
    LET joinable == ctrl[i].thread # "none"
    IN  /\ ctrl' = [ctrl EXCEPT ![i] =
               [ctrl[i] EXCEPT !.running = TRUE,
                               !.thread = IF ctrl[i].running THEN ctrl[i].thread ELSE "up",
                               !.open = opened,
                               !.owners = (ctrl[i].owners \ {"call"}) \cup {"app"}]]
        /\ crashed' = (~ctrl[i].running /\ joinable)

\* prepareNewController keeps the controller, connected or not.
PrepareNew ==
    /\ AppFree
    /\ pc = "prepare"
    /\ \E opened \in BOOLEAN :
        /\ backend \in OpenedByFactory => opened = ctrl[inst].open
        /\ backend \in DropsFailed \cup {"Idn"} => opened
        /\ opened => ~Claimed(ctrl[inst].key, inst)
        /\ Start(inst, opened)
    /\ pc' = "idle" /\ inst' = 0
    /\ UNCHANGED <<backend, cache, dtor, listener, entries, known>>

\* prepareNewController fails: erase the key, return nothing.
DropNew ==
    /\ AppFree
    /\ pc = "prepare"
    /\ backend \in DropsFailed
    /\ cache' = [cache EXCEPT ![ctrl[inst].key] = 0]
    /\ Release(inst, "call", "app")
    /\ pc' = "idle" /\ inst' = 0
    /\ UNCHANGED <<backend, listener, entries, known, crashed>>

PrepareExisting ==
    /\ AppFree
    /\ pc = "existing"
    /\ IF backend \in Restarting
       THEN Start(inst, ctrl[inst].open)
       ELSE /\ ctrl' = [ctrl EXCEPT ![inst].owners = (@ \ {"call"}) \cup {"app"}]
            /\ UNCHANGED crashed
    /\ pc' = "idle" /\ inst' = 0
    /\ UNCHANGED <<backend, cache, dtor, listener, entries, known>>

-----------------------------------------------------------------------------
(* disconnectController(id): take() the entry, stop the thread, close.      *)
(* Helios keys its cache by port path while the call passes the id.         *)

Taken(k) == IF backend = "Helios" THEN 0 ELSE Lock(k)

\* Mutant: the worker is joined without having been told to stop.
DisconnectJoinsOnly(k) ==
    /\ AppFree
    /\ pc = "idle"
    /\ Taken(k) # 0
    /\ inst' = Taken(k)
    /\ ctrl' = [ctrl EXCEPT ![Taken(k)].owners = @ \cup {"call"}]
    /\ cache' = [cache EXCEPT ![k] = 0]
    /\ pc' = "stopping"
    /\ UNCHANGED <<backend, dtor, listener, entries, known, crashed>>

\* An entry that has expired is erased as well; nobody can tell.
Disconnect(k) ==
    /\ AppFree
    /\ pc = "idle"
    /\ Taken(k) # 0
    /\ inst' = Taken(k)
    /\ ctrl' = [ctrl EXCEPT ![Taken(k)].running = FALSE,
                            ![Taken(k)].owners = @ \cup {"call"}]
    /\ cache' = [cache EXCEPT ![k] = 0]
    /\ pc' = "stopping"
    /\ UNCHANGED <<backend, dtor, listener, entries, known, crashed>>

\* Mutant: the call ends without letting go of its controller.
DisconnectedHolding ==
    /\ AppFree
    /\ pc = "stopping"
    /\ ctrl[inst].thread # "up"
    /\ ctrl' = [ctrl EXCEPT ![inst].thread = "none", ![inst].open = FALSE]
    /\ pc' = "idle"
    /\ UNCHANGED <<backend, cache, inst, dtor, listener, entries, known, crashed>>

Disconnected ==
    /\ AppFree
    /\ pc = "stopping"
    /\ ctrl[inst].thread # "up"
    /\ ctrl' = [ctrl EXCEPT ![inst] = [Released(inst, "call") EXCEPT !.thread = "none",
                                                                     !.open = FALSE]]
    /\ pc' = "idle" /\ inst' = 0
    /\ UNCHANGED <<backend, cache, dtor, listener, entries, known, crashed>>

-----------------------------------------------------------------------------
(* System::shutdown and closeAll.                                           *)

Shutdown ==
    /\ AppFree
    /\ pc = "idle"
    /\ pc' = "closing"
    /\ listener' = [listener EXCEPT !.running = FALSE]
    /\ UNCHANGED <<backend, ctrl, cache, inst, dtor, entries, known, crashed>>

\* snapshotAndClear, once beforeCloseControllers has joined the listener.
Snapshot ==
    /\ AppFree
    /\ pc = "closing" /\ listener.thread # "up"
    /\ listener' = [listener EXCEPT !.thread = "none"]
    /\ ctrl' = [i \in Controllers |->
                  IF Born(i) /\ Lock(ctrl[i].key) = i
                  THEN [ctrl[i] EXCEPT !.owners = @ \cup {"snapshot"}] ELSE ctrl[i]]
    /\ cache' = [k \in Keys |-> 0]
    /\ pc' = "closeEach"
    /\ UNCHANGED <<backend, inst, dtor, entries, known, crashed>>

InSnapshot == {i \in Controllers : "snapshot" \in ctrl[i].owners}

StopNext ==
    /\ AppFree
    /\ pc = "closeEach"
    /\ \E i \in InSnapshot :
        /\ inst' = i
        /\ ctrl' = [ctrl EXCEPT ![i].running = FALSE]
    /\ pc' = "closeOne"
    /\ UNCHANGED <<backend, cache, dtor, listener, entries, known, crashed>>

\* The snapshot lets go at the end of its scope; nobody can tell, since the
\* worker is joined and the transport closed already.
CloseNext ==
    /\ AppFree
    /\ pc = "closeOne"
    /\ ctrl[inst].thread # "up"
    /\ ctrl' = [ctrl EXCEPT ![inst] = [Released(inst, "snapshot") EXCEPT !.thread = "none",
                                                                         !.open = FALSE]]
    /\ pc' = "closeEach" /\ inst' = 0
    /\ UNCHANGED <<backend, cache, dtor, listener, entries, known, crashed>>

\* Mutant: closeAll returns after any controller.
AllClosedEarly ==
    /\ AppFree
    /\ pc = "closeEach"
    /\ entries' = [k \in Keys |-> "absent"]
    /\ pc' = "down"
    /\ UNCHANGED <<backend, ctrl, cache, inst, dtor, listener, known, crashed>>

AllClosed ==
    /\ AppFree
    /\ pc = "closeEach" /\ InSnapshot = {}
    /\ entries' = [k \in Keys |-> "absent"]
    /\ pc' = "down"
    /\ UNCHANGED <<backend, ctrl, cache, inst, dtor, listener, known, crashed>>

-----------------------------------------------------------------------------
(* The discovery thread.                                                    *)

Listens == ListenerFree /\ listener.thread = "up" /\ listener.at = "listen"

\* A device is heard of; Ether Dream prunes as well, the others then look for
\* the device's live controller.
Receive(k) ==
    /\ Listens /\ listener.running
    /\ entries' = [IF backend = "EtherDream" THEN Unstale ELSE entries EXCEPT ![k] = "fresh"]
    /\ listener' = IF backend \in Touching
                   THEN [listener EXCEPT !.at = "find", !.key = k] ELSE listener
    /\ UNCHANGED <<backend, ctrl, cache, pc, inst, dtor, known, crashed>>

\* Mutant: the discovery thread takes the entry instead of looking it up.
FindLiveTakes ==
    /\ ListenerFree /\ listener.at = "find"
    /\ LET k == listener.key
           i == Lock(k)
       IN  /\ listener' = [listener EXCEPT !.at = IF i = 0 THEN "listen" ELSE "update",
                                           !.key = 0, !.held = i]
           /\ ctrl' = IF i = 0 THEN ctrl ELSE [ctrl EXCEPT ![i].owners = @ \cup {"listener"}]
           /\ cache' = [cache EXCEPT ![k] = 0]
    /\ UNCHANGED <<backend, pc, inst, dtor, entries, known, crashed>>

\* findLive also erases an entry that has expired.
FindLive ==
    /\ ListenerFree /\ listener.at = "find"
    /\ LET k == listener.key
           i == Lock(k)
       IN  /\ listener' = [listener EXCEPT !.at = IF i = 0 THEN "listen" ELSE "update",
                                           !.key = 0, !.held = i]
           /\ ctrl' = IF i = 0 THEN ctrl ELSE [ctrl EXCEPT ![i].owners = @ \cup {"listener"}]
           /\ cache' = [cache EXCEPT ![k] = i]
    /\ UNCHANGED <<backend, pc, inst, dtor, entries, known, crashed>>

\* updateDiscoveredStatus, then the strong pointer goes out of scope.
UpdateLive ==
    /\ ListenerFree /\ listener.at = "update"
    /\ Release(listener.held, "listener", "listener")
    /\ listener' = [listener EXCEPT !.at = "listen", !.held = 0]
    /\ UNCHANGED <<backend, cache, pc, inst, entries, known, crashed>>

\* The others prune at the end of a window, also of one that was cut short.
Prune ==
    /\ Listens /\ (listener.running \/ backend \in Touching)
    /\ entries' = Unstale
    /\ UNCHANGED <<backend, ctrl, cache, pc, inst, dtor, listener, known, crashed>>

ListenerExits ==
    /\ Listens /\ ~listener.running
    /\ listener' = [listener EXCEPT !.thread = "done"]
    /\ UNCHANGED <<backend, ctrl, cache, pc, inst, dtor, entries, known, crashed>>

\* A device has not been heard of for the discovery timeout.
Age(k) ==
    /\ entries[k] = "fresh" /\ ~crashed
    /\ entries' = [entries EXCEPT ![k] = "stale"]
    /\ UNCHANGED <<backend, ctrl, cache, pc, inst, dtor, listener, known, crashed>>

-----------------------------------------------------------------------------
(* The workers.                                                             *)

\* run() sees that running is false and returns.
WorkerExits(i) ==
    /\ ctrl[i].thread = "up" /\ ~ctrl[i].running /\ ~crashed
    /\ ctrl' = [ctrl EXCEPT ![i].thread = "done"]
    /\ UNCHANGED <<backend, cache, pc, inst, dtor, listener, entries, known, crashed>>

\* run() throws, for example out of the application's point callback.
WorkerThrows(i) ==
    /\ ctrl[i].thread = "up" /\ ~crashed
    /\ ctrl' = [ctrl EXCEPT ![i].thread = "done", ![i].running = FALSE]
    /\ UNCHANGED <<backend, cache, pc, inst, dtor, listener, entries, known, crashed>>

WorkerDisconnects(i) ==
    /\ backend \in Reconnecting
    /\ ctrl[i].thread = "up" /\ ctrl[i].open /\ ~crashed
    /\ ctrl' = [ctrl EXCEPT ![i].open = FALSE]
    /\ UNCHANGED <<backend, cache, pc, inst, dtor, listener, entries, known, crashed>>

WorkerReconnects(i) ==
    /\ backend \in Reconnecting
    /\ ctrl[i].thread = "up" /\ ctrl[i].running /\ ~ctrl[i].open /\ ~crashed
    /\ ~Claimed(ctrl[i].key, i)
    /\ ctrl' = [ctrl EXCEPT ![i].open = TRUE]
    /\ UNCHANGED <<backend, cache, pc, inst, dtor, listener, entries, known, crashed>>

-----------------------------------------------------------------------------
\* A call under way, once begun, is carried on by the application thread.
CallSteps ==
    \/ Quietened \/ PrepareNew \/ DropNew \/ PrepareExisting
    \/ Disconnected \/ Snapshot \/ StopNext \/ CloseNext \/ AllClosed

AppSteps ==
    \/ Discover
    \/ Shutdown
    \/ CallSteps
    \/ \E k \in Keys : Reuse(k) \/ Create(k) \/ CreateFails(k) \/ Disconnect(k)
    \/ \E i \in Controllers : ReleaseHandle(i)

Worker(i) ==
    WorkerExits(i) \/ WorkerThrows(i) \/ WorkerDisconnects(i) \/ WorkerReconnects(i)

ListenerSteps == FindLive \/ UpdateLive \/ Prune \/ ListenerExits

Next ==
    \/ AppSteps
    \/ ListenerSteps
    \/ \E k \in Keys : Receive(k) \/ Age(k)
    \/ \E i \in Controllers : Worker(i)
    \/ \E t \in {"app", "listener"} : Destroyed(t)

\* Threads run; nothing obliges the application to make another call or a
\* device to answer, and a worker need not reconnect.  That a worker told to
\* stop does return rests on the application's callback returning.  Pruning is
\* strongly fair: the code gets to it after every window of at most a second,
\* however many devices answer.
Fairness ==
    /\ WF_vars(CallSteps)
    /\ WF_vars(FindLive \/ UpdateLive \/ ListenerExits)
    /\ SF_vars(Prune)
    /\ \A i \in Controllers : WF_vars(WorkerExits(i))
    /\ \A t \in {"app", "listener"} : WF_vars(Destroyed(t))

Spec == Init /\ [][Next]_vars /\ Fairness

-----------------------------------------------------------------------------
ControllerType ==
    [key : Keys \cup {0}, owners : SUBSET Owners, thread : {"none", "up", "done"},
     running : BOOLEAN, open : BOOLEAN]

ListenerType ==
    [thread : {"none", "up", "done"}, running : BOOLEAN,
     at : {"listen", "find", "update"}, key : Keys \cup {0}, held : Controllers \cup {0}]

TypeOK ==
    /\ backend \in Kinds
    /\ ctrl \in [Controllers -> ControllerType]
    /\ cache \in [Keys -> Controllers \cup {0}]
    /\ pc \in {"idle", "quieten", "prepare", "existing", "stopping", "closing",
               "closeEach", "closeOne", "down"}
    /\ inst \in Controllers \cup {0}
    /\ (inst # 0) <=> pc \in {"quieten", "prepare", "existing", "stopping", "closeOne"}
    /\ dtor \in [{"app", "listener"} -> Controllers \cup {0}]
    /\ listener \in ListenerType
    /\ entries \in [Keys -> {"absent", "fresh", "stale"}]
    /\ known \subseteq Keys
    /\ crashed \in BOOLEAN

Destroying(i) == \E t \in {"app", "listener"} : dtor[t] = i

\* closeAll can reach every worker: one that runs belongs to a controller the
\* cache still leads to, or that a call has in hand or a destructor is stopping.
\* Replacing or erasing an entry while its controller lives would break it.
WorkersReachable ==
    \A i \in Controllers :
        ctrl[i].thread = "up" =>
            \/ Lock(ctrl[i].key) = i
            \/ ctrl[i].owners \cap {"call", "snapshot"} # {}
            \/ Destroying(i)

\* When shutdown returns no worker and no discovery thread runs and every
\* transport is closed, whatever handles the application still holds
\* ("stop background threads and close every open controller cleanly").
ShutdownStopsThreads ==
    pc = "down" =>
        /\ listener.thread = "none"
        /\ \A i \in Controllers : ctrl[i].thread = "none" /\ ~ctrl[i].open

\* Two workers drive one device only while the discovery thread, which held the
\* last pointer to the older controller, is still destroying that one: connect
\* finds its weak pointer expired and does not wait.
TwoWorkersOnlyInHandover ==
    \A i, j \in Controllers :
        (i < j /\ ctrl[i].key = ctrl[j].key /\ ctrl[i].thread = "up" /\ ctrl[j].thread = "up")
            => dtor["listener"] = i

\* A controller nobody owns and whose destructor is through has left neither a
\* thread nor an open transport behind, whichever thread destroyed it.
NothingLeftBehind ==
    \A i \in Controllers :
        (~Alive(i) /\ ~Destroying(i)) => (ctrl[i].thread = "none" /\ ~ctrl[i].open)

\* The discovery thread holds a pointer only while it runs, so joining it before
\* the snapshot leaves shutdown the only thread that can destroy a controller.
ListenerLetsGo ==
    listener.thread # "up" =>
        /\ dtor["listener"] = 0
        /\ \A i \in Controllers : "listener" \notin ctrl[i].owners

\* connectController, disconnectController and shutdown return: the joins they
\* wait in cannot wait for one another, even when the discovery thread they
\* join is itself joining a worker.
CallsReturn == (pc \notin {"idle", "down"}) ~> (pc \in {"idle", "down"} \/ crashed)

=============================================================================
