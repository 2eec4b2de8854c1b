----------------------------- MODULE PluginStore -----------------------------
(***************************************************************************)
(* The store of plugin packages, driver choices and plugin settings that   *)
(* every Libera application of a user shares.                              *)
(*                                                                         *)
(* Threads of several processes call installPlugin, removePlugin,          *)
(* selectControllerDriver and setPluginSetting.  Each process has a        *)
(* storeMutex, a settings mutex and the plugin's lifecycleMutex; all       *)
(* processes share the lock file .store.lock, two JSON files replaced by   *)
(* rename, and the package directories.  A process may die between any two *)
(* steps: the system then frees its lock, and what it staged is litter     *)
(* that no code reads.                                                     *)
(***************************************************************************)
EXTENDS Integers

CONSTANTS
    Plugins, Revisions, Types,  \* plugin ids, their revisions, controller types
    Keys, Values, Default,      \* plugin settings and their default value
    None,                       \* no entry in a map; nobody, of the lock
    Threads, Processes,
    ProcessOf,                  \* the process of each thread
    Broken,                     \* sets of files that do not parse, at first
    Offered,                    \* the calls the applications make
    MaxCalls,                   \* calls in one behaviour
    MaxFaults,                  \* refused or failed steps in one behaviour
    MaxCrashes                  \* processes that die in one behaviour

\* installPlugin, removePlugin, selectControllerDriver and setPluginSetting,
\* with their arguments.
Jobs == [op : {"install"}, p : Plugins, r : Revisions]
        \cup [op : {"remove"}, p : Plugins]
        \cup [op : {"select"}, ty : Types, d : Plugins \cup {None}]
        \cup [op : {"set"}, k : Keys, v : Values]

ASSUME StoreAssumption ==
    /\ Offered \subseteq Jobs
    /\ Default \in Values
    /\ None \notin Plugins \cup Revisions \cup Values \cup Threads
    /\ ProcessOf \in [Threads -> Processes]
    /\ {MaxCalls, MaxFaults, MaxCrashes} \subseteq Nat

VARIABLES
    state,     \* state.json: does it parse, activePackages, controllerDrivers
    content,   \* what is in packages/<plugin>/<revision>
    settings,  \* settings.json: does it parse, its values
    lock,      \* the thread that holds .store.lock
    up,        \* the processes that are running
    loaded,    \* package revisions whose code each process has loaded
    values,    \* SettingsStore::values of each process
    live,      \* what the running plugin of each process was last told
    pc, job,   \* where each thread is, in which call
    copy,      \* its local StoreState, changed as it will be written
    oldValue,  \* its oldValue
    blind,     \* observed: the threads that could not open the file they
               \*   are about to replace
    saved,     \* the values each setting has had in settings.json
    calls, faults, crashes

vars == <<state, content, settings, lock, up, loaded, values, live, pc, job,
          copy, oldValue, blind, saved, calls, faults, crashes>>

Packages == Plugins \X Revisions
Maps == [active : [Plugins -> Revisions \cup {None}],
         drivers : [Types -> Plugins \cup {None}], ok : BOOLEAN]
Saved == [Keys -> Values \cup {None}]
Empty == [ok |-> TRUE, active |-> [p \in Plugins |-> None],
          drivers |-> [ty \in Types |-> None]]
NothingSaved == [k \in Keys |-> None]

Siblings(t) == {u \in Threads \ {t} : ProcessOf[u] = ProcessOf[t]}

\* Where a thread holds its process's storeMutex, and where lifecycleMutex.
InStore == {"flock", "read", "extract", "commit", "resolve", "write"}
InLifecycle == {"apply", "sflock", "reload", "swrite", "rollback"}

\* What ensureLoaded leaves in memory.
Loaded(file) == IF file.ok THEN file.values ELSE NothingSaved

resolvedValue(vals, k) == IF vals[k] = None THEN Default ELSE vals[k]

\* inspectPluginPackage accepts the archive and the entry point is there.
Resolves(pr) == content[pr] = "complete"

\* activePluginRevisions: the active packages that resolve.
ActiveRevisions == IF ~state.ok THEN {}
                   ELSE {pr \in Packages : state.active[pr[1]] = pr[2]
                                           /\ Resolves(pr)}

Init ==
    /\ \E broken \in Broken :
          /\ state = [Empty EXCEPT !.ok = "state" \notin broken]
          /\ settings = [ok |-> "settings" \notin broken,
                         values |-> NothingSaved]
    /\ content = [pr \in Packages |-> "absent"]
    /\ lock = None
    /\ up = Processes
    /\ loaded = [q \in Processes |-> {}]
    /\ values = [q \in Processes |-> NothingSaved]
    /\ live = [q \in Processes |-> [k \in Keys |-> Default]]
    /\ pc = [t \in Threads |-> "idle"]
    /\ job = [t \in Threads |-> None]
    /\ copy = [t \in Threads |-> Empty]
    /\ oldValue = [t \in Threads |-> Default]
    /\ blind = {}
    /\ saved = [k \in Keys |-> {Default}]
    /\ calls = 0 /\ faults = 0 /\ crashes = 0

-----------------------------------------------------------------------------
Goto(t, l) == pc' = [pc EXCEPT ![t] = l]

\* Mutant: an early return leaves the lock file locked.
UnlockForgotten(t) == UNCHANGED lock

\* The locks are freed as the scopes that took them are left.
Unlock(t) == lock' = IF lock = t THEN None ELSE lock

\* A call ends, and with it the locals of the thread.
Return(t) ==
    /\ pc' = [pc EXCEPT ![t] = "idle"]
    /\ job' = [job EXCEPT ![t] = None]
    /\ copy' = [copy EXCEPT ![t] = Empty]
    /\ oldValue' = [oldValue EXCEPT ![t] = Default]
    /\ blind' = blind \ {t}
    /\ Unlock(t)

Fault == faults < MaxFaults /\ faults' = faults + 1

counts == <<calls, faults, crashes>>
locals == <<job, copy, oldValue, blind>>
disk == <<state, content, settings, saved>>
memory == <<up, loaded, values, live>>

\* A thread makes a call.  installPlugin has inspected the package it was
\* given, and setPluginSetting has checked the value against its definition.
Call(t) ==
    /\ pc[t] = "idle" /\ ProcessOf[t] \in up
    /\ calls < MaxCalls
    /\ calls' = calls + 1
    /\ \E j \in Offered :
          /\ job' = [job EXCEPT ![t] = j]
          /\ Goto(t, IF j.op = "set" THEN "old" ELSE "enter")
    /\ UNCHANGED <<disk, memory, lock, copy, oldValue, blind, faults, crashes>>

\* std::lock_guard lock(storeMutex()).
Enter(t) ==
    /\ pc[t] = "enter"
    /\ \A u \in Siblings(t) : pc[u] \notin InStore
    /\ Goto(t, "flock")
    /\ UNCHANGED <<disk, memory, lock, locals, counts>>

\* Mutant: a shared lock, which several threads can hold.
TakeFileLockShared(t) ==
    /\ pc[t] \in {"flock", "sflock"}
    /\ lock' = t
    /\ Goto(t, IF job[t].op = "set" THEN "reload" ELSE "read")
    /\ UNCHANGED <<disk, memory, locals, counts>>

\* ExclusivePluginFileLock waits for whoever holds the file, in this process
\* or another.
TakeFileLock(t) ==
    /\ pc[t] \in {"flock", "sflock"}
    /\ lock = None
    /\ lock' = t
    /\ Goto(t, IF job[t].op = "set" THEN "reload" ELSE "read")
    /\ UNCHANGED <<disk, memory, locals, counts>>

\* The lock file cannot be opened or locked.
FileLockFails(t) ==
    /\ pc[t] \in {"flock", "sflock"}
    /\ Fault
    /\ \/ pc[t] = "flock" /\ Return(t)
       \/ pc[t] = "sflock" /\ Goto(t, "rollback") /\ UNCHANGED <<lock, locals>>
    /\ UNCHANGED <<disk, memory, calls, crashes>>

-----------------------------------------------------------------------------
(* installPlugin, removePlugin and selectControllerDriver.                 *)

\* The change each call makes to the maps it read.
Changed(j, s) ==
    CASE j.op = "install" -> [s EXCEPT !.active[j.p] = j.r]
      [] j.op = "remove"  -> [s EXCEPT !.active[j.p] = None,
                                       !.drivers = [ty \in Types |->
                                          IF @[ty] = j.p THEN None ELSE @[ty]]]
      [] j.op = "select"  -> [s EXCEPT !.drivers[j.ty] = j.d]

\* What was read does not parse, or the plugin to remove is not active in it.
Refused(j, read) ==
    ~read.ok \/ (j.op = "remove" /\ read.active[j.p] = None)

\* The call goes on with the state it has read.
Continue(t, read) ==
    /\ copy' = [copy EXCEPT ![t] = Changed(job[t], read)]
    /\ Goto(t, IF job[t].op # "install" THEN "write"
               ELSE IF content[<<job[t].p, job[t].r>>] = "absent"
               THEN "extract" ELSE "resolve")
    /\ UNCHANGED <<lock, job, oldValue>>

ReadState(t) ==
    /\ pc[t] = "read"
    /\ IF Refused(job[t], state)
       THEN Return(t)
       ELSE Continue(t, state) /\ UNCHANGED blind
    /\ UNCHANGED <<disk, memory, counts>>

\* readState cannot open the file and takes it for a store that is empty, as
\* if it did not exist.
StateNotOpened(t) ==
    /\ pc[t] = "read"
    /\ Fault
    /\ IF Refused(job[t], Empty)
       THEN Return(t)
       ELSE Continue(t, Empty) /\ blind' = blind \cup {t}
    /\ UNCHANGED <<disk, memory, calls, crashes>>

\* Mutant: the package is unpacked where it will stay.
ExtractInPlace(t) ==
    /\ pc[t] = "extract"
    /\ content' = [content EXCEPT ![<<job[t].p, job[t].r>>] = "partial"]
    /\ Goto(t, "commit")
    /\ UNCHANGED <<state, settings, saved, memory, lock, locals, counts>>

\* In a staging directory the archive is copied, inspected again and unpacked,
\* and moved in beside the payload.
Extract(t) ==
    /\ pc[t] = "extract"
    /\ Goto(t, "commit")
    /\ UNCHANGED <<disk, memory, lock, locals, counts>>

\* The payload becomes the package by one rename.
Commit(t) ==
    /\ pc[t] = "commit"
    /\ content' = [content EXCEPT ![<<job[t].p, job[t].r>>] = "complete"]
    /\ Goto(t, "resolve")
    /\ UNCHANGED <<state, settings, saved, memory, lock, locals, counts>>

\* A copy, an inspection, an extraction or a rename fails; the staging
\* directory is removed.
StagingFails(t) ==
    /\ pc[t] \in {"extract", "commit"}
    /\ Fault
    /\ Return(t)
    /\ UNCHANGED <<disk, memory, calls, crashes>>

\* What is in the package directory is inspected once more, whoever put it
\* there.
Resolve(t) ==
    /\ pc[t] = "resolve"
    /\ IF Resolves(<<job[t].p, job[t].r>>)
       THEN Goto(t, "write") /\ UNCHANGED <<lock, locals>>
       ELSE Return(t)
    /\ UNCHANGED <<disk, memory, counts>>

\* writeState: a temporary file is renamed over state.json.
WriteState(t) ==
    /\ pc[t] = "write"
    /\ state' = copy[t]
    /\ Return(t)
    /\ UNCHANGED <<content, settings, saved, memory, counts>>

WriteStateFails(t) ==
    /\ pc[t] = "write"
    /\ Fault
    /\ Return(t)
    /\ UNCHANGED <<disk, memory, calls, crashes>>

-----------------------------------------------------------------------------
(* setPluginSetting and SettingsStore.                                     *)

\* oldValue is read from the settings in memory, which waits for a sibling
\* that is inside SettingsStore::set, before lifecycleMutex is taken.
ReadOld(t) ==
    /\ pc[t] = "old"
    /\ \A u \in Siblings(t) : pc[u] \notin {"sflock", "reload", "swrite"}
    /\ oldValue' = [oldValue EXCEPT ![t] =
                      resolvedValue(values[ProcessOf[t]], job[t].k)]
    /\ Goto(t, "lifecycle")
    /\ UNCHANGED <<disk, memory, lock, job, copy, blind, counts>>

TakeLifecycle(t) ==
    /\ pc[t] = "lifecycle"
    /\ \A u \in Siblings(t) : pc[u] \notin InLifecycle
    /\ Goto(t, "apply")
    /\ UNCHANGED <<disk, memory, lock, locals, counts>>

\* The running plugin is told, and then SettingsStore::set is entered.
Apply(t) ==
    /\ pc[t] = "apply"
    /\ live' = [live EXCEPT ![ProcessOf[t]][job[t].k] = job[t].v]
    /\ Goto(t, "sflock")
    /\ UNCHANGED <<disk, up, loaded, values, lock, locals, counts>>

Rejected(t) ==
    /\ pc[t] = "apply"
    /\ Fault
    /\ Return(t)
    /\ UNCHANGED <<disk, memory, calls, crashes>>

\* ensureLoaded(true): the file is read again under the lock.  A file that
\* does not parse is refused.
Reload(t) ==
    /\ pc[t] = "reload"
    /\ values' = [values EXCEPT ![ProcessOf[t]] = Loaded(settings)]
    /\ IF settings.ok
       THEN Goto(t, "swrite") /\ UNCHANGED lock
       ELSE Goto(t, "rollback") /\ Unlock(t)
    /\ UNCHANGED <<disk, up, loaded, live, locals, counts>>

\* A file that cannot be opened is taken for one that holds nothing.
SettingsNotOpened(t) ==
    /\ pc[t] = "reload"
    /\ Fault
    /\ values' = [values EXCEPT ![ProcessOf[t]] = NothingSaved]
    /\ Goto(t, "swrite")
    /\ blind' = blind \cup {t}
    /\ UNCHANGED <<disk, up, loaded, live, lock, job, copy, oldValue, calls,
                   crashes>>

\* writeFile: the values in memory, this one changed, replace settings.json.
WriteFile(t) ==
    LET q == ProcessOf[t]
        j == job[t]
    IN /\ pc[t] = "swrite"
       /\ values' = [values EXCEPT ![q][j.k] = j.v]
       /\ settings' = [ok |-> TRUE, values |-> values'[q]]
       /\ saved' = [saved EXCEPT ![j.k] = @ \cup {j.v}]
       /\ Return(t)
       /\ UNCHANGED <<state, content, up, loaded, live, counts>>

\* The file cannot be written; the value in memory is what it was.
WriteFileFails(t) ==
    /\ pc[t] = "swrite"
    /\ Fault
    /\ Goto(t, "rollback")
    /\ Unlock(t)
    /\ UNCHANGED <<disk, memory, locals, calls, crashes>>

\* Mutant: the running plugin keeps the value that was not saved.
RollBackForgotten(t) ==
    /\ pc[t] = "rollback"
    /\ Return(t)
    /\ UNCHANGED <<disk, memory, counts>>

\* The running plugin is told the old value again.
RollBack(t) ==
    /\ pc[t] = "rollback"
    /\ live' = [live EXCEPT ![ProcessOf[t]][job[t].k] = oldValue[t]]
    /\ Return(t)
    /\ UNCHANGED <<disk, up, loaded, values, counts>>

-----------------------------------------------------------------------------
\* A process dies: its threads are gone and its lock is freed.
Crash(q) ==
    /\ q \in up
    /\ crashes < MaxCrashes
    /\ crashes' = crashes + 1
    /\ up' = up \ {q}
    /\ LET Gone(var, x) == [t \in Threads |->
                              IF ProcessOf[t] = q THEN x ELSE var[t]]
       IN /\ pc' = Gone(pc, "idle")
          /\ job' = Gone(job, None)
          /\ copy' = Gone(copy, Empty)
          /\ oldValue' = Gone(oldValue, Default)
    /\ blind' = {t \in blind : ProcessOf[t] # q}
    /\ lock' = IF \E t \in Threads : lock = t /\ ProcessOf[t] = q
               THEN None ELSE lock
    /\ loaded' = [loaded EXCEPT ![q] = {}]
    /\ values' = [values EXCEPT ![q] = NothingSaved]
    /\ live' = [live EXCEPT ![q] = [k \in Keys |-> Default]]
    /\ UNCHANGED <<disk, calls, faults>>

\* An application starts: it loads the active packages and tells each plugin
\* its saved settings.  A file it cannot open counts as empty here, too.
Start(q) ==
    /\ q \notin up
    /\ up' = up \cup {q}
    /\ \E opened \in SUBSET {"state", "settings"} :
         LET read == IF "settings" \in opened THEN Loaded(settings)
                     ELSE NothingSaved
         IN  /\ IF opened = {"state", "settings"} THEN UNCHANGED faults
                ELSE Fault
             /\ loaded' = [loaded EXCEPT ![q] = IF "state" \in opened
                                                THEN ActiveRevisions ELSE {}]
             /\ values' = [values EXCEPT ![q] = read]
             /\ live' = [live EXCEPT ![q] =
                           [k \in Keys |-> resolvedValue(read, k)]]
    /\ UNCHANGED <<disk, lock, pc, locals, calls, crashes>>

Step(t) ==
    \/ Enter(t) \/ TakeFileLock(t) \/ FileLockFails(t)
    \/ ReadState(t) \/ StateNotOpened(t)
    \/ Extract(t) \/ Commit(t) \/ StagingFails(t) \/ Resolve(t) \/ WriteState(t) \/ WriteStateFails(t)
    \/ ReadOld(t) \/ TakeLifecycle(t) \/ Apply(t) \/ Rejected(t)
    \/ Reload(t) \/ SettingsNotOpened(t) \/ WriteFile(t) \/ WriteFileFails(t) \/ RollBack(t)

Next == \/ \E t \in Threads : Call(t) \/ Step(t)
        \/ \E q \in Processes : Crash(q) \/ Start(q)

\* A thread that can go on does, which is what the scheduler gives it; a
\* caller of a free lock is not starved for ever, as the calls are finite.
Spec == Init /\ [][Next]_vars /\ \A t \in Threads : WF_vars(Step(t))

-----------------------------------------------------------------------------
\* Every variable keeps its kind; a thread holds the lock file exactly in the
\* steps between taking it and leaving the scope that took it.
TypeOK ==
    /\ state \in Maps
    /\ content \in [Packages -> {"absent", "partial", "complete"}]
    /\ settings \in [ok : BOOLEAN, values : Saved]
    /\ lock \in Threads \cup {None}
    /\ up \subseteq Processes
    /\ loaded \in [Processes -> SUBSET Packages]
    /\ values \in [Processes -> Saved]
    /\ live \in [Processes -> [Keys -> Values]]
    /\ job \in [Threads -> Jobs \cup {None}]
    /\ copy \in [Threads -> Maps]
    /\ oldValue \in [Threads -> Values]
    /\ blind \subseteq Threads
    /\ saved \in [Keys -> SUBSET Values]
    /\ calls \in 0 .. MaxCalls
    /\ faults \in 0 .. MaxFaults
    /\ crashes \in 0 .. MaxCrashes
    /\ pc \in [Threads -> {"idle", "enter", "old", "lifecycle"}
                          \cup InStore \cup InLifecycle]
    /\ \A t \in Threads :
          lock = t <=> pc[t] \in {"read", "extract", "commit",
                                  "resolve", "write", "reload", "swrite"}

\* However many processes die, and wherever: a package directory is whole, as
\* a later installation takes an existing one for done and could not mend it;
\* and the packages that state.json names, and those whose code some process
\* runs, stay there (installPlugin, removePlugin, resolveRevision).
PackagesWhole ==
    /\ \A pr \in Packages : content[pr] # "partial"
    /\ \A pr \in Packages :
          \/ state.active[pr[1]] = pr[2]
          \/ \E q \in Processes : pr \in loaded[q]
          => content[pr] = "complete"

\* Once no change of a setting is under way in a process, its plugin runs
\* with a value that settings.json has held, or the default: a change that
\* was refused or could not be written leaves nothing behind, in the plugin or
\* in memory, that a later failure could bring back (setPluginSetting,
\* SettingsStore::set).
UnsavedNeverLive ==
    \A q \in up, k \in Keys :
        (\A t \in Threads : ProcessOf[t] = q => pc[t] \notin InLifecycle)
        => live[q][k] \in saved[k]

\* The applications cannot overwrite one another's updates, nor a file that
\* does not parse (docs/plugins.md, "Installing and loading"); except that a
\* call which could not open the file replaces it by one with nothing but its
\* own entry, and then only that call (readState, SettingsStore::ensureLoaded).
Store == INSTANCE PluginState WITH Callers <- Threads
StoreSpec == Store!Spec

\* Every call returns unless its process dies, although calls wait for each
\* other across processes and processes die holding the lock.
CallsReturn == \A t \in Threads : pc[t] # "idle" ~> pc[t] = "idle"
=============================================================================
