-------------------------- MODULE PluginStoreProofs --------------------------
(***************************************************************************)
(* For any number of processes, threads, plugins, settings, failures and   *)
(* crashes: no update of the shared store is lost or written over a file   *)
(* that does not parse, unless the call that writes could not open the     *)
(* file; no package is ever half there, and no value that was not saved    *)
(* stays in a running plugin.                                              *)
(***************************************************************************)
EXTENDS PluginStore, TLAPS

SetJobs == [op : {"set"}, k : Keys, v : Values]
InSet == {"old", "lifecycle"} \cup InLifecycle
Told == {"sflock", "reload", "swrite", "rollback"}

\* Each thread is in a step of the call it makes, in a process that runs.
JobAgrees ==
    \A t \in Threads :
        /\ pc[t] # "idle" => ProcessOf[t] \in up
        /\ pc[t] \in InSet => job[t] \in SetJobs
        /\ pc[t] \in {"enter"} \cup InStore => job[t] \in Jobs /\ job[t].op # "set"
        /\ pc[t] \in {"extract", "commit", "resolve"} => job[t].op = "install"

\* Where a thread may know that it could not open its file.
Blinded == {"extract", "commit", "resolve", "write", "swrite", "rollback"}

\* What the files hold for a thread that could, or could not, open them.
StateOf(t) == IF t \in blind THEN Empty ELSE state
ValuesOf(t) == IF t \in blind THEN NothingSaved ELSE settings.values

\* What a thread read under the lock file is still what the file says, if it
\* could open the file, and an installation that is about to write has its
\* package in place.
ReadIsCurrent ==
    \A t \in Threads :
        /\ t \in blind => pc[t] \in Blinded
        /\ pc[t] \in {"extract", "commit", "resolve", "write"} =>
              /\ ~Refused(job[t], StateOf(t))
              /\ copy[t] = Changed(job[t], StateOf(t))
        /\ pc[t] = "write" /\ job[t].op = "install" =>
              content[<<job[t].p, job[t].r>>] = "complete"
        /\ pc[t] = "swrite" =>
              /\ t \in blind \/ settings.ok
              /\ values[ProcessOf[t]] = ValuesOf(t)

\* lifecycleMutex admits one thread of a process.
OneInLifecycle ==
    \A t, u \in Threads :
        t # u /\ ProcessOf[t] = ProcessOf[u] /\ pc[t] \in InLifecycle =>
            pc[u] \notin InLifecycle

\* A value in memory, in the file or kept for rolling back has been saved; a
\* value the plugin runs with has been too, or the thread that told it has
\* yet to save it or to take it back.
FromSaved ==
    /\ \A k \in Keys :
          /\ Default \in saved[k]
          /\ settings.values[k] \in saved[k] \cup {None}
          /\ \A q \in Processes : values[q][k] \in saved[k] \cup {None}
    /\ \A t \in Threads :
          pc[t] \in InSet \ {"old"} => oldValue[t] \in saved[job[t].k]
    /\ \A t \in Threads :
          pc[t] \in Told => live[ProcessOf[t]][job[t].k] = job[t].v
    /\ \A q \in Processes, k \in Keys :
          \/ live[q][k] \in saved[k]
          \/ \E t \in Threads : ProcessOf[t] = q /\ pc[t] \in Told /\ job[t].k = k

IInv ==
    /\ TypeOK
    /\ JobAgrees
    /\ ReadIsCurrent
    /\ PackagesWhole
    /\ OneInLifecycle
    /\ FromSaved


-----------------------------------------------------------------------------
(* The change a call makes.                                                 *)

\* Replacing one of the two maps of a state leaves a state.
LEMMA MapsUpdate ==
    ASSUME NEW s \in Maps, NEW a \in [Plugins -> Revisions \cup {None}],
           NEW d \in [Types -> Plugins \cup {None}]
    PROVE  /\ [s EXCEPT !.active = a] \in Maps
           /\ [s EXCEPT !.drivers = d] \in Maps
           /\ [s EXCEPT !.active = a, !.drivers = d] \in Maps
BY Zenon DEF Maps

\* What a job is follows from its operation.
LEMMA JobShape ==
    ASSUME NEW j \in Jobs
    PROVE  /\ j.op = "install" => j.p \in Plugins /\ j.r \in Revisions
           /\ j.op = "remove" => j.p \in Plugins
           /\ j.op = "select" => j.ty \in Types /\ j.d \in Plugins \cup {None}
           /\ j.op = "set" => j \in SetJobs
           /\ j.op \in {"install", "remove", "select", "set"}
BY DEF Jobs, SetJobs

\* The change of a call keeps the kind of the state and whether it parses.
LEMMA ChangedFacts ==
    ASSUME NEW j \in Jobs, j.op # "set", NEW s \in Maps
    PROVE  /\ Changed(j, s) \in Maps
           /\ \A p \in Plugins, r \in Revisions :
                 Changed(j, s).active[p] = r =>
                     \/ s.active[p] = r
                     \/ j.op = "install" /\ j.p = p /\ j.r = r
<1>a. /\ s.active \in [Plugins -> Revisions \cup {None}]
      /\ s.drivers \in [Types -> Plugins \cup {None}]
      /\ s = [active |-> s.active, drivers |-> s.drivers, ok |-> s.ok]
  BY DEF Maps
<1>1. CASE j.op = "install"
  <2> DEFINE a == [s.active EXCEPT ![j.p] = j.r]
  <2>1. Changed(j, s) = [s EXCEPT !.active = a]
    BY <1>1, <1>a DEF Changed
  <2>2. a \in [Plugins -> Revisions \cup {None}]
    BY <1>1, <1>a, JobShape
  <2>3. [s EXCEPT !.active = a].active = a
    BY <1>a
  <2>4. \A p \in Plugins : a[p] = IF p = j.p THEN j.r ELSE s.active[p]
    BY <1>a
  <2> HIDE DEF a
  <2>5. Changed(j, s) \in Maps
    BY <1>a, <2>1, <2>2, MapsUpdate, Zenon
  <2> QED
    BY <1>1, <2>1, <2>3, <2>4, <2>5
<1>2. CASE j.op = "remove"
  <2> DEFINE a == [s.active EXCEPT ![j.p] = None]
             d == [ty \in Types |-> IF s.drivers[ty] = j.p THEN None ELSE s.drivers[ty]]
  <2>1. Changed(j, s) = [s EXCEPT !.active = a, !.drivers = d]
    BY <1>2, <1>a DEF Changed
  <2>2. a \in [Plugins -> Revisions \cup {None}] /\ d \in [Types -> Plugins \cup {None}]
    BY <1>2, <1>a, JobShape
  <2>3. [s EXCEPT !.active = a, !.drivers = d].active = a
    BY <1>a
  <2>4. \A p \in Plugins : a[p] = IF p = j.p THEN None ELSE s.active[p]
    BY <1>a
  <2> HIDE DEF a, d
  <2>5. [s EXCEPT !.active = a, !.drivers = d] \in Maps
    BY <2>2, MapsUpdate
  <2>6. Changed(j, s) \in Maps
    BY <2>1, <2>5
  <2> QED
    BY <1>2, <2>1, <2>3, <2>4, <2>6, StoreAssumption
<1>3. CASE j.op = "select"
  <2> DEFINE d == [s.drivers EXCEPT ![j.ty] = j.d]
  <2>1. Changed(j, s) = [s EXCEPT !.drivers = d]
    BY <1>3, <1>a DEF Changed
  <2>2. d \in [Types -> Plugins \cup {None}]
    BY <1>3, <1>a, JobShape
  <2>3. [s EXCEPT !.drivers = d].active = s.active
    BY <1>a
  <2> HIDE DEF d
  <2>4. Changed(j, s) \in Maps
    BY <1>a, <2>1, <2>2, MapsUpdate, Zenon
  <2> QED
    BY <2>1, <2>3, <2>4
<1> QED
  BY <1>1, <1>2, <1>3, JobShape

-----------------------------------------------------------------------------
(* What the ends of a call, and of a process, do to the threads.            *)

Holding == {"read", "extract", "commit", "resolve", "write", "reload", "swrite"}

PCs == {"idle", "enter", "old", "lifecycle"} \cup InStore \cup InLifecycle

\* The lock file is locked exactly while its holder is between its two ends.
LockAgrees == \A t \in Threads : lock = t <=> pc[t] \in Holding

LocalsTyped ==
    /\ lock \in Threads \cup {None}
    /\ job \in [Threads -> Jobs \cup {None}]
    /\ copy \in [Threads -> Maps]
    /\ oldValue \in [Threads -> Values]
    /\ blind \subseteq Threads
    /\ pc \in [Threads -> PCs]
    /\ LockAgrees

\* A state with empty maps is one.
LEMMA EmptyTyped == Empty \in Maps /\ NothingSaved \in Saved
<1>1. Empty \in Maps
  BY Zenon DEF Empty, Maps
<1>2. NothingSaved \in Saved
  BY DEF NothingSaved, Saved
<1> QED
  BY <1>1, <1>2

\* A return resets the thread's locals, frees its lock and no other.
LEMMA ReturnFacts ==
    ASSUME LocalsTyped, NEW t \in Threads, Return(t)
    PROVE  /\ LocalsTyped'
           /\ pc'[t] = "idle" /\ t \notin blind'
           /\ \A u \in Threads \ {t} :
                 /\ pc'[u] = pc[u] /\ job'[u] = job[u]
                 /\ copy'[u] = copy[u] /\ oldValue'[u] = oldValue[u]
                 /\ u \in blind' <=> u \in blind
<1>1. /\ pc'[t] = "idle" /\ t \notin blind'
      /\ \A u \in Threads \ {t} :
           /\ pc'[u] = pc[u] /\ job'[u] = job[u]
           /\ copy'[u] = copy[u] /\ oldValue'[u] = oldValue[u]
           /\ u \in blind' <=> u \in blind
  BY DEF Return, LocalsTyped
<1>2. /\ lock' \in Threads \cup {None}
      /\ job' \in [Threads -> Jobs \cup {None}]
      /\ copy' \in [Threads -> Maps]
      /\ oldValue' \in [Threads -> Values]
      /\ blind' \subseteq Threads
      /\ pc' \in [Threads -> PCs]
  BY EmptyTyped, StoreAssumption DEF Return, Unlock, LocalsTyped, PCs
<1>3. LockAgrees'
  BY <1>1, StoreAssumption DEF Return, Unlock, LocalsTyped, LockAgrees, Holding
<1> QED
  BY <1>1, <1>2, <1>3 DEF LocalsTyped

\* Moving one thread to another step leaves the others where they are.
LEMMA GotoFacts ==
    ASSUME LocalsTyped, NEW t \in Threads, NEW l \in PCs, Goto(t, l)
    PROVE  /\ pc' \in [Threads -> PCs]
           /\ pc'[t] = l
           /\ \A u \in Threads \ {t} : pc'[u] = pc[u]
BY DEF Goto, LocalsTyped

\* The end of a process takes all its threads and nothing of any other.
LEMMA CrashFacts ==
    ASSUME LocalsTyped, NEW q \in Processes, Crash(q)
    PROVE  /\ LocalsTyped'
           /\ \A u \in Threads : ProcessOf[u] = q =>
                 pc'[u] = "idle" /\ u \notin blind'
           /\ \A u \in Threads : ProcessOf[u] # q =>
                 /\ pc'[u] = pc[u] /\ job'[u] = job[u]
                 /\ copy'[u] = copy[u] /\ oldValue'[u] = oldValue[u]
                 /\ u \in blind' <=> u \in blind
<1>1. /\ \A u \in Threads : ProcessOf[u] = q =>
           pc'[u] = "idle" /\ u \notin blind'
      /\ \A u \in Threads : ProcessOf[u] # q =>
           /\ pc'[u] = pc[u] /\ job'[u] = job[u]
           /\ copy'[u] = copy[u] /\ oldValue'[u] = oldValue[u]
           /\ u \in blind' <=> u \in blind
  BY DEF Crash
<1>2. /\ lock' \in Threads \cup {None}
      /\ job' \in [Threads -> Jobs \cup {None}]
      /\ copy' \in [Threads -> Maps]
      /\ oldValue' \in [Threads -> Values]
      /\ blind' \subseteq Threads
      /\ pc' \in [Threads -> PCs]
  BY EmptyTyped, StoreAssumption DEF Crash, LocalsTyped, PCs
<1>3. LockAgrees'
  BY <1>1, StoreAssumption DEF Crash, LocalsTyped, LockAgrees, Holding
<1> QED
  BY <1>1, <1>2, <1>3 DEF LocalsTyped

\* An application that starts has what the files hold, or nothing.
LEMMA StartFacts ==
    ASSUME NEW q \in Processes, Start(q)
    PROVE  \E read \in {Loaded(settings), NothingSaved} :
              /\ values' = [values EXCEPT ![q] = read]
              /\ live' = [live EXCEPT ![q] =
                            [k \in Keys |-> resolvedValue(read, k)]]
BY DEF Start

\* The steps of a thread that end its call.
Ends(t) ==
    \/ FileLockFails(t) /\ pc[t] = "flock"
    \/ ReadState(t) /\ Refused(job[t], state)
    \/ StateNotOpened(t) /\ Refused(job[t], Empty)
    \/ StagingFails(t)
    \/ Resolve(t) /\ ~Resolves(<<job[t].p, job[t].r>>)
    \/ WriteState(t) \/ WriteStateFails(t)
    \/ Rejected(t) \/ WriteFile(t) \/ RollBack(t)

\* Each of them is a return.
LEMMA EndsReturn ==
    ASSUME NEW t \in Threads, Ends(t)
    PROVE  Return(t)
BY DEF Ends, FileLockFails, ReadState, StateNotOpened, StagingFails, Resolve, WriteState,
       WriteStateFails, Rejected, WriteFile, RollBack

\* The steps that read state.json and go on.
Reads(t) ==
    \/ ReadState(t) /\ ~Refused(job[t], state)
    \/ StateNotOpened(t) /\ ~Refused(job[t], Empty)

\* Such a thread goes on with the file as it holds it for the thread.
LEMMA ReadsFacts ==
    ASSUME IInv, NEW t \in Threads, Reads(t)
    PROVE  /\ pc[t] = "read" /\ job[t] \in Jobs
           /\ StateOf(t)' \in Maps
           /\ ~Refused(job[t], StateOf(t)')
           /\ Continue(t, StateOf(t)')
           /\ blind' = blind \/ blind' = blind \cup {t}
           /\ UNCHANGED <<disk, memory>>
<1>1. /\ pc[t] = "read" /\ t \notin blind /\ state \in Maps /\ job[t] \in Jobs
      /\ UNCHANGED <<disk, memory>>
  BY DEF Reads, ReadState, StateNotOpened, IInv, TypeOK, JobAgrees, ReadIsCurrent, InStore,
         Blinded
<1>2. state' = state
  BY <1>1 DEF disk
<1>3. CASE ReadState(t) /\ ~Refused(job[t], state)
  <2>1. StateOf(t)' = state
    BY <1>1, <1>2, <1>3 DEF ReadState, StateOf
  <2> QED
    BY <1>1, <1>3, <2>1 DEF ReadState
<1>4. CASE StateNotOpened(t) /\ ~Refused(job[t], Empty)
  <2>1. StateOf(t)' = Empty
    BY <1>4 DEF StateNotOpened, StateOf
  <2> QED
    BY <1>1, <1>4, <2>1, EmptyTyped DEF StateNotOpened
<1> QED
  BY <1>3, <1>4 DEF Reads

\* A step of a thread leaves the other threads alone, and the lock and the
\* program counters in agreement.
LEMMA ThreadStep ==
    ASSUME IInv, NEW t \in Threads, Call(t) \/ Step(t)
    PROVE  /\ LocalsTyped'
           /\ \A u \in Threads \ {t} :
                 /\ pc'[u] = pc[u] /\ job'[u] = job[u]
                 /\ copy'[u] = copy[u] /\ oldValue'[u] = oldValue[u]
                 /\ u \in blind' <=> u \in blind
           /\ Ends(t) => pc'[t] = "idle" /\ t \notin blind'
<1> DEFINE Others == \A u \in Threads \ {t} :
                        /\ pc'[u] = pc[u] /\ job'[u] = job[u]
                        /\ copy'[u] = copy[u] /\ oldValue'[u] = oldValue[u]
                        /\ u \in blind' <=> u \in blind
<1>a. LocalsTyped /\ JobAgrees
  BY DEF IInv, TypeOK, LocalsTyped, LockAgrees, Holding, PCs
<1>b. None \notin Threads
  BY StoreAssumption
<1>c. \A u \in Threads : lock = u <=> pc[u] \in Holding
  BY <1>a DEF LocalsTyped, LockAgrees
<1>d. ASSUME NEW l \in PCs, Goto(t, l), UNCHANGED job,
             copy' \in [Threads -> Maps], oldValue' \in [Threads -> Values],
             \A u \in Threads \ {t} : copy'[u] = copy[u] /\ oldValue'[u] = oldValue[u],
             blind' = blind \/ blind' = blind \cup {t},
             lock' \in Threads \cup {None},
             \/ UNCHANGED lock /\ (l \in Holding <=> pc[t] \in Holding)
             \/ lock = t /\ lock' = None /\ l \notin Holding
             \/ lock = None /\ lock' = t /\ l \in Holding
      PROVE  LocalsTyped' /\ Others
  <2>1. /\ pc' \in [Threads -> PCs] /\ pc'[t] = l
        /\ \A u \in Threads \ {t} : pc'[u] = pc[u]
    BY <1>a, <1>d, GotoFacts
  <2>2. LockAgrees'
    BY <1>b, <1>c, <1>d, <2>1 DEF LockAgrees
  <2> QED
    BY <1>a, <1>d, <2>1, <2>2 DEF LocalsTyped
<1>1. CASE Ends(t)
  BY <1>1, <1>a, EndsReturn, ReturnFacts
<1>2. CASE Call(t)
  <2>1. PICK j \in Offered :
          /\ job' = [job EXCEPT ![t] = j]
          /\ Goto(t, IF j.op = "set" THEN "old" ELSE "enter")
    BY <1>2 DEF Call
  <2>2. j \in Jobs
    BY StoreAssumption
  <2>3. /\ pc' \in [Threads -> PCs] /\ pc'[t] \in {"old", "enter"}
        /\ \A u \in Threads \ {t} : pc'[u] = pc[u]
    BY <1>a, <2>1 DEF Goto, LocalsTyped, PCs
  <2>4. UNCHANGED <<lock, copy, oldValue, blind>> /\ pc[t] = "idle"
    BY <1>2 DEF Call
  <2>5. LockAgrees'
    BY <1>c, <2>3, <2>4 DEF LockAgrees, Holding
  <2>6. job' \in [Threads -> Jobs \cup {None}] /\ \A u \in Threads \ {t} : job'[u] = job[u]
    BY <1>a, <2>1, <2>2 DEF LocalsTyped
  <2>7. ~Ends(t)
    BY <2>4 DEF Ends, FileLockFails, ReadState, StateNotOpened, StagingFails, Resolve, WriteState,
                WriteStateFails, Rejected, WriteFile, RollBack
  <2> QED
    BY <1>a, <2>3, <2>4, <2>5, <2>6, <2>7 DEF LocalsTyped
<1>3. CASE Enter(t) \/ Extract(t) \/ Commit(t) \/ TakeLifecycle(t) \/ Apply(t)
  <2>1. PICK l \in PCs : Goto(t, l) /\ (l \in Holding <=> pc[t] \in Holding)
    BY <1>3 DEF Enter, Extract, Commit, TakeLifecycle, Apply, PCs, InStore, InLifecycle,
                Holding
  <2>2. UNCHANGED <<lock, job, copy, oldValue, blind>>
    BY <1>3 DEF Enter, Extract, Commit, TakeLifecycle, Apply, locals
  <2>3. LocalsTyped' /\ Others
    BY <1>a, <1>d, <2>1, <2>2 DEF LocalsTyped
  <2> QED
    BY <1>1, <2>3
<1>4. CASE TakeFileLock(t)
  <2>1. PICK l \in PCs : Goto(t, l) /\ l \in Holding
    BY <1>4 DEF TakeFileLock, PCs, InStore, InLifecycle, Holding
  <2>2. UNCHANGED <<job, copy, oldValue, blind>> /\ lock = None /\ lock' = t
    BY <1>4 DEF TakeFileLock, locals
  <2>3. LocalsTyped' /\ Others
    BY <1>a, <1>d, <2>1, <2>2 DEF LocalsTyped
  <2> QED
    BY <1>1, <2>3
<1>5. CASE FileLockFails(t) /\ pc[t] = "sflock"
  <2>1. Goto(t, "rollback") /\ UNCHANGED <<lock, job, copy, oldValue, blind>>
    BY <1>5 DEF FileLockFails, locals
  <2>2. "rollback" \in PCs /\ "rollback" \notin Holding /\ pc[t] \notin Holding
    BY <1>5 DEF PCs, InLifecycle, Holding
  <2>3. LocalsTyped' /\ Others
    BY <1>a, <1>d, <2>1, <2>2 DEF LocalsTyped
  <2> QED
    BY <1>1, <2>3
<1>6. CASE Reads(t)
  <2> DEFINE file == StateOf(t)'
  <2>1. /\ pc[t] = "read" /\ file \in Maps /\ Continue(t, file)
        /\ blind' = blind \/ blind' = blind \cup {t}
    BY <1>6, ReadsFacts
  <2>2. Changed(job[t], file) \in Maps
    BY <1>a, <2>1, ChangedFacts DEF JobAgrees, InStore
  <2> HIDE DEF file
  <2>3. PICK l \in PCs : Goto(t, l) /\ l \in Holding
    BY <2>1 DEF Continue, PCs, InStore, Holding
  <2>4. UNCHANGED <<lock, job, oldValue>> /\ copy' = [copy EXCEPT ![t] = Changed(job[t], file)]
    BY <2>1 DEF Continue
  <2>5. pc[t] \in Holding
    BY <2>1 DEF Holding
  <2>6. copy' \in [Threads -> Maps] /\ \A u \in Threads \ {t} : copy'[u] = copy[u]
    BY <1>a, <2>2, <2>4 DEF LocalsTyped
  <2>7. LocalsTyped' /\ Others
    BY <1>a, <1>d, <2>1, <2>3, <2>4, <2>5, <2>6 DEF LocalsTyped
  <2>8. ~Ends(t)
    <3>1. pc'[t] # "idle"
      BY <1>a, <2>3, GotoFacts DEF Holding
    <3> QED
      BY <1>a, <3>1, EndsReturn, ReturnFacts
  <2> QED
    BY <2>7, <2>8
<1>7. CASE Resolve(t) /\ Resolves(<<job[t].p, job[t].r>>)
  <2>1. Goto(t, "write") /\ UNCHANGED <<lock, job, copy, oldValue, blind>> /\ pc[t] = "resolve"
    BY <1>7 DEF Resolve, locals
  <2>2. "write" \in PCs /\ "write" \in Holding /\ pc[t] \in Holding
    BY <2>1 DEF PCs, InStore, Holding
  <2>3. LocalsTyped' /\ Others
    BY <1>a, <1>d, <2>1, <2>2 DEF LocalsTyped
  <2> QED
    BY <1>1, <2>3
<1>8. CASE ReadOld(t)
  <2>1. /\ Goto(t, "lifecycle") /\ UNCHANGED <<lock, job, copy, blind>> /\ pc[t] = "old"
        /\ oldValue' = [oldValue EXCEPT ![t] = resolvedValue(values[ProcessOf[t]], job[t].k)]
    BY <1>8 DEF ReadOld
  <2>2. "lifecycle" \in PCs /\ "lifecycle" \notin Holding /\ pc[t] \notin Holding
    BY <2>1 DEF PCs, Holding
  <2>3. resolvedValue(values[ProcessOf[t]], job[t].k) \in Values
    BY <1>a, <2>1, StoreAssumption
       DEF JobAgrees, SetJobs, InSet, IInv, TypeOK, Saved, resolvedValue
  <2>4. /\ oldValue' \in [Threads -> Values]
        /\ \A u \in Threads \ {t} : oldValue'[u] = oldValue[u]
    BY <1>a, <2>1, <2>3 DEF LocalsTyped
  <2>5. LocalsTyped' /\ Others
    BY <1>a, <1>d, <2>1, <2>2, <2>4 DEF LocalsTyped
  <2> QED
    BY <1>1, <2>5
<1>9. CASE Reload(t) \/ SettingsNotOpened(t) \/ WriteFileFails(t)
  <2>1. PICK l \in PCs : /\ Goto(t, l)
                         /\ \/ l = "swrite" /\ UNCHANGED lock
                            \/ l = "rollback" /\ Unlock(t)
    BY <1>9 DEF Reload, SettingsNotOpened, WriteFileFails, PCs, InLifecycle
  <2>2. /\ UNCHANGED <<job, copy, oldValue>> /\ pc[t] \in Holding
        /\ blind' = blind \/ blind' = blind \cup {t}
    BY <1>9 DEF Reload, SettingsNotOpened, WriteFileFails, locals, Holding
  <2>3. "swrite" \in Holding /\ "rollback" \notin Holding /\ lock = t
    BY <1>c, <2>2 DEF Holding
  <2>4. LocalsTyped' /\ Others
    BY <1>a, <1>d, <2>1, <2>2, <2>3 DEF LocalsTyped, Unlock
  <2> QED
    BY <1>1, <2>4
<1> QED
  BY <1>1, <1>2, <1>3, <1>4, <1>5, <1>6, <1>7, <1>8, <1>9
     DEF Step, Ends, Reads, FileLockFails, ReadState, StateNotOpened, Resolve

-----------------------------------------------------------------------------
(* One lemma per part of the invariant.                                     *)

\* Every step keeps the locals of the threads and the lock in agreement.
LEMMA LocalsStep ==
    ASSUME IInv, Next
    PROVE  LocalsTyped'
<1>a. LocalsTyped
  BY DEF IInv, TypeOK, LocalsTyped, LockAgrees, Holding, PCs
<1>1. ASSUME NEW q \in Processes, Start(q)
      PROVE  LocalsTyped'
  BY <1>1, <1>a DEF Start, locals, LocalsTyped, LockAgrees
<1> QED
  BY <1>1, <1>a, ThreadStep, CrashFacts DEF Next

\* Every variable keeps its kind.
LEMMA TypeStep ==
    ASSUME IInv, Next
    PROVE  TypeOK'
<1> DEFINE Files == /\ state \in Maps
                    /\ content \in [Packages -> {"absent", "partial", "complete"}]
                    /\ settings \in [ok : BOOLEAN, values : Saved]
                    /\ saved \in [Keys -> SUBSET Values]
           Memory == /\ up \subseteq Processes
                     /\ loaded \in [Processes -> SUBSET Packages]
                     /\ values \in [Processes -> Saved]
                     /\ live \in [Processes -> [Keys -> Values]]
           Counts == /\ calls \in 0 .. MaxCalls
                     /\ faults \in 0 .. MaxFaults
                     /\ crashes \in 0 .. MaxCrashes
<1>a. Files /\ Memory /\ Counts /\ LocalsTyped /\ JobAgrees
  BY DEF IInv, TypeOK, LocalsTyped, LockAgrees, Holding, PCs
<1>b. TypeOK' <=> Files' /\ Memory' /\ Counts' /\ LocalsTyped'
  BY DEF TypeOK, LocalsTyped, LockAgrees, Holding, PCs
<1>c. Loaded(settings) \in Saved
  BY <1>a, EmptyTyped DEF Loaded
<1>d. \A t \in Threads : ProcessOf[t] \in Processes
  BY StoreAssumption
<1>1. Counts'
  <2>1. calls' = calls \/ (calls < MaxCalls /\ calls' = calls + 1)
    BY DEF Next, Call, Step, Enter, TakeFileLock, FileLockFails, ReadState, StateNotOpened, Continue, Extract, Commit,
           StagingFails, Resolve, WriteState, WriteStateFails, ReadOld, TakeLifecycle, Apply,
           Rejected, Reload, SettingsNotOpened, WriteFile, WriteFileFails, RollBack, Crash, Start, counts
  <2>2. faults' = faults \/ (faults < MaxFaults /\ faults' = faults + 1)
    BY DEF Next, Call, Step, Enter, TakeFileLock, FileLockFails, ReadState, StateNotOpened, Continue, Extract, Commit,
           StagingFails, Resolve, WriteState, WriteStateFails, ReadOld, TakeLifecycle, Apply,
           Rejected, Reload, SettingsNotOpened, WriteFile, WriteFileFails, RollBack, Crash, Start, counts, Fault
  <2>3. crashes' = crashes \/ (crashes < MaxCrashes /\ crashes' = crashes + 1)
    BY DEF Next, Call, Step, Enter, TakeFileLock, FileLockFails, ReadState, StateNotOpened, Continue, Extract, Commit,
           StagingFails, Resolve, WriteState, WriteStateFails, ReadOld, TakeLifecycle, Apply,
           Rejected, Reload, SettingsNotOpened, WriteFile, WriteFileFails, RollBack, Crash, Start, counts
  <2> QED
    BY <1>a, <2>1, <2>2, <2>3, StoreAssumption
<1>2. ASSUME UNCHANGED <<disk, memory>>
      PROVE  Files' /\ Memory'
  BY <1>2, <1>a DEF disk, memory
<1>3. ASSUME NEW t \in Threads, Commit(t)
      PROVE  Files' /\ Memory'
  <2>1. <<job[t].p, job[t].r>> \in Packages
    BY <1>3, <1>a, JobShape DEF Commit, JobAgrees, InStore, Packages
  <2>2. content' \in [Packages -> {"absent", "partial", "complete"}]
    BY <1>3, <1>a, <2>1 DEF Commit
  <2> QED
    BY <1>3, <1>a, <2>2 DEF Commit, memory
<1>4. ASSUME NEW t \in Threads, WriteState(t)
      PROVE  Files' /\ Memory'
  BY <1>4, <1>a DEF WriteState, memory, LocalsTyped
<1>5. ASSUME NEW t \in Threads, Apply(t)
      PROVE  Files' /\ Memory'
  <2>1. job[t] \in SetJobs
    BY <1>5, <1>a DEF Apply, JobAgrees, InSet, InLifecycle
  <2>2. live' \in [Processes -> [Keys -> Values]]
    BY <1>5, <1>a, <1>d, <2>1 DEF Apply, SetJobs
  <2> QED
    BY <1>5, <1>a, <2>2 DEF Apply, disk
<1>6. ASSUME NEW t \in Threads, Reload(t) \/ SettingsNotOpened(t)
      PROVE  Files' /\ Memory'
  <2>1. PICK read \in Saved : values' = [values EXCEPT ![ProcessOf[t]] = read]
    BY <1>6, <1>c, EmptyTyped DEF Reload, SettingsNotOpened
  <2>2. UNCHANGED <<disk, up, loaded, live>>
    BY <1>6 DEF Reload, SettingsNotOpened
  <2>3. values' \in [Processes -> Saved]
    BY <1>a, <2>1
  <2> QED
    BY <1>a, <2>2, <2>3 DEF disk
<1>7. ASSUME NEW t \in Threads, WriteFile(t)
      PROVE  Files' /\ Memory'
  <2>1. job[t] \in SetJobs
    BY <1>7, <1>a DEF WriteFile, JobAgrees, InSet, InLifecycle
  <2>2. values' \in [Processes -> Saved]
    BY <1>7, <1>a, <1>d, <2>1 DEF WriteFile, SetJobs, Saved
  <2>3. saved' \in [Keys -> SUBSET Values]
    BY <1>7, <1>a, <2>1 DEF WriteFile, SetJobs
  <2>4. settings' \in [ok : BOOLEAN, values : Saved]
    BY <1>7, <1>d, <2>2 DEF WriteFile
  <2> QED
    BY <1>7, <1>a, <2>2, <2>3, <2>4 DEF WriteFile
<1>8. ASSUME NEW t \in Threads, RollBack(t)
      PROVE  Files' /\ Memory'
  <2>1. job[t] \in SetJobs
    BY <1>8, <1>a DEF RollBack, JobAgrees, InSet, InLifecycle
  <2>2. live' \in [Processes -> [Keys -> Values]]
    BY <1>8, <1>a, <1>d, <2>1 DEF RollBack, SetJobs, LocalsTyped
  <2> QED
    BY <1>8, <1>a, <2>2 DEF RollBack, disk
<1>9. ASSUME NEW q \in Processes, Crash(q)
      PROVE  Files' /\ Memory'
  <2>1. [k \in Keys |-> Default] \in [Keys -> Values]
    BY StoreAssumption
  <2> QED
    BY <1>9, <1>a, <2>1, EmptyTyped DEF Crash, disk
<1>10. ASSUME NEW q \in Processes, Start(q)
       PROVE  Files' /\ Memory'
  <2>1. PICK read \in Saved :
           /\ values' = [values EXCEPT ![q] = read]
           /\ live' = [live EXCEPT ![q] = [k \in Keys |-> resolvedValue(read, k)]]
    BY <1>10, <1>c, EmptyTyped, StartFacts
  <2>2. [k \in Keys |-> resolvedValue(read, k)] \in [Keys -> Values]
    BY StoreAssumption DEF resolvedValue, Saved
  <2>3. values' \in [Processes -> Saved] /\ live' \in [Processes -> [Keys -> Values]]
    BY <1>a, <2>1, <2>2
  <2>4. PICK revisions \in SUBSET Packages : loaded' = [loaded EXCEPT ![q] = revisions]
    BY <1>10 DEF Start, ActiveRevisions
  <2>5. loaded' \in [Processes -> SUBSET Packages]
    BY <1>a, <2>4
  <2> QED
    BY <1>10, <1>a, <2>3, <2>5 DEF Start, disk
<1>11. Files' /\ Memory'
  BY <1>2, <1>3, <1>4, <1>5, <1>6, <1>7, <1>8, <1>9, <1>10
     DEF Next, Call, Step, Enter, TakeFileLock, FileLockFails, ReadState, StateNotOpened, Continue, Extract,
         StagingFails, Resolve, WriteStateFails, ReadOld, TakeLifecycle, Rejected,
         WriteFileFails
<1> QED
  BY <1>1, <1>11, <1>b, LocalsStep

\* A thread stays in the steps of its call.
LEMMA JobAgreesStep ==
    ASSUME IInv, Next
    PROVE  JobAgrees'
<1>a. TypeOK /\ JobAgrees
  BY DEF IInv
<1> DEFINE Own(t) == /\ pc[t] # "idle" => ProcessOf[t] \in up
                     /\ pc[t] \in InSet => job[t] \in SetJobs
                     /\ pc[t] \in {"enter"} \cup InStore => job[t] \in Jobs /\ job[t].op # "set"
                     /\ pc[t] \in {"extract", "commit", "resolve"} => job[t].op = "install"
<1>b. \A t \in Threads : Own(t)
  BY <1>a DEF JobAgrees
<1>c. ASSUME \A t \in Threads : Own(t)'
      PROVE  JobAgrees'
  BY <1>c DEF JobAgrees
<1>1. ASSUME NEW t \in Threads, Call(t) \/ Step(t), Own(t)', up' = up
      PROVE  JobAgrees'
  <2>1. \A u \in Threads \ {t} : pc'[u] = pc[u] /\ job'[u] = job[u]
    BY <1>1, ThreadStep
  <2>2. \A u \in Threads \ {t} : Own(u)'
    BY <1>1, <1>b, <2>1
  <2> QED
    BY <1>1, <2>2, <1>c
<1>2. ASSUME NEW t \in Threads, Ends(t)
      PROVE  Own(t)'
  <2>1. pc'[t] = "idle"
    BY <1>2, ThreadStep DEF Ends, Step
  <2> QED
    BY <2>1 DEF InSet, InStore, InLifecycle
<1>3. ASSUME NEW t \in Threads, Call(t)
      PROVE  Own(t)'
  <2>1. PICK j \in Offered :
          /\ job' = [job EXCEPT ![t] = j]
          /\ Goto(t, IF j.op = "set" THEN "old" ELSE "enter")
    BY <1>3 DEF Call
  <2>2. j \in Jobs /\ ProcessOf[t] \in up' /\ up' = up
    BY <1>3, StoreAssumption DEF Call, memory
  <2>3. job'[t] = j /\ pc'[t] = IF j.op = "set" THEN "old" ELSE "enter"
    BY <2>1, <1>a DEF Goto, TypeOK
  <2> QED
    BY <2>2, <2>3, JobShape DEF InSet, InStore, InLifecycle
<1>4. ASSUME NEW t \in Threads, Step(t), ~Ends(t)
      PROVE  Own(t)'
  <2>1. job' = job /\ up' = up
    BY <1>4 DEF Step, Ends, Enter, TakeFileLock, FileLockFails, ReadState, StateNotOpened, Continue, Extract, Commit,
       Resolve, ReadOld, TakeLifecycle, Apply, Reload, SettingsNotOpened, WriteFileFails, locals, memory
  <2>2. pc[t] # "idle"
    BY <1>4 DEF Step, Ends, Enter, TakeFileLock, FileLockFails, ReadState, StateNotOpened, Continue, Extract, Commit,
       Resolve, ReadOld, TakeLifecycle, Apply, Reload, SettingsNotOpened, WriteFileFails
  <2>3. CASE pc[t] \in InSet
    <3>1. job[t].op = "set"
      BY <1>b, <2>3 DEF SetJobs
    <3>2. pc'[t] \in InSet
      BY <1>4, <2>3, <3>1, <1>a
         DEF Step, Ends, Enter, TakeFileLock, FileLockFails, ReadState, StateNotOpened, Continue, Extract, Commit,
             Resolve, ReadOld, TakeLifecycle, Apply, Reload, SettingsNotOpened, WriteFileFails, Goto, InSet,
             InLifecycle, InStore, TypeOK
    <3> QED
      BY <1>b, <2>1, <2>2, <2>3, <3>2 DEF InSet, InStore, InLifecycle
  <2>4. CASE pc[t] \in {"enter"} \cup InStore
    <3>1. job[t].op # "set"
      BY <1>b, <2>4
    <3>2. /\ pc'[t] \in {"enter"} \cup InStore
          /\ pc'[t] \in {"extract", "commit", "resolve"} => job[t].op = "install"
      BY <1>4, <2>4, <3>1, <1>a, <1>b
         DEF Step, Ends, Enter, TakeFileLock, FileLockFails, ReadState, StateNotOpened, Continue, Extract, Commit,
             Resolve, ReadOld, TakeLifecycle, Apply, Reload, SettingsNotOpened, WriteFileFails, Goto, InSet,
             InLifecycle, InStore, TypeOK
    <3> QED
      BY <1>b, <2>1, <2>2, <2>4, <3>2 DEF InSet, InStore, InLifecycle
  <2> QED
    BY <2>2, <2>3, <2>4, <1>a DEF TypeOK, InSet
<1>5. ASSUME NEW t \in Threads, Call(t) \/ Step(t)
      PROVE  up' = up
  BY <1>5 DEF Call, Step, Enter, TakeFileLock, FileLockFails, ReadState, StateNotOpened, Continue, Extract, Commit,
       StagingFails, Resolve, WriteState, WriteStateFails, ReadOld, TakeLifecycle, Apply,
       Rejected, Reload, SettingsNotOpened, WriteFile, WriteFileFails, RollBack, memory
<1>6. ASSUME NEW q \in Processes, Crash(q)
      PROVE  JobAgrees'
  <2>1. up' = up \ {q}
    BY <1>6 DEF Crash
  <2>2. LocalsTyped
    BY <1>a DEF TypeOK, LocalsTyped, LockAgrees, Holding, PCs
  <2>3. \A t \in Threads : Own(t)'
    BY <1>6, <1>b, <2>1, <2>2, CrashFacts DEF InSet, InStore, InLifecycle
  <2> QED
    BY <2>3, <1>c
<1>7. ASSUME NEW q \in Processes, Start(q)
      PROVE  JobAgrees'
  BY <1>7, <1>a DEF Start, JobAgrees, locals
<1> HIDE DEF Own
<1> QED
  BY <1>1, <1>2, <1>3, <1>4, <1>5, <1>6, <1>7 DEF Next

\* Who changes the files and the memory of a process.
LEMMA Writers ==
    ASSUME NEW t \in Threads, Call(t) \/ Step(t)
    PROVE  /\ WriteState(t) \/ UNCHANGED state
           /\ WriteFile(t) \/ UNCHANGED <<settings, saved>>
           /\ WriteFile(t) \/ Reload(t) \/ SettingsNotOpened(t) \/ UNCHANGED values
           /\ Commit(t) \/ UNCHANGED content
           /\ Apply(t) \/ RollBack(t) \/ UNCHANGED live
           /\ UNCHANGED loaded
BY DEF Call, Step, Enter, TakeFileLock, FileLockFails, ReadState, StateNotOpened, Continue, Extract, Commit,
       StagingFails, Resolve, WriteState, WriteStateFails, ReadOld, TakeLifecycle, Apply,
       Rejected, Reload, SettingsNotOpened, WriteFile, WriteFileFails, RollBack, disk, memory

\* What was read under the lock file stays true while the lock is held.
LEMMA ReadIsCurrentStep ==
    ASSUME IInv, Next
    PROVE  ReadIsCurrent'
<1>a. TypeOK /\ JobAgrees /\ ReadIsCurrent
  BY DEF IInv
<1>b. LocalsTyped /\ \A t \in Threads : lock = t <=> pc[t] \in Holding
  BY <1>a DEF TypeOK, LocalsTyped, LockAgrees, Holding, PCs
<1> DEFINE Own(t) ==
             /\ t \in blind => pc[t] \in Blinded
             /\ pc[t] \in {"extract", "commit", "resolve", "write"} =>
                   /\ ~Refused(job[t], StateOf(t))
                   /\ copy[t] = Changed(job[t], StateOf(t))
             /\ pc[t] = "write" /\ job[t].op = "install" =>
                   content[<<job[t].p, job[t].r>>] = "complete"
             /\ pc[t] = "swrite" =>
                   /\ t \in blind \/ settings.ok
                   /\ values[ProcessOf[t]] = ValuesOf(t)
<1>c. \A t \in Threads : Own(t)
  BY <1>a DEF ReadIsCurrent
<1>d. ASSUME \A t \in Threads : Own(t)'
      PROVE  ReadIsCurrent'
  BY <1>d DEF ReadIsCurrent
<1>e. ASSUME NEW t \in Threads, t \notin blind' \/ pc'[t] = "rollback",
             pc'[t] \notin {"extract", "commit", "resolve", "write", "swrite"}
      PROVE  Own(t)'
  BY <1>e DEF Blinded
<1>f. ASSUME NEW t \in Threads, UNCHANGED <<state, content, settings>>,
             pc'[t] = pc[t], job'[t] = job[t], copy'[t] = copy[t],
             t \in blind' <=> t \in blind, values'[ProcessOf[t]] = values[ProcessOf[t]]
      PROVE  Own(t)'
  <2>1. StateOf(t)' = StateOf(t) /\ ValuesOf(t)' = ValuesOf(t)
    BY <1>f DEF StateOf, ValuesOf
  <2> QED
    BY <1>c, <1>f, <2>1 DEF Refused
<1>1. ASSUME NEW t \in Threads, Call(t) \/ Step(t), NEW u \in Threads \ {t}
      PROVE  Own(u)'
  <2>1. /\ pc'[u] = pc[u] /\ job'[u] = job[u] /\ copy'[u] = copy[u]
        /\ u \in blind' <=> u \in blind
    BY <1>1, ThreadStep
  <2>2. CASE pc[u] \in {"extract", "commit", "resolve", "write", "swrite"}
    <3>1. pc[t] \notin Holding
      BY <1>b, <2>2 DEF Holding
    <3>2. UNCHANGED <<state, settings, values, content>>
      BY <1>1, <3>1, Writers
         DEF WriteState, WriteFile, Reload, SettingsNotOpened, Commit, Holding
    <3> QED
      BY <1>f, <2>1, <3>2
  <2>3. CASE pc[u] \notin {"extract", "commit", "resolve", "write", "swrite"}
    <3>1. u \in blind => pc[u] = "rollback"
      BY <1>c, <2>3 DEF Blinded
    <3> QED
      BY <1>e, <2>1, <2>3, <3>1
  <2> QED
    BY <2>2, <2>3
<1>2. ASSUME NEW t \in Threads, Ends(t)
      PROVE  Own(t)'
  <2>1. pc'[t] = "idle" /\ t \notin blind'
    BY <1>2, ThreadStep DEF Ends, Step
  <2> QED
    BY <1>e, <2>1
<1>3. ASSUME NEW t \in Threads, Reads(t)
      PROVE  Own(t)'
  <2> DEFINE file == StateOf(t)'
  <2>1. /\ job[t] \in Jobs /\ ~Refused(job[t], file) /\ Continue(t, file)
        /\ UNCHANGED content
    BY <1>3, ReadsFacts DEF disk
  <2> HIDE DEF file
  <2>2. copy'[t] = Changed(job[t], file) /\ job'[t] = job[t]
    BY <2>1, <1>b DEF Continue, LocalsTyped
  <2>3. /\ pc'[t] = "write" => job[t].op # "install"
        /\ pc'[t] \in {"extract", "resolve", "write"}
    BY <2>1, <1>b DEF Continue, LocalsTyped, Goto
  <2>4. file = StateOf(t)'
    BY DEF file
  <2>5. /\ ~Refused(job'[t], file)
        /\ copy'[t] = Changed(job'[t], file)
    BY <2>1, <2>2
  <2> QED
    BY <2>1, <2>2, <2>3, <2>4, <2>5 DEF Blinded, Refused, Changed
<1>4. ASSUME NEW t \in Threads, Extract(t) \/ Commit(t)
      PROVE  Own(t)'
  <2>1. /\ UNCHANGED <<state, job, copy, blind>>
        /\ pc[t] \in {"extract", "commit"} /\ pc'[t] \in {"commit", "resolve"}
    BY <1>4, <1>b DEF Extract, Commit, disk, locals, Goto, LocalsTyped
  <2>2. StateOf(t)' = StateOf(t)
    BY <2>1 DEF StateOf
  <2> QED
    BY <1>c, <2>1, <2>2 DEF Refused, Blinded
<1>5. ASSUME NEW t \in Threads, Resolve(t), Resolves(<<job[t].p, job[t].r>>)
      PROVE  Own(t)'
  <2>1. /\ UNCHANGED <<state, job, copy, content, blind>>
        /\ pc[t] = "resolve" /\ pc'[t] = "write"
    BY <1>5, <1>b DEF Resolve, disk, locals, Goto, LocalsTyped
  <2>2. StateOf(t)' = StateOf(t)
    BY <2>1 DEF StateOf
  <2> QED
    BY <1>5, <1>c, <2>1, <2>2 DEF Refused, Resolves, Blinded
<1>6. ASSUME NEW t \in Threads, Reload(t)
      PROVE  Own(t)'
  <2>1. /\ UNCHANGED <<settings, blind>> /\ pc[t] = "reload"
        /\ values' = [values EXCEPT ![ProcessOf[t]] = Loaded(settings)]
        /\ pc'[t] = IF settings.ok THEN "swrite" ELSE "rollback"
    BY <1>6, <1>b DEF Reload, disk, locals, Goto, LocalsTyped
  <2>2. values'[ProcessOf[t]] = Loaded(settings)
    BY <2>1, <1>a, StoreAssumption DEF TypeOK
  <2>3. t \notin blind'
    BY <1>c, <2>1 DEF Blinded
  <2> QED
    BY <2>1, <2>2, <2>3 DEF Loaded, ValuesOf
<1>7. ASSUME NEW t \in Threads, SettingsNotOpened(t)
      PROVE  Own(t)'
  <2>1. /\ values' = [values EXCEPT ![ProcessOf[t]] = NothingSaved]
        /\ pc'[t] = "swrite" /\ t \in blind'
    BY <1>7, <1>b DEF SettingsNotOpened, Goto, LocalsTyped
  <2>2. values'[ProcessOf[t]] = NothingSaved
    BY <2>1, <1>a, StoreAssumption DEF TypeOK
  <2> QED
    BY <2>1, <2>2 DEF ValuesOf, Blinded
<1>8. ASSUME NEW t \in Threads, Call(t) \/ Step(t)
      PROVE  Own(t)'
  <2>1. \/ Ends(t) \/ Reads(t) \/ Extract(t) \/ Commit(t)
        \/ (Resolve(t) /\ Resolves(<<job[t].p, job[t].r>>))
        \/ Reload(t) \/ SettingsNotOpened(t)
        \/ WriteFileFails(t) /\ pc'[t] = "rollback"
        \/ /\ pc'[t] \in {"flock", "read", "reload", "lifecycle", "apply", "sflock",
                         "rollback", "old", "enter"}
           /\ UNCHANGED blind
           /\ pc[t] \in {"idle", "enter", "flock", "sflock", "old", "lifecycle", "apply"}
    BY <1>8, <1>b DEF Call, Step, Ends, Reads, Enter, TakeFileLock, FileLockFails, ReadState,
       StateNotOpened, Resolve, ReadOld, TakeLifecycle, Apply, WriteFileFails, Goto, locals,
       LocalsTyped
  <2>2. CASE /\ pc'[t] \in {"flock", "read", "reload", "lifecycle", "apply", "sflock",
                           "rollback", "old", "enter"}
             /\ UNCHANGED blind
             /\ pc[t] \in {"idle", "enter", "flock", "sflock", "old", "lifecycle", "apply"}
    <3>1. t \notin blind'
      BY <1>c, <2>2 DEF Blinded
    <3> QED
      BY <1>e, <2>2, <3>1
  <2> QED
    BY <1>2, <1>3, <1>4, <1>5, <1>6, <1>7, <1>e, <2>1, <2>2
<1>9. ASSUME NEW q \in Processes, Crash(q)
      PROVE  ReadIsCurrent'
  <2>1. UNCHANGED <<state, content, settings>> /\ values' = [values EXCEPT ![q] = NothingSaved]
    BY <1>9 DEF Crash, disk
  <2>2. ASSUME NEW t \in Threads
        PROVE  Own(t)'
    <3>1. CASE ProcessOf[t] = q
      BY <1>9, <1>b, <1>e, <3>1, CrashFacts
    <3>2. CASE ProcessOf[t] # q
      <4>1. /\ pc'[t] = pc[t] /\ job'[t] = job[t] /\ copy'[t] = copy[t]
            /\ t \in blind' <=> t \in blind
        BY <1>9, <1>b, <3>2, CrashFacts
      <4>2. values'[ProcessOf[t]] = values[ProcessOf[t]]
        BY <2>1, <3>2, <1>a, StoreAssumption DEF TypeOK
      <4> QED
        BY <1>f, <2>1, <4>1, <4>2
    <3> QED
      BY <3>1, <3>2
  <2> QED
    BY <1>d, <2>2
<1>10. ASSUME NEW q \in Processes, Start(q)
       PROVE  ReadIsCurrent'
  <2>1. UNCHANGED <<state, content, settings, pc, job, copy, blind>> /\ q \notin up
    BY <1>10 DEF Start, disk, locals
  <2>0. PICK read : values' = [values EXCEPT ![q] = read]
    BY <1>10, StartFacts
  <2>2. ASSUME NEW t \in Threads
        PROVE  Own(t)'
    <3>1. CASE ProcessOf[t] = q
      <4>1. pc'[t] = "idle" /\ pc[t] = "idle"
        BY <2>1, <3>1, <1>a DEF JobAgrees
      <4>2. t \notin blind'
        BY <1>c, <2>1, <4>1 DEF Blinded
      <4> QED
        BY <1>e, <4>1, <4>2
    <3>2. CASE ProcessOf[t] # q
      <4>1. values'[ProcessOf[t]] = values[ProcessOf[t]]
        BY <2>0, <3>2, <1>a, StoreAssumption DEF TypeOK
      <4> QED
        BY <1>f, <2>1, <4>1
    <3> QED
      BY <3>1, <3>2
  <2> QED
    BY <1>d, <2>2
<1> HIDE DEF Own
<1> QED
  BY <1>1, <1>8, <1>9, <1>10, <1>d DEF Next

\* Packages are only ever completed, and named once they are.
LEMMA PackagesStep ==
    ASSUME IInv, Next
    PROVE  PackagesWhole'
<1>a. TypeOK /\ JobAgrees /\ ReadIsCurrent /\ PackagesWhole
  BY DEF IInv
<1>b. ASSUME \A pr \in Packages : /\ content'[pr] # "partial"
                                  /\ content[pr] = "complete" => content'[pr] = "complete",
             \A pr \in Packages : state'.active[pr[1]] = pr[2] =>
                 state.active[pr[1]] = pr[2] \/ content'[pr] = "complete",
             \A q \in Processes, pr \in Packages : pr \in loaded'[q] =>
                 pr \in loaded[q] \/ content[pr] = "complete"
      PROVE  PackagesWhole'
  BY <1>a, <1>b DEF PackagesWhole
<1>c. \A pr \in Packages : /\ content[pr] # "partial"
                           /\ state.active[pr[1]] = pr[2] => content[pr] = "complete"
  BY <1>a DEF PackagesWhole
<1>1. ASSUME NEW t \in Threads, WriteState(t)
      PROVE  PackagesWhole'
  <2>1. /\ state' = copy[t] /\ UNCHANGED <<content, loaded>> /\ pc[t] = "write"
    BY <1>1 DEF WriteState, memory
  <2>2. /\ copy[t] = Changed(job[t], StateOf(t)) /\ job[t] \in Jobs /\ job[t].op # "set"
        /\ job[t].op = "install" => content[<<job[t].p, job[t].r>>] = "complete"
        /\ StateOf(t) \in Maps
    BY <2>1, <1>a, EmptyTyped DEF ReadIsCurrent, JobAgrees, InStore, TypeOK, StateOf
  <2>3. ASSUME NEW pr \in Packages, state'.active[pr[1]] = pr[2]
        PROVE  state.active[pr[1]] = pr[2] \/ content[pr] = "complete"
    <3>1. pr[1] \in Plugins /\ pr[2] \in Revisions /\ pr = <<pr[1], pr[2]>>
      BY DEF Packages
    <3>2. \/ StateOf(t).active[pr[1]] = pr[2]
          \/ job[t].op = "install" /\ job[t].p = pr[1] /\ job[t].r = pr[2]
      BY <2>1, <2>2, <2>3, <3>1, ChangedFacts
    <3>3. Empty.active[pr[1]] # pr[2]
      BY <3>1, StoreAssumption DEF Empty
    <3> QED
      BY <2>2, <3>1, <3>2, <3>3 DEF StateOf
  <2> QED
    BY <1>b, <1>c, <2>1, <2>3
<1>2. ASSUME NEW t \in Threads, Commit(t)
      PROVE  PackagesWhole'
  <2>1. /\ content' = [content EXCEPT ![<<job[t].p, job[t].r>>] = "complete"]
        /\ UNCHANGED <<state, loaded>>
    BY <1>2 DEF Commit, memory
  <2>2. \A pr \in Packages : content'[pr] = content[pr] \/ content'[pr] = "complete"
    BY <2>1, <1>a DEF TypeOK
  <2> QED
    BY <1>b, <1>c, <2>1, <2>2
<1>3. ASSUME NEW t \in Threads, Call(t) \/ Step(t)
      PROVE  PackagesWhole'
  BY <1>1, <1>2, <1>3, <1>b, <1>c, Writers
<1>4. ASSUME NEW q \in Processes, Crash(q) \/ Start(q)
      PROVE  PackagesWhole'
  <2>1. UNCHANGED <<state, content>>
    BY <1>4 DEF Crash, Start, disk
  <2>2. \/ loaded' = [loaded EXCEPT ![q] = {}]
        \/ loaded' = [loaded EXCEPT ![q] = ActiveRevisions]
    BY <1>4 DEF Crash, Start
  <2>3. \A pr \in ActiveRevisions : content[pr] = "complete"
    BY DEF ActiveRevisions, Resolves
  <2>4. loaded \in [Processes -> SUBSET Packages]
    BY <1>a DEF TypeOK
  <2> QED
    BY <1>b, <1>c, <2>1, <2>2, <2>3, <2>4
<1> QED
  BY <1>3, <1>4 DEF Next

\* Only TakeLifecycle enters the steps under lifecycleMutex, when they are free.
LEMMA LifecycleStep ==
    ASSUME IInv, Next
    PROVE  OneInLifecycle'
<1>a. TypeOK /\ OneInLifecycle /\ JobAgrees
  BY DEF IInv
<1>b. LocalsTyped
  BY <1>a DEF TypeOK, LocalsTyped, LockAgrees, Holding, PCs
<1>1. ASSUME NEW t \in Threads, Call(t) \/ Step(t)
      PROVE  OneInLifecycle'
  <2>1. \A u \in Threads \ {t} : pc'[u] = pc[u]
    BY <1>1, ThreadStep
  <2>2. \/ pc'[t] \notin InLifecycle
        \/ pc[t] \in InLifecycle
        \/ \A u \in Siblings(t) : pc[u] \notin InLifecycle
    <3>1. CASE Ends(t)
      <4>1. pc'[t] = "idle"
        BY <1>1, <3>1, ThreadStep
      <4> QED
        BY <4>1 DEF InLifecycle
    <3>2. CASE TakeLifecycle(t)
      BY <3>2 DEF TakeLifecycle
    <3>3. CASE ~Ends(t) /\ ~TakeLifecycle(t)
      <4>1. pc[t] = "flock" => job[t].op # "set"
        BY <1>a DEF JobAgrees, InStore
      <4> QED
        BY <1>1, <3>3, <4>1, <1>b
           DEF Call, Step, Ends, Enter, TakeFileLock, FileLockFails, ReadState, StateNotOpened, Continue, Extract,
               Commit, Resolve, ReadOld, Apply, Reload, SettingsNotOpened, WriteFileFails, Goto, LocalsTyped,
               InLifecycle
    <3> QED
      BY <3>1, <3>2, <3>3
  <2> QED
    BY <1>a, <2>1, <2>2 DEF OneInLifecycle, Siblings
<1>2. ASSUME NEW q \in Processes, Crash(q)
      PROVE  OneInLifecycle'
  <2>1. \A u \in Threads : pc'[u] = pc[u] \/ pc'[u] = "idle"
    BY <1>2, <1>b, CrashFacts
  <2> QED
    BY <1>a, <2>1 DEF OneInLifecycle, InLifecycle
<1>3. ASSUME NEW q \in Processes, Start(q)
      PROVE  OneInLifecycle'
  BY <1>3, <1>a DEF Start, OneInLifecycle
<1> QED
  BY <1>1, <1>2, <1>3 DEF Next

\* Whatever a plugin is told, or is told back, is saved by the time the mutex
\* is free again.
LEMMA FromSavedStep ==
    ASSUME IInv, Next
    PROVE  FromSaved'
<1>a. TypeOK /\ JobAgrees /\ ReadIsCurrent /\ OneInLifecycle /\ FromSaved
  BY DEF IInv
<1>b. LocalsTyped
  BY <1>a DEF TypeOK, LocalsTyped, LockAgrees, Holding, PCs
<1>c. /\ \A t \in Threads : ProcessOf[t] \in Processes
      /\ live \in [Processes -> [Keys -> Values]]
      /\ values \in [Processes -> Saved]
      /\ saved \in [Keys -> SUBSET Values]
  BY <1>a, StoreAssumption DEF TypeOK
<1>d. Told \subseteq InLifecycle /\ InLifecycle \subseteq InSet \ {"old"}
  BY DEF Told, InLifecycle, InSet
<1>e. \A read \in {Loaded(settings), NothingSaved}, k \in Keys :
         read[k] \in saved[k] \cup {None}
  BY <1>a DEF FromSaved, Loaded, NothingSaved
<1> DEFINE
      Memory == \A k \in Keys :
                   /\ Default \in saved[k]
                   /\ settings.values[k] \in saved[k] \cup {None}
                   /\ \A q \in Processes : values[q][k] \in saved[k] \cup {None}
      Old(t) == pc[t] \in InSet \ {"old"} => oldValue[t] \in saved[job[t].k]
      New(t) == pc[t] \in Told => live[ProcessOf[t]][job[t].k] = job[t].v
      Live(q, k) == \/ live[q][k] \in saved[k]
                    \/ \E t \in Threads : ProcessOf[t] = q /\ pc[t] \in Told /\ job[t].k = k
<1>f. Memory /\ \A t \in Threads : Old(t) /\ New(t)
  BY <1>a DEF FromSaved
<1>g. \A q \in Processes, k \in Keys : Live(q, k)
  BY <1>a DEF FromSaved
<1>h. ASSUME Memory', \A t \in Threads : Old(t)' /\ New(t)',
             \A q \in Processes, k \in Keys : Live(q, k)'
      PROVE  FromSaved'
  BY <1>h DEF FromSaved
<1>i. \A t \in Threads : pc[t] \in InSet => job[t] \in SetJobs
  BY <1>a DEF JobAgrees
<1>1. ASSUME NEW t \in Threads, WriteFile(t)
      PROVE  FromSaved'
  <2> DEFINE q0 == ProcessOf[t]
             k0 == job[t].k
             v0 == job[t].v
  <2>1. /\ pc[t] = "swrite" /\ values' = [values EXCEPT ![q0][k0] = v0]
        /\ settings' = [ok |-> TRUE, values |-> values'[q0]]
        /\ saved' = [saved EXCEPT ![k0] = saved[k0] \cup {v0}]
        /\ UNCHANGED live
    BY <1>1, <1>c DEF WriteFile
  <2>2. k0 \in Keys /\ v0 \in Values /\ q0 \in Processes
    BY <2>1, <1>c, <1>i DEF SetJobs, InSet, InLifecycle
  <2>3. pc'[t] = "idle" /\ \A u \in Threads \ {t} :
                             pc'[u] = pc[u] /\ job'[u] = job[u] /\ oldValue'[u] = oldValue[u]
    BY <1>1, ThreadStep DEF Step, Ends
  <2>4. \A k \in Keys : saved[k] \subseteq saved'[k] /\ v0 \in saved'[k0]
    BY <2>1, <2>2, <1>c
  <2>5. \A q \in Processes, k \in Keys : values'[q][k] = values[q][k]
                                          \/ (k = k0 /\ values'[q][k] = v0)
    BY <2>1, <2>2, <1>c DEF Saved
  <2>6. Memory'
    BY <1>f, <2>1, <2>2, <2>4, <2>5
  <2>7. ASSUME NEW u \in Threads
        PROVE  Old(u)' /\ New(u)'
    <3>1. CASE u = t
      BY <2>3, <3>1 DEF InSet, InLifecycle, Told
    <3>2. CASE u # t
      <4>1. pc[u] \in InSet => job[u].k \in Keys
        BY <1>i DEF SetJobs
      <4>2. Told \subseteq InSet
        BY <1>d
      <4> QED
        BY <1>f, <2>1, <2>3, <2>4, <3>2, <4>1, <4>2
    <3> QED
      BY <3>1, <3>2
  <2>8. ASSUME NEW q \in Processes, NEW k \in Keys
        PROVE  Live(q, k)'
    <3>1. CASE live[q][k] \in saved[k]
      BY <2>1, <2>4, <3>1
    <3>2. ASSUME NEW u \in Threads, ProcessOf[u] = q, pc[u] \in Told, job[u].k = k
          PROVE  Live(q, k)'
      <4>1. CASE u = t
        <5>1. live[q][k] = v0 /\ k = k0
          BY <1>f, <3>2, <4>1
        <5> QED
          BY <2>1, <2>4, <5>1
      <4>2. CASE u # t
        BY <2>3, <3>2, <4>2
      <4> QED
        BY <4>1, <4>2
    <3> QED
      BY <1>g, <3>1, <3>2
  <2> HIDE DEF Memory, Old, New, Live
  <2> QED
    BY <1>h, <2>6, <2>7, <2>8
<1>2. ASSUME NEW t \in Threads, Apply(t) \/ RollBack(t)
      PROVE  FromSaved'
  <2> DEFINE q0 == ProcessOf[t]
             k0 == job[t].k
  <2>1. /\ UNCHANGED <<settings, saved, values>>
        /\ pc[t] \in InLifecycle
    BY <1>2 DEF Apply, RollBack, disk, InLifecycle
  <2>2. PICK x \in Values : /\ live' = [live EXCEPT ![q0][k0] = x]
                            /\ Apply(t) => x = job[t].v
                            /\ RollBack(t) => x = oldValue[t]
    BY <1>2, <1>b, <1>i, <2>1, <1>d DEF Apply, RollBack, SetJobs, LocalsTyped, InLifecycle
  <2>3. k0 \in Keys /\ q0 \in Processes
    BY <1>i, <1>c, <1>d, <2>1 DEF SetJobs
  <2>4. /\ live'[q0][k0] = x
        /\ \A q \in Processes, k \in Keys :
              q # q0 \/ k # k0 => live'[q][k] = live[q][k]
    BY <2>2, <2>3, <1>c
  <2>5. \A u \in Threads \ {t} :
           /\ pc'[u] = pc[u] /\ job'[u] = job[u] /\ oldValue'[u] = oldValue[u]
           /\ ProcessOf[u] = q0 => pc[u] \notin Told
    BY <1>2, ThreadStep, <2>1, <1>a, <1>d DEF Step, OneInLifecycle
  <2>6. \/ Apply(t) /\ pc[t] = "apply" /\ pc'[t] = "sflock" /\ UNCHANGED <<job, oldValue>>
        \/ RollBack(t) /\ pc[t] = "rollback" /\ pc'[t] = "idle"
    BY <1>2, <1>b DEF Apply, RollBack, Return, Goto, locals, LocalsTyped
  <2>7. Memory'
    BY <1>f, <2>1
  <2>8. ASSUME NEW u \in Threads
        PROVE  Old(u)' /\ New(u)'
    <3>1. CASE u = t
      <4>1. CASE Apply(t) /\ pc'[t] = "sflock" /\ UNCHANGED <<job, oldValue>>
        BY <1>f, <1>d, <2>1, <2>2, <2>4, <3>1, <4>1
      <4>2. CASE pc'[t] = "idle"
        BY <3>1, <4>2 DEF InSet, InLifecycle, Told
      <4> QED
        BY <2>6, <4>1, <4>2
    <3>2. CASE u # t
      <4>1. Old(u)'
        BY <1>f, <2>1, <2>5, <3>2
      <4>2. New(u)'
        <5> SUFFICES ASSUME pc[u] \in Told
                     PROVE  live'[ProcessOf[u]][job[u].k] = job[u].v
          BY <2>5, <3>2
        <5>1. ProcessOf[u] # q0 /\ ProcessOf[u] \in Processes /\ job[u].k \in Keys
          BY <1>c, <1>d, <1>i, <2>5, <3>2 DEF SetJobs
        <5> QED
          BY <1>f, <2>4, <5>1
      <4> QED
        BY <4>1, <4>2
    <3> QED
      BY <3>1, <3>2
  <2>9. ASSUME NEW q \in Processes, NEW k \in Keys
        PROVE  Live(q, k)'
    <3>1. CASE q = q0 /\ k = k0
      <4>1. CASE RollBack(t) /\ pc[t] = "rollback"
        BY <1>f, <1>d, <2>1, <2>2, <2>4, <3>1, <4>1 DEF InSet, InLifecycle
      <4>2. CASE Apply(t) /\ pc'[t] = "sflock" /\ UNCHANGED <<job, oldValue>>
        BY <3>1, <4>2 DEF Told
      <4> QED
        BY <2>6, <4>1, <4>2
    <3>2. CASE q # q0
      <4>1. live'[q][k] = live[q][k] /\ UNCHANGED saved
        BY <2>1, <2>4, <3>2
      <4>2. ASSUME NEW u \in Threads, ProcessOf[u] = q, pc[u] \in Told, job[u].k = k
            PROVE  Live(q, k)'
        BY <2>5, <3>2, <4>2
      <4> QED
        BY <1>g, <4>1, <4>2
    <3>3. CASE q = q0 /\ k # k0
      <4>1. live'[q][k] = live[q][k] /\ UNCHANGED saved
        BY <2>1, <2>4, <3>3
      <4>2. \A u \in Threads : ~(ProcessOf[u] = q /\ pc[u] \in Told /\ job[u].k = k)
        BY <2>5, <3>3
      <4> QED
        BY <1>g, <4>1, <4>2
    <3> QED
      BY <3>1, <3>2, <3>3
  <2> HIDE DEF Memory, Old, New, Live
  <2> QED
    BY <1>h, <2>7, <2>8, <2>9
<1>3. ASSUME NEW t \in Threads, Call(t) \/ Step(t), ~WriteFile(t), ~Apply(t), ~RollBack(t)
      PROVE  FromSaved'
  <2>1. UNCHANGED <<settings, saved, live>>
    BY <1>3, Writers
  <2>2. \A u \in Threads \ {t} :
           pc'[u] = pc[u] /\ job'[u] = job[u] /\ oldValue'[u] = oldValue[u]
    BY <1>3, ThreadStep
  <2>3. \/ /\ pc'[t] \in Told <=> pc[t] \in Told
           /\ pc'[t] \in InSet \ {"old"} => pc[t] \in InSet \ {"old"}
           /\ pc'[t] \in InSet \ {"old"} => job'[t] = job[t] /\ oldValue'[t] = oldValue[t]
        \/ ReadOld(t)
    <3>1. CASE Ends(t)
      <4>1. pc'[t] = "idle"
        BY <1>3, <3>1, ThreadStep
      <4>2. pc[t] \notin Told
        BY <1>3, <3>1 DEF Ends, FileLockFails, ReadState, StateNotOpened, StagingFails, Resolve, WriteState,
                          WriteStateFails, Rejected, Told
      <4> QED
        BY <4>1, <4>2 DEF Told, InSet, InLifecycle
    <3>2. CASE Call(t)
      <4>1. pc[t] = "idle" /\ pc'[t] \in {"old", "enter"}
        BY <3>2, <1>b DEF Call, Goto, LocalsTyped
      <4> QED
        BY <4>1 DEF Told, InSet, InLifecycle
    <3>3. CASE Step(t) /\ ~Ends(t) /\ ~ReadOld(t)
      <4>1. UNCHANGED <<job, oldValue>>
        BY <1>3, <3>3 DEF Step, Ends, Enter, TakeFileLock, FileLockFails, ReadState, StateNotOpened, Continue, Extract,
           Commit, Resolve, TakeLifecycle, Reload, SettingsNotOpened, WriteFileFails, locals
      <4>2. /\ pc[t] = "flock" => job[t].op # "set"
            /\ pc[t] = "sflock" => job[t].op = "set"
        BY <1>a DEF JobAgrees, InStore, InSet, InLifecycle, SetJobs
      <4>3. /\ pc'[t] \in Told <=> pc[t] \in Told
            /\ pc'[t] \in InSet \ {"old"} => pc[t] \in InSet \ {"old"}
        BY <1>3, <3>3, <4>2, <1>b
           DEF Step, Ends, Enter, TakeFileLock, FileLockFails, ReadState, StateNotOpened, Continue, Extract, Commit,
               Resolve, TakeLifecycle, Reload, SettingsNotOpened, WriteFileFails, Goto, LocalsTyped, Told, InSet,
               InLifecycle
      <4> QED
        BY <4>1, <4>3
    <3> QED
      BY <1>3, <3>1, <3>2, <3>3
  <2>4. ReadOld(t) =>
           /\ pc[t] = "old" /\ pc'[t] = "lifecycle" /\ job' = job
           /\ oldValue'[t] \in saved[job[t].k]
    <3> SUFFICES ASSUME ReadOld(t)
                 PROVE  /\ pc[t] = "old" /\ pc'[t] = "lifecycle" /\ job' = job
                        /\ oldValue'[t] \in saved[job[t].k]
      OBVIOUS
    <3>1. /\ pc[t] = "old" /\ pc'[t] = "lifecycle" /\ job' = job
          /\ oldValue'[t] = resolvedValue(values[ProcessOf[t]], job[t].k)
      BY <1>b DEF ReadOld, Goto, LocalsTyped
    <3>2. job[t].k \in Keys
      BY <1>i, <3>1 DEF SetJobs, InSet
    <3> QED
      BY <1>f, <1>c, <3>1, <3>2 DEF resolvedValue
  <2>5. Memory'
    <3>1. CASE Reload(t) \/ SettingsNotOpened(t)
      <4>1. PICK read \in {Loaded(settings), NothingSaved} :
               values' = [values EXCEPT ![ProcessOf[t]] = read]
        BY <3>1 DEF Reload, SettingsNotOpened
      <4>2. \A q \in Processes : values'[q] = values[q] \/ values'[q] = read
        BY <4>1, <1>c
      <4> QED
        BY <1>e, <1>f, <2>1, <4>2
    <3>2. CASE UNCHANGED values
      BY <1>f, <2>1, <3>2
    <3> QED
      BY <1>3, <3>1, <3>2, Writers
  <2>6. ASSUME NEW u \in Threads
        PROVE  Old(u)' /\ New(u)'
    <3>1. CASE u # t
      BY <1>f, <2>1, <2>2, <3>1
    <3>2. CASE u = t /\ ReadOld(t)
      BY <2>1, <2>4, <3>2 DEF Told
    <3>3. CASE u = t /\ ~ReadOld(t)
      BY <1>f, <1>d, <2>1, <2>3, <3>3
    <3> QED
      BY <3>1, <3>2, <3>3
  <2>7. ASSUME NEW q \in Processes, NEW k \in Keys
        PROVE  Live(q, k)'
    <3>1. CASE live[q][k] \in saved[k]
      BY <2>1, <3>1
    <3>2. ASSUME NEW u \in Threads, ProcessOf[u] = q, pc[u] \in Told, job[u].k = k
          PROVE  pc'[u] \in Told /\ job'[u].k = k
      <4>1. CASE u # t
        BY <2>2, <3>2, <4>1
      <4>2. CASE u = t
        <5>1. ~ReadOld(t)
          BY <2>4, <3>2, <4>2 DEF Told
        <5> QED
          BY <1>d, <2>3, <3>2, <4>2, <5>1
      <4> QED
        BY <4>1, <4>2
    <3> QED
      BY <1>g, <3>1, <3>2
  <2> HIDE DEF Memory, Old, New, Live
  <2> QED
    BY <1>h, <2>5, <2>6, <2>7
<1>4. ASSUME NEW q0 \in Processes, Crash(q0)
      PROVE  FromSaved'
  <2>1. /\ UNCHANGED <<settings, saved>>
        /\ values' = [values EXCEPT ![q0] = NothingSaved]
        /\ live' = [live EXCEPT ![q0] = [k \in Keys |-> Default]]
    BY <1>4 DEF Crash, disk
  <2>2. /\ \A u \in Threads : ProcessOf[u] = q0 => pc'[u] = "idle"
        /\ \A u \in Threads : ProcessOf[u] # q0 =>
              pc'[u] = pc[u] /\ job'[u] = job[u] /\ oldValue'[u] = oldValue[u]
    BY <1>4, <1>b, CrashFacts
  <2>3. /\ \A q \in Processes : q # q0 => values'[q] = values[q] /\ live'[q] = live[q]
        /\ values'[q0] = NothingSaved
        /\ \A k \in Keys : live'[q0][k] = Default
    BY <2>1, <1>c
  <2>4. Memory'
    BY <1>f, <2>1, <2>3 DEF NothingSaved
  <2>5. ASSUME NEW u \in Threads
        PROVE  Old(u)' /\ New(u)'
    <3>1. CASE ProcessOf[u] = q0
      BY <2>2, <3>1 DEF InSet, InLifecycle, Told
    <3>2. CASE ProcessOf[u] # q0
      BY <1>c, <1>f, <2>1, <2>2, <2>3, <3>2
    <3> QED
      BY <3>1, <3>2
  <2>6. ASSUME NEW q \in Processes, NEW k \in Keys
        PROVE  Live(q, k)'
    <3>1. CASE q = q0
      BY <1>f, <2>1, <2>3, <3>1
    <3>2. CASE q # q0
      BY <1>g, <2>1, <2>2, <2>3, <3>2
    <3> QED
      BY <3>1, <3>2
  <2> HIDE DEF Memory, Old, New, Live
  <2> QED
    BY <1>h, <2>4, <2>5, <2>6
<1>5. ASSUME NEW q0 \in Processes, Start(q0)
      PROVE  FromSaved'
  <2>1. UNCHANGED <<settings, saved, pc, job, oldValue>> /\ q0 \notin up
    BY <1>5 DEF Start, disk, locals
  <2>0. PICK read \in {Loaded(settings), NothingSaved} :
           /\ values' = [values EXCEPT ![q0] = read]
           /\ live' = [live EXCEPT ![q0] = [k \in Keys |-> resolvedValue(read, k)]]
    BY <1>5, StartFacts
  <2>2. /\ \A q \in Processes : q # q0 => values'[q] = values[q] /\ live'[q] = live[q]
        /\ values'[q0] = read
        /\ \A k \in Keys : live'[q0][k] = resolvedValue(read, k)
    BY <2>0, <1>c
  <2>3. \A k \in Keys : resolvedValue(read, k) \in saved[k]
    BY <1>e, <1>f DEF resolvedValue
  <2>4. \A u \in Threads : ProcessOf[u] = q0 => pc[u] = "idle"
    BY <1>a, <2>1 DEF JobAgrees
  <2>5. Memory'
    BY <1>e, <1>f, <2>1, <2>2
  <2>6. ASSUME NEW u \in Threads
        PROVE  Old(u)' /\ New(u)'
    <3>1. CASE ProcessOf[u] = q0
      BY <2>1, <2>4, <3>1 DEF InSet, InLifecycle, Told
    <3>2. CASE ProcessOf[u] # q0
      BY <1>c, <1>f, <2>1, <2>2, <3>2
    <3> QED
      BY <3>1, <3>2
  <2>7. ASSUME NEW q \in Processes, NEW k \in Keys
        PROVE  Live(q, k)'
    <3>1. CASE q = q0
      BY <2>1, <2>2, <2>3, <3>1
    <3>2. CASE q # q0
      BY <1>g, <2>1, <2>2, <3>2
    <3> QED
      BY <3>1, <3>2
  <2> HIDE DEF Memory, Old, New, Live
  <2> QED
    BY <1>h, <2>5, <2>6, <2>7
<1> HIDE DEF Memory, Old, New, Live
<1> QED
  BY <1>1, <1>2, <1>3, <1>4, <1>5 DEF Next

-----------------------------------------------------------------------------
(* The invariant, and what it says.                                         *)

\* The invariant holds of every reachable state.
LEMMA Inductive == Spec => []IInv
<1>1. Init => IInv
  <2> SUFFICES ASSUME Init PROVE IInv
    OBVIOUS
  <2>0. PICK broken \in Broken :
          /\ state = [Empty EXCEPT !.ok = "state" \notin broken]
          /\ settings = [ok |-> "settings" \notin broken, values |-> NothingSaved]
    BY DEF Init
  <2>a. state \in Maps
    <3>1. ASSUME NEW b \in BOOLEAN
          PROVE  [Empty EXCEPT !.ok = b] \in Maps
      BY Zenon DEF Empty, Maps
    <3>2. ("state" \notin broken) \in BOOLEAN
      OBVIOUS
    <3> QED
      BY <2>0, <3>1, <3>2, Zenon
  <2>b0. settings \in [ok : BOOLEAN, values : Saved]
    BY <2>0, EmptyTyped
  <2>b. \A pr \in Packages : state.active[pr[1]] # pr[2]
    BY <2>0, StoreAssumption DEF Empty, Packages
  <2>1. TypeOK
    BY <2>a, <2>b0, EmptyTyped, StoreAssumption DEF Init, TypeOK
  <2>2. JobAgrees /\ ReadIsCurrent /\ OneInLifecycle
    BY DEF Init, JobAgrees, ReadIsCurrent, OneInLifecycle, InSet, InStore, InLifecycle
  <2>3. PackagesWhole
    BY <2>b DEF Init, PackagesWhole
  <2>4. FromSaved
    BY <2>0 DEF Init, FromSaved, NothingSaved, InSet, InLifecycle, Told
  <2> QED
    BY <2>1, <2>2, <2>3, <2>4 DEF IInv
<1>2. IInv /\ [Next]_vars => IInv'
  <2>1. ASSUME IInv, Next
        PROVE  IInv'
    BY <2>1, TypeStep, JobAgreesStep, ReadIsCurrentStep, PackagesStep, LifecycleStep,
       FromSavedStep DEF IInv
  <2>2. ASSUME IInv, UNCHANGED vars
        PROVE  IInv'
    <3>1. TypeOK'
      BY <2>2 DEF IInv, TypeOK, vars
    <3>2. JobAgrees' /\ OneInLifecycle' /\ PackagesWhole'
      BY <2>2 DEF IInv, JobAgrees, OneInLifecycle, PackagesWhole, vars
    <3>3. ReadIsCurrent'
      BY <2>2 DEF IInv, ReadIsCurrent, Refused, StateOf, ValuesOf, vars
    <3>4. FromSaved'
      BY <2>2 DEF IInv, FromSaved, vars
    <3> QED
      BY <3>1, <3>2, <3>3, <3>4 DEF IInv
  <2> QED
    BY <2>1, <2>2
<1> QED
  BY <1>1, <1>2, PTL DEF Spec

\* The variables keep their kinds, and the lock file is locked exactly while
\* its holder is between taking it and leaving the scope that took it, however
\* the call ends and whichever process dies.
THEOREM TypeCorrect == Spec => []TypeOK
<1>1. IInv => TypeOK
  BY DEF IInv
<1> QED
  BY <1>1, Inductive, PTL

\* Package directories are whole, and those that state.json names or a process
\* runs are there, wherever processes die during installations and removals.
THEOREM PackagesStayWhole == Spec => []PackagesWhole
<1>1. IInv => PackagesWhole
  BY DEF IInv
<1> QED
  BY <1>1, Inductive, PTL

\* Once no change of a setting is under way in a process its plugin runs with
\* saved values only, whatever was refused, failed to be written or raced.
THEOREM LiveIsSaved == Spec => []UnsavedNeverLive
<1>1. IInv => UnsavedNeverLive
  <2> SUFFICES ASSUME IInv, NEW q \in up, NEW k \in Keys,
                      \A t \in Threads : ProcessOf[t] = q => pc[t] \notin InLifecycle
               PROVE  live[q][k] \in saved[k]
    BY DEF UnsavedNeverLive
  <2>1. q \in Processes
    BY DEF IInv, TypeOK
  <2>2. Told \subseteq InLifecycle
    BY DEF Told, InLifecycle
  <2> QED
    BY <2>1, <2>2 DEF IInv, FromSaved
<1> QED
  BY <1>1, Inductive, PTL

\* Every step of the threads and processes is a step of the abstract store or
\* leaves both files alone: no update is lost or applied to a stale copy, a file
\* that does not parse is never overwritten, and the others' entries are only
\* ever dropped by a call that could not open the file it then replaced.
THEOREM Refinement == Spec => StoreSpec
<1>1. ASSUME IInv, [Next]_vars
      PROVE  [Store!Next]_<<state, settings, blind>>
  <2>a. TypeOK /\ JobAgrees /\ ReadIsCurrent
    BY <1>1 DEF IInv
  <2>b. ASSUME blind' \subseteq blind, UNCHANGED <<state, settings>>
        PROVE  Store!Next
    BY <2>b DEF Store!Next, Store!GiveUp
  <2>1. ASSUME NEW t \in Threads, WriteState(t)
        PROVE  Store!Next
    <3> DEFINE s == StateOf(t)
    <3>1. /\ pc[t] = "write" /\ state' = copy[t] /\ UNCHANGED settings
          /\ blind' = blind \ {t}
      BY <2>1 DEF WriteState, Return
    <3>2. /\ state' = Changed(job[t], s) /\ ~Refused(job[t], s)
          /\ job[t] \in Jobs /\ job[t].op # "set"
      BY <3>1, <2>a DEF ReadIsCurrent, JobAgrees, InStore
    <3>3. s.ok
      BY <3>2 DEF Refused
    <3>4. s = Store!Seen(t, state, Store!EmptyState)
      BY DEF StateOf, Empty, Store!Seen, Store!EmptyState
    <3> HIDE DEF s
    <3>5. \/ \E p \in Plugins, r \in Revisions : Store!Install(s, p, r)
          \/ \E p \in Plugins : Store!Remove(s, p)
          \/ \E ty \in Types, d \in Plugins \cup {None} : Store!Select(s, ty, d)
      <4>1. CASE job[t].op = "install"
        <5>1. job[t].p \in Plugins /\ job[t].r \in Revisions
          BY <3>2, <4>1, JobShape
        <5>2. Store!Install(s, job[t].p, job[t].r)
          BY <3>2, <4>1 DEF Changed, Store!Install
        <5> QED
          BY <5>1, <5>2
      <4>2. CASE job[t].op = "remove"
        <5>1. job[t].p \in Plugins
          BY <3>2, <4>2, JobShape
        <5>2. Store!Remove(s, job[t].p)
          BY <3>2, <4>2 DEF Changed, Refused, Store!Remove
        <5> QED
          BY <5>1, <5>2
      <4>3. CASE job[t].op = "select"
        <5>1. job[t].ty \in Types /\ job[t].d \in Plugins \cup {None}
          BY <3>2, <4>3, JobShape
        <5>2. Store!Select(s, job[t].ty, job[t].d)
          BY <3>2, <4>3 DEF Changed, Store!Select
        <5> QED
          BY <5>1, <5>2
      <4> QED
        BY <3>2, <4>1, <4>2, <4>3, JobShape
    <3>6. Store!UpdateState(t)
      BY <3>1, <3>3, <3>4, <3>5, Zenon DEF Store!UpdateState
    <3> QED
      BY <3>1, <3>6 DEF Store!Next, Store!Update
  <2>2. ASSUME NEW t \in Threads, WriteFile(t)
        PROVE  Store!Next
    <3> DEFINE q == ProcessOf[t]
               k == job[t].k
               v == job[t].v
               s == Store!Seen(t, settings, Store!EmptySettings)
    <3>1. /\ pc[t] = "swrite" /\ UNCHANGED state /\ blind' = blind \ {t}
          /\ values' = [values EXCEPT ![q][k] = v]
          /\ settings' = [ok |-> TRUE, values |-> values'[q]]
      BY <2>2 DEF WriteFile, Return
    <3>2. /\ job[t] \in SetJobs /\ q \in Processes
          /\ t \in blind \/ settings.ok
          /\ values[q] = ValuesOf(t)
      BY <3>1, <2>a, StoreAssumption DEF JobAgrees, ReadIsCurrent, InSet, InLifecycle
    <3>3. k \in Keys /\ v \in Values
      BY <3>2 DEF SetJobs
    <3>4. values'[q] = [ValuesOf(t) EXCEPT ![k] = v]
      BY <3>1, <3>2, <2>a DEF TypeOK
    <3>5. s \in [ok : BOOLEAN, values : Saved] /\ s.ok = TRUE /\ s.values = ValuesOf(t)
      <4>1. settings \in [ok : BOOLEAN, values : Saved]
        BY <2>a DEF TypeOK
      <4>2. CASE t \in blind
        <5>1. s = [ok |-> TRUE, values |-> NothingSaved] /\ ValuesOf(t) = NothingSaved
          BY <4>2 DEF Store!Seen, Store!EmptySettings, ValuesOf, NothingSaved
        <5> QED
          BY <5>1, EmptyTyped
      <4>3. CASE t \notin blind
        <5>1. settings.ok = TRUE
          BY <3>2, <4>1, <4>3, Zenon
        <5>2. s = settings /\ ValuesOf(t) = settings.values
          BY <4>3 DEF Store!Seen, ValuesOf
        <5> QED
          BY <4>1, <5>1, <5>2
      <4> QED
        BY <4>2, <4>3
    <3> HIDE DEF s
    <3>6. s.ok /\ settings' = [s EXCEPT !.values[k] = v]
      <4> DEFINE w == [s.values EXCEPT ![k] = v]
      <4>1. [s EXCEPT !.values[k] = v] = [s EXCEPT !.values = w]
        BY <3>5
      <4>2. settings' = [ok |-> s.ok, values |-> w]
        BY <3>1, <3>4, <3>5
      <4> HIDE DEF w
      <4>3. [s EXCEPT !.values = w] = [ok |-> s.ok, values |-> w]
        BY <3>5
      <4> QED
        BY <3>5, <4>1, <4>2, <4>3
    <3>7. Store!UpdateSettings(t)
      BY <3>1, <3>3, <3>6 DEF Store!UpdateSettings, s
    <3> QED
      BY <3>1, <3>7 DEF Store!Next, Store!Update
  <2>3. ASSUME NEW t \in Threads, Call(t) \/ Step(t), ~WriteState(t), ~WriteFile(t)
        PROVE  Store!Next
    <3>1. UNCHANGED <<state, settings>>
      BY <2>3, Writers
    <3>2. blind' \subseteq blind \/ blind' = blind \cup {t}
      <4>1. CASE Ends(t)
        BY <4>1, EndsReturn DEF Return
      <4>2. CASE Reads(t)
        BY <1>1, <4>2, ReadsFacts
      <4>3. CASE ~Ends(t) /\ ~Reads(t)
        BY <2>3, <4>3
           DEF Call, Step, Ends, Reads, Enter, TakeFileLock, FileLockFails, ReadState,
               StateNotOpened, Extract, Commit, Resolve, ReadOld, TakeLifecycle, Apply,
               Reload, SettingsNotOpened, WriteFileFails, locals
      <4> QED
        BY <4>1, <4>2, <4>3
    <3>3. CASE blind' = blind \cup {t}
      BY <3>1, <3>3 DEF Store!Next, Store!CannotOpen
    <3> QED
      BY <2>b, <3>1, <3>2, <3>3
  <2>4. ASSUME NEW q \in Processes, Crash(q) \/ Start(q)
        PROVE  Store!Next
    <3>1. UNCHANGED <<state, settings>> /\ blind' \subseteq blind
      BY <2>4 DEF Crash, Start, disk, locals
    <3> QED
      BY <2>b, <3>1
  <2>5. CASE UNCHANGED vars
    BY <2>5 DEF vars
  <2> QED
    BY <1>1, <2>1, <2>2, <2>3, <2>4, <2>5 DEF Next
<1>2. Init => blind = {}
  BY DEF Init
<1> QED
  BY <1>1, <1>2, Inductive, PTL DEF Spec, StoreSpec, Store!Spec

=============================================================================
