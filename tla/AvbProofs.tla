----------------------------- MODULE AvbProofs -----------------------------
(***************************************************************************)
(* For every number of banks, rates, controllers and faults: between calls *)
(* a controller's connection is the stream's, and a controller that has    *)
(* been disconnected renders at most one more block.                       *)
(***************************************************************************)
EXTENDS Avb, SequenceTheorems, TLAPS

\* A bank, and an entry of the cache, holds a controller made for that bank.
OwnBank ==
    \A b \in Banks :
        /\ banks[b] # 0 => banks[b] \in 1 .. made /\ bankOf[banks[b]] = b
        /\ cache[b] # 0 => cache[b] \in 1 .. made /\ bankOf[cache[b]] = b

\* What a call knows at each of its stages.
CallStage ==
    /\ call.op = "idle" => call = Idle
    /\ call.op \in {"open", "attach", "reopen"} => mapped /\ call.rate \in Rates
    /\ call.op \in {"open", "attach", "detach", "stop"} =>
           \E i \in 1 .. made : call.s = {i}
    /\ call.op \in {"open", "attach"} => \A i \in call.s : cache[bankOf[i]] = i
    /\ call.op \in {"detach", "stop", "closeall"} =>
           \A i \in call.s : cache[bankOf[i]] # i
    /\ call.op = "stop" => \A i \in call.s : banks[bankOf[i]] # i
    /\ call.op = "closeall" => cache = [b \in Banks |-> 0]
    /\ call.op = "discard" => call.s = {}
    /\ call.op = "detach" => mapped

\* A runtime outside the map is being closed, or nothing is left of it.
Unmapped ==
    ~mapped /\ call.op \notin {"discard", "closeall"} =>
        stream = 0 /\ \A b \in Banks : banks[b] = 0

\* A live controller on a bank is the one the cache has for it, until the call
\* that takes it out of the cache has freed the bank too.
AttachedCached ==
    \A i \in 1 .. made :
        Alive(i) /\ banks[bankOf[i]] = i =>
            \/ cache[bankOf[i]] = i
            \/ call.op = "detach" /\ i \in call.s
            \/ call.op = "closeall"

\* At every point of every call a live controller is connected at the rate of
\* the stream its bank is on.
Connection ==
    /\ \A i \in 1 .. made :
           Alive(i) => conn[i] = IF banks[bankOf[i]] = i THEN stream ELSE 0
    /\ \A i \in Ids : i > made => conn[i] = 0

\* A disconnected controller is out of the cache, the banks and the call.
Gone ==
    \A i \in returned : /\ i \notin call.s
                        /\ \A b \in Banks : cache[b] # i /\ banks[b] # i

\* It owes at most the block of the callback that had locked it.
LateBlocks ==
    /\ ~running => snapshot = {}
    /\ \A i \in Ids : /\ late[i] <= 1
                      /\ i \notin returned \/ i \in snapshot => late[i] = 0

IInv ==
    /\ TypeOK
    /\ OwnBank
    /\ CallStage
    /\ Unmapped
    /\ AttachedCached
    /\ Connection
    /\ Gone
    /\ LateBlocks


-----------------------------------------------------------------------------
(* Facts every step of the proof uses.                                      *)

\* The live controllers have been made, and so have those on a bank.
LEMMA AliveMade ==
    ASSUME IInv
    PROVE  /\ \A i : Alive(i) => i \in 1 .. made
           /\ Attached \subseteq 1 .. made
           /\ \A i : i \in Attached <=> i \in 1 .. made /\ Alive(i) /\ banks[bankOf[i]] = i
           /\ 1 .. made \subseteq Ids
<1>1. \A i : Alive(i) => i \in 1 .. made
  BY DEF IInv, TypeOK, Alive
<1>2. 1 .. made \subseteq Ids
  BY AvbAssumption DEF IInv, TypeOK, Ids
<1>3. \A i : i \in Attached <=> i \in 1 .. made /\ Alive(i) /\ banks[bankOf[i]] = i
  BY <1>1, <1>2, AvbAssumption DEF IInv, TypeOK, Attached, OwnBank, Ids
<1> QED
  BY <1>1, <1>2, <1>3

\* Telling controllers their rate keeps the type and touches nobody else.
LEMMA ToldFacts ==
    ASSUME TypeOK, NEW S, NEW rate \in Rates \cup {0}
    PROVE  /\ Told(S, rate) \in [Ids -> Rates \cup {0}]
           /\ \A i \in Ids : Told(S, rate)[i] = IF i \in S THEN rate ELSE conn[i]
BY DEF TypeOK, Told

\* What open() can leave behind, whether it succeeds or fails.
LEMMA OpenFacts ==
    ASSUME IInv, NEW rate \in Rates, Opens(rate) \/ OpenFails(rate)
    PROVE  /\ stream' \in Rates \cup {0}
           /\ faults' \in 0 .. MaxFaults
           /\ conn' \in [Ids -> Rates \cup {0}]
           /\ \A i \in Ids \ Attached : conn'[i] = conn[i]
           /\ \A i \in Attached : conn'[i] = stream'
<1>1. TypeOK
  BY DEF IInv
<1>2. \A i \in Attached : i \in Ids /\ conn[i] = stream
  BY AliveMade DEF IInv, Connection
<1>3. stream' \in Rates \cup {0} /\ faults' \in 0 .. MaxFaults
  BY <1>1, AvbAssumption DEF TypeOK, Opens, OpenFails, Fault
<1>4. CASE UNCHANGED <<stream, conn>>
  BY <1>1, <1>2, <1>3, <1>4 DEF TypeOK
<1>5. CASE conn' = Told(Attached, stream')
  BY <1>1, <1>2, <1>3, <1>5, ToldFacts
<1>6. CASE stream = 0 /\ stream' = 0 /\ conn' = conn
  BY <1>1, <1>2, <1>3, <1>6 DEF TypeOK
<1> QED
  BY <1>4, <1>5, <1>6 DEF Opens, OpenFails

\* Appending a bank to the list of the controllers' banks.
LEMMA MadeOneMore ==
    ASSUME NEW n \in Nat, NEW f \in [1 .. n -> Banks], NEW b \in Banks
    PROVE  /\ Append(f, b) \in [1 .. (n + 1) -> Banks]
           /\ Append(f, b)[n + 1] = b
           /\ \A i \in 1 .. n : Append(f, b)[i] = f[i]
<1>1. f \in Seq(Banks)
  BY IsASeq
<1>2. Len(f) = n
  BY <1>1, LenProperties
<1>3. /\ Append(f, b) \in Seq(Banks)
      /\ Len(Append(f, b)) = n + 1
      /\ \A i \in 1 .. n : Append(f, b)[i] = f[i]
      /\ Append(f, b)[n + 1] = b
  BY <1>1, <1>2, AppendProperties
<1>4. Append(f, b) \in [1 .. (n + 1) -> Banks]
  BY <1>3, LenProperties
<1> QED
  BY <1>3, <1>4

\* The controller connectController goes on with.
LEMMA ConnectFacts ==
    ASSUME IInv, NEW b \in Banks, Connect(b)
    PROVE  \E i \in Ids :
             /\ cache' = [cache EXCEPT ![b] = i]
             /\ call' = Doing("open", {i}, choosePointRate(configured))
             /\ choosePointRate(configured) \in Rates
             /\ \/ /\ i = cache[b] /\ Alive(i) /\ UNCHANGED <<made, bankOf>>
                   /\ i \in 1 .. made /\ bankOf[i] = b
                \/ /\ i = made + 1 /\ made' = made + 1
                   /\ cache[b] = 0 \/ ~Alive(cache[b])
                   /\ bankOf' = Append(bankOf, b)
                   /\ bankOf' \in [1 .. made' -> Banks]
                   /\ bankOf'[i] = b
                   /\ \A j \in 1 .. made : bankOf'[j] = bankOf[j]
<1>1. TypeOK /\ OwnBank
  BY DEF IInv
<1>2. choosePointRate(configured) \in Rates
  BY <1>1, AvbAssumption DEF TypeOK, choosePointRate
<1> DEFINE i == IF cache[b] # 0 /\ Alive(cache[b]) THEN cache[b] ELSE made + 1
<1>3. /\ i \in Ids
      /\ cache' = [cache EXCEPT ![b] = i]
      /\ made' = IF i = cache[b] THEN made ELSE i
      /\ bankOf' = IF i = cache[b] THEN bankOf ELSE Append(bankOf, b)
      /\ call' = Doing("open", {i}, choosePointRate(configured))
  BY DEF Connect
<1>4. CASE cache[b] # 0 /\ Alive(cache[b])
  BY <1>1, <1>2, <1>3, <1>4 DEF OwnBank
<1>5. CASE ~(cache[b] # 0 /\ Alive(cache[b]))
  <2>1. i = made + 1 /\ i # cache[b]
    BY <1>1, <1>5 DEF TypeOK, OwnBank
  <2>2. made \in Nat /\ bankOf \in [1 .. made -> Banks]
    BY <1>1 DEF TypeOK
  <2>3. made' = made + 1 /\ bankOf' = Append(bankOf, b)
    BY <1>3, <2>1
  <2>4. /\ bankOf' \in [1 .. made' -> Banks]
        /\ bankOf'[made + 1] = b
        /\ \A j \in 1 .. made : bankOf'[j] = bankOf[j]
    BY <2>2, <2>3, MadeOneMore
  <2> HIDE DEF i
  <2> QED
    BY <1>2, <1>3, <1>5, <2>1, <2>3, <2>4
<1> QED
  BY <1>4, <1>5

\* Every variable keeps its kind.
LEMMA TypeStep ==
    ASSUME IInv, Next, Unmapped'
    PROVE  TypeOK'
<1> USE AvbAssumption
<1>a. TypeOK /\ CallStage
  BY DEF IInv
<1>b. 1 .. made \subseteq Ids /\ 0 \in Ids \cup {0} /\ Attached \subseteq 1 .. made
  BY AliveMade
<1>c. Idle \in [op : Ops, s : SUBSET (1 .. made), rate : Rates \cup {0}]
  BY DEF Idle, Doing, Ops
<1> DEFINE Rest == ~mapped /\ call = Idle => stream = 0 /\ banks = [b \in Banks |-> 0]
<1>d. banks' \in [Banks -> Ids \cup {0}] => Rest'
  BY DEF Unmapped, Idle, Doing
<1> HIDE DEF Rest
<1>1. ASSUME NEW b \in Banks, Connect(b)
      PROVE  TypeOK'
  <2>1. PICK i \in Ids :
          /\ cache' = [cache EXCEPT ![b] = i]
          /\ call' = Doing("open", {i}, choosePointRate(configured))
          /\ choosePointRate(configured) \in Rates
          /\ \/ i \in 1 .. made /\ UNCHANGED <<made, bankOf>>
             \/ i = made + 1 /\ made' = made + 1 /\ bankOf' \in [1 .. made' -> Banks]
    BY <1>1, ConnectFacts
  <2>2. made' \in 0 .. MaxControllers /\ i \in 1 .. made' /\ 1 .. made \subseteq 1 .. made'
    BY <2>1, <1>a DEF TypeOK, Ids
  <2>3. bankOf' \in [1 .. made' -> Banks]
    BY <2>1, <1>a DEF TypeOK
  <2>4. call' \in [op : Ops, s : SUBSET (1 .. made'), rate : Rates \cup {0}]
    BY <2>1, <2>2 DEF Doing, Ops
  <2>5. cache' \in [Banks -> Ids \cup {0}]
    BY <2>1, <1>a DEF TypeOK
  <2> QED
    BY <1>1, <1>a, <1>d, <2>2, <2>3, <2>4, <2>5 DEF Connect, TypeOK, host, audio, Rest
<1>2. ASSUME NEW b \in Banks, Disconnect(b)
      PROVE  TypeOK'
  <2>1. ~Alive(cache[b]) \/ cache[b] \in 1 .. made
    BY AliveMade
  <2>2. call' \in [op : Ops, s : SUBSET (1 .. made), rate : Rates \cup {0}]
    BY <1>2, <2>1, <1>c DEF Disconnect, Doing, Ops
  <2> QED
    BY <1>2, <1>a, <1>b, <1>d, <2>2 DEF Disconnect, TypeOK, host, audio, runtime, Rest
<1>3. ASSUME ConnectOpens \/ ConnectFails \/ Reopen
      PROVE  TypeOK'
  <2>1. call.rate \in Rates /\ (Opens(call.rate) \/ OpenFails(call.rate))
    BY <1>3, <1>a DEF CallStage, ConnectOpens, ConnectFails, Reopen
  <2>2. /\ stream' \in Rates \cup {0} /\ faults' \in 0 .. MaxFaults
        /\ conn' \in [Ids -> Rates \cup {0}]
    BY <2>1, OpenFacts
  <2>3. call' \in [op : Ops, s : SUBSET (1 .. made), rate : Rates \cup {0}]
    BY <1>3, <1>a, <1>c DEF ConnectOpens, ConnectFails, Reopen, TypeOK, Ops
  <2> QED
    BY <1>3, <1>a, <1>d, <2>2, <2>3
       DEF ConnectOpens, ConnectFails, Reopen, TypeOK, audio, objects, Rest
<1>4. CASE Attach
  <2>1. PICK i \in call.s :
          /\ banks' = [banks EXCEPT ![bankOf[i]] = i]
          /\ conn' = IF stream = 0 THEN conn ELSE Told({i}, stream)
          /\ held' = held \cup {i}
    BY <1>4 DEF Attach
  <2>2. i \in 1 .. made /\ conn' \in [Ids -> Rates \cup {0}]
    BY <1>a, <2>1, ToldFacts DEF TypeOK
  <2> QED
    BY <1>4, <1>a, <1>b, <1>c, <1>d, <2>1, <2>2 DEF Attach, TypeOK, host, audio, Rest
<1>5. CASE Detach
  <2>1. PICK i \in call.s :
          /\ banks' = [banks EXCEPT ![bankOf[i]] = 0]
          /\ conn' = Told(Attached \cap {banks[bankOf[i]]}, 0)
    BY <1>5 DEF Detach
  <2>2. conn' \in [Ids -> Rates \cup {0}]
    BY <1>a, <2>1, ToldFacts
  <2>3. call' \in [op : Ops, s : SUBSET (1 .. made), rate : Rates \cup {0}]
    BY <1>5, <1>a DEF Detach, TypeOK, Ops
  <2> QED
    BY <1>5, <1>a, <1>d, <2>1, <2>2, <2>3 DEF Detach, TypeOK, host, audio, objects, Rest
<1>6. CASE Stop \/ Discard \/ CloseRest
  <2>1. conn' \in [Ids -> Rates \cup {0}]
    BY <1>6, <1>a, ToldFacts DEF Stop, Discard, CloseRest, TypeOK
  <2>2. /\ banks' \in [Banks -> Ids \cup {0}] /\ stream' \in Rates \cup {0}
        /\ mapped' \in BOOLEAN
    BY <1>6, <1>a DEF Stop, Discard, CloseRest, CloseRuntime, runtime, TypeOK
  <2>3. returned' \subseteq 1 .. made /\ call' = Idle
    BY <1>6, <1>a DEF Stop, Discard, CloseRest, audio, TypeOK
  <2> QED
    BY <1>6, <1>a, <1>c, <1>d, <2>1, <2>2, <2>3
       DEF Stop, Discard, CloseRest, TypeOK, host, audio, objects, Rest
<1>7. ASSUME NEW r \in Rates \cup {0}, Configure(r)
      PROVE  TypeOK'
  <2>1. mapped' \in BOOLEAN
    BY <1>7, <1>a DEF Configure, TypeOK
  <2>2. call' \in [op : Ops, s : SUBSET (1 .. made), rate : Rates \cup {0}]
    BY <1>7, <1>c DEF Configure, Doing, Ops
  <2> QED
    BY <1>7, <1>a, <1>d, <2>1, <2>2 DEF Configure, TypeOK, host, audio, objects, Rest
<1>8. CASE CloseAll
  <2>1. call' \in [op : Ops, s : SUBSET (1 .. made), rate : Rates \cup {0}]
    BY <1>8, AliveMade DEF CloseAll, Doing, Ops
  <2> QED
    BY <1>8, <1>a, <1>d, <2>1 DEF CloseAll, TypeOK, host, audio, Rest
<1>9. ASSUME NEW i \in Ids, Drop(i)
      PROVE  TypeOK'
  BY <1>9, <1>a, <1>d DEF Drop, TypeOK, host, audio, runtime, Rest
<1>10. CASE Callback
  BY <1>10, <1>a, <1>b, <1>d DEF Callback, TypeOK, host, objects, Rest
<1>11. CASE Render
  <2>1. late' \in [Ids -> 0 .. 2]
    BY <1>11, <1>a DEF Render, TypeOK
  <2> QED
    BY <1>11, <1>a, <1>d, <2>1 DEF Render, TypeOK, host, runtime, objects, Rest
<1>12. CASE Unplug \/ Plug
  <2>1. plugged' \in BOOLEAN
    BY <1>12, Zenon DEF Unplug, Plug
  <2>2. faults' \in 0 .. MaxFaults
    BY <1>12, <1>a DEF Unplug, Plug, Fault, TypeOK
  <2> QED
    BY <1>12, <1>a, <1>d, <2>1, <2>2 DEF Unplug, Plug, TypeOK, audio, runtime, objects, Rest
<1> QED
  BY <1>1, <1>2, <1>3, <1>4, <1>5, <1>6, <1>7, <1>8, <1>9, <1>10, <1>11, <1>12 DEF Next

-----------------------------------------------------------------------------
(* One lemma per part of the invariant, one step per action.                *)

\* No controller comes back to life.
LEMMA AliveStep ==
    ASSUME IInv, Next
    PROVE  \A i \in 1 .. made : Alive(i)' => Alive(i)
<1>a. TypeOK /\ LateBlocks
  BY DEF IInv
<1>1. ASSUME NEW b \in Banks, Connect(b)
      PROVE  \A i \in 1 .. made : Alive(i)' => Alive(i)
  <2>1. PICK i \in Ids :
          /\ call' = Doing("open", {i}, choosePointRate(configured))
          /\ Alive(i) \/ i = made + 1
    BY <1>1, ConnectFacts
  <2>2. made + 1 \notin 1 .. made
    BY <1>a DEF TypeOK
  <2> QED
    BY <1>1, <2>1, <2>2 DEF Connect, Alive, Doing, audio
<1>2. ASSUME NEW b \in Banks, Disconnect(b)
      PROVE  \A i \in 1 .. made : Alive(i)' => Alive(i)
  BY <1>2 DEF Disconnect, Alive, Doing, Idle, audio
<1>3. CASE ConnectOpens \/ ConnectFails \/ Reopen \/ Attach
  <2>1. call'.s = call.s \/ call'.s = {}
    BY <1>3, <1>a DEF ConnectOpens, ConnectFails, Reopen, Attach, Doing, Idle, TypeOK
  <2>2. held' \subseteq held \cup call.s /\ snapshot' = snapshot
    BY <1>3 DEF ConnectOpens, ConnectFails, Reopen, Attach, audio, objects
  <2> QED
    BY <2>1, <2>2 DEF Alive
<1>4. CASE Detach \/ Stop \/ Discard \/ CloseRest
  BY <1>4, <1>a DEF Detach, Stop, Discard, CloseRest, Alive, Doing, Idle, audio, objects,
                    TypeOK
<1>5. ASSUME NEW r \in Rates \cup {0}, Configure(r)
      PROVE  \A i \in 1 .. made : Alive(i)' => Alive(i)
  BY <1>5 DEF Configure, Alive, Doing, Idle, audio, objects
<1>6. CASE CloseAll
  BY <1>6 DEF CloseAll, Alive, Doing, audio
<1>7. ASSUME NEW i \in Ids, Drop(i)
      PROVE  \A j \in 1 .. made : Alive(j)' => Alive(j)
  BY <1>7 DEF Drop, Alive, audio
<1>8. CASE Callback \/ Render
  BY <1>8 DEF Callback, Render, Attached, Alive, objects
<1>9. CASE Unplug \/ Plug
  BY <1>9 DEF Unplug, Plug, Alive, audio, objects
<1> QED
  BY <1>1, <1>2, <1>3, <1>4, <1>5, <1>6, <1>7, <1>8, <1>9 DEF Next

\* A bank and a cache entry keep holding a controller made for that bank.
LEMMA OwnBankStep ==
    ASSUME IInv, Next
    PROVE  OwnBank'
<1>a. TypeOK /\ OwnBank /\ CallStage
  BY DEF IInv
<1>1. ASSUME NEW b \in Banks, Connect(b)
      PROVE  OwnBank'
  <2>1. PICK i \in Ids :
          /\ cache' = [cache EXCEPT ![b] = i]
          /\ \/ UNCHANGED <<made, bankOf>> /\ i \in 1 .. made /\ bankOf[i] = b
             \/ /\ i = made + 1 /\ made' = made + 1 /\ bankOf'[i] = b
                /\ \A j \in 1 .. made : bankOf'[j] = bankOf[j]
    BY <1>1, ConnectFacts
  <2>2. i \in 1 .. made' /\ bankOf'[i] = b /\ banks' = banks
    BY <1>1, <2>1, <1>a DEF TypeOK, Connect
  <2>3. \A j \in 1 .. made : j \in 1 .. made' /\ bankOf'[j] = bankOf[j]
    BY <2>1, <1>a DEF TypeOK
  <2> QED
    BY <2>1, <2>2, <2>3, <1>a DEF OwnBank, TypeOK
<1>2. ASSUME NEW b \in Banks, Disconnect(b)
      PROVE  OwnBank'
  BY <1>2, <1>a DEF Disconnect, OwnBank, runtime, TypeOK
<1>3. CASE Attach
  <2>1. PICK i \in 1 .. made : banks' = [banks EXCEPT ![bankOf[i]] = i]
    BY <1>3, <1>a DEF Attach, TypeOK
  <2>2. bankOf[i] \in Banks
    BY <1>a DEF TypeOK
  <2> QED
    BY <1>3, <1>a, <2>1, <2>2 DEF Attach, OwnBank, TypeOK
<1>4. CASE Detach
  <2>1. PICK i \in 1 .. made : banks' = [banks EXCEPT ![bankOf[i]] = 0]
    BY <1>4, <1>a DEF Detach, TypeOK
  <2> QED
    BY <1>4, <1>a, <2>1 DEF Detach, OwnBank, TypeOK, objects
<1>5. CASE Stop \/ Discard \/ CloseRest
  BY <1>5, <1>a DEF Stop, Discard, CloseRest, CloseRuntime, OwnBank, objects, runtime
<1>6. CASE CloseAll
  BY <1>6, <1>a DEF CloseAll, OwnBank
<1>7. CASE Callback
  BY <1>7, <1>a DEF Callback, OwnBank, objects
<1>8. ASSUME UNCHANGED <<banks, cache, bankOf, made>>
      PROVE  OwnBank'
  BY <1>8, <1>a DEF OwnBank
<1> QED
  BY <1>1, <1>2, <1>3, <1>4, <1>5, <1>6, <1>7, <1>8
     DEF Next, ConnectOpens, ConnectFails, Configure, Reopen, Drop, Render, Unplug, Plug,
         objects, runtime

\* Each stage of a call is entered with what it relies on, and nothing but the
\* call takes it away.
LEMMA CallStageStep ==
    ASSUME IInv, Next
    PROVE  CallStage'
<1> USE AvbAssumption
<1>a. TypeOK /\ OwnBank /\ CallStage /\ Unmapped
  BY DEF IInv
<1>1. ASSUME NEW b \in Banks, Connect(b)
      PROVE  CallStage'
  <2>1. PICK i \in Ids :
          /\ cache' = [cache EXCEPT ![b] = i]
          /\ call' = Doing("open", {i}, choosePointRate(configured))
          /\ choosePointRate(configured) \in Rates
          /\ \/ UNCHANGED <<made, bankOf>> /\ i \in 1 .. made /\ bankOf[i] = b
             \/ i = made + 1 /\ made' = made + 1 /\ bankOf'[i] = b
    BY <1>1, ConnectFacts
  <2>2. i \in 1 .. made' /\ bankOf'[i] = b /\ cache'[b] = i /\ mapped'
    BY <1>1, <2>1, <1>a DEF TypeOK, Connect
  <2> QED
    BY <2>1, <2>2 DEF CallStage, Doing
<1>2. ASSUME NEW b \in Banks, Disconnect(b)
      PROVE  CallStage'
  <2>1. cache[b] \in 1 .. made /\ bankOf[cache[b]] = b
    BY <1>2, <1>a DEF Disconnect, OwnBank
  <2>2. /\ cache' = [cache EXCEPT ![b] = 0] /\ UNCHANGED <<bankOf, made, mapped, banks>>
        /\ \/ call' = Idle
           \/ call' = Doing("detach", {cache[b]}, 0) /\ mapped
           \/ call' = Doing("stop", {cache[b]}, 0) /\ ~mapped
    BY <1>2 DEF Disconnect, runtime
  <2>3. cache'[b] = 0 /\ cache[b] # 0
    BY <2>1, <2>2, <1>a DEF TypeOK
  <2>4. ~mapped => banks[b] = 0
    BY <1>2, <1>a DEF Disconnect, Unmapped, Idle, Doing
  <2> QED
    BY <2>1, <2>2, <2>3, <2>4 DEF CallStage, Doing, Idle
<1>3. CASE ConnectOpens
  <2>1. call' = [call EXCEPT !.op = "attach"] /\ UNCHANGED <<mapped, cache, bankOf, made>>
    BY <1>3 DEF ConnectOpens, objects
  <2>2. call'.op = "attach" /\ call'.s = call.s /\ call'.rate = call.rate /\ call.op = "open"
    BY <1>3, <2>1, <1>a DEF ConnectOpens, TypeOK
  <2> QED
    BY <1>a, <2>1, <2>2 DEF CallStage
<1>4. CASE Detach
  <2>1. call' = [call EXCEPT !.op = "stop"] /\ UNCHANGED <<mapped, cache, bankOf, made>>
    BY <1>4 DEF Detach, objects
  <2>2. call'.op = "stop" /\ call'.s = call.s /\ call.op = "detach"
    BY <1>4, <2>1, <1>a DEF Detach, TypeOK
  <2>3. PICK i \in 1 .. made : call.s = {i}
    BY <1>a, <2>2 DEF CallStage
  <2>4. banks' = [banks EXCEPT ![bankOf[i]] = 0] /\ bankOf[i] \in Banks /\ i # 0
    BY <1>4, <2>3, <1>a DEF Detach, TypeOK
  <2> QED
    BY <1>a, <2>1, <2>2, <2>3, <2>4 DEF CallStage, TypeOK
<1>5. CASE call' = Idle
  BY <1>5 DEF CallStage, Idle, Doing
<1>6. ASSUME NEW r \in Rates \cup {0}, Configure(r), call' # Idle
      PROVE  CallStage'
  BY <1>6 DEF Configure, CallStage, Doing, Idle
<1>7. CASE CloseAll
  <2>1. /\ call'.op = "closeall" /\ cache' = [b \in Banks |-> 0] /\ UNCHANGED bankOf
        /\ call'.s \subseteq 1 .. made
    BY <1>7, AliveMade DEF CloseAll, Doing
  <2>2. \A i \in 1 .. made : bankOf[i] \in Banks /\ i # 0
    BY <1>a DEF TypeOK
  <2> QED
    BY <2>1, <2>2 DEF CallStage
<1>8. CASE Callback
  <2>1. \A b \in Banks : banks'[b] = banks[b] \/ banks'[b] = 0
    BY <1>8 DEF Callback
  <2>2. \A i \in 1 .. made : bankOf[i] \in Banks /\ i # 0
    BY <1>a DEF TypeOK
  <2>3. call.s \subseteq 1 .. made
    BY <1>a DEF TypeOK
  <2>4. UNCHANGED <<call, mapped, cache, bankOf, made>>
    BY <1>8 DEF Callback, objects
  <2>5. call.op = "stop" => \A i \in call.s : banks'[bankOf[i]] # i
    BY <2>1, <2>2, <2>3, <1>a DEF CallStage
  <2> QED
    BY <2>4, <2>5, <1>a DEF CallStage
<1>9. ASSUME UNCHANGED <<call, mapped, banks, cache, bankOf, made>>
      PROVE  CallStage'
  BY <1>9, <1>a DEF CallStage
<1> QED
  BY <1>1, <1>2, <1>3, <1>4, <1>5, <1>6, <1>7, <1>8, <1>9
     DEF Next, ConnectFails, Attach, Stop, Discard, Reopen, CloseRest, Drop, Render, Unplug,
         Plug, objects, runtime

\* What is not in the map has been closed, or its caller is about to close it.
LEMMA UnmappedStep ==
    ASSUME IInv, Next
    PROVE  Unmapped'
<1>a. TypeOK /\ CallStage /\ Unmapped
  BY DEF IInv
<1>1. ASSUME NEW b \in Banks, Connect(b)
      PROVE  Unmapped'
  BY <1>1 DEF Connect, Unmapped
<1>2. ASSUME NEW b \in Banks, Disconnect(b)
      PROVE  Unmapped'
  BY <1>2, <1>a DEF Disconnect, Unmapped, runtime, Idle, Doing
<1>3. CASE ConnectOpens \/ ConnectFails \/ Reopen \/ Attach \/ Detach
  BY <1>3, <1>a DEF ConnectOpens, ConnectFails, Reopen, Attach, Detach, CallStage, Unmapped
<1>4. CASE Stop \/ Discard \/ CloseRest
  BY <1>4, <1>a DEF Stop, Discard, CloseRest, CloseRuntime, Unmapped, runtime
<1>5. ASSUME NEW r \in Rates \cup {0}, Configure(r)
      PROVE  Unmapped'
  BY <1>5, <1>a DEF Configure, Unmapped, Idle, Doing
<1>6. CASE CloseAll
  BY <1>6 DEF CloseAll, Unmapped, Doing
<1>7. CASE Callback
  BY <1>7, <1>a DEF Callback, Unmapped
<1>8. ASSUME UNCHANGED <<call, mapped, stream, banks>>
      PROVE  Unmapped'
  BY <1>8, <1>a DEF Unmapped
<1> QED
  BY <1>1, <1>2, <1>3, <1>4, <1>5, <1>6, <1>7, <1>8
     DEF Next, Drop, Render, Unplug, Plug, runtime

\* A live controller on a bank stays the cached one.
LEMMA AttachedCachedStep ==
    ASSUME IInv, Next
    PROVE  AttachedCached'
<1>a. TypeOK /\ OwnBank /\ CallStage /\ Unmapped /\ AttachedCached
  BY DEF IInv
<1>b. \A i \in 1 .. made : Alive(i)' => Alive(i)
  BY AliveStep
<1>c. \A i \in 1 .. made : bankOf[i] \in Banks /\ i # 0
  BY <1>a DEF TypeOK
<1>1. ASSUME NEW b \in Banks, Connect(b)
      PROVE  AttachedCached'
  <2>1. PICK i \in Ids :
          /\ cache' = [cache EXCEPT ![b] = i]
          /\ \/ i = cache[b] /\ UNCHANGED <<made, bankOf>>
             \/ /\ i = made + 1 /\ made' = made + 1
                /\ cache[b] = 0 \/ ~Alive(cache[b])
                /\ bankOf'[i] = b
                /\ \A j \in 1 .. made : bankOf'[j] = bankOf[j]
    BY <1>1, ConnectFacts
  <2>2. UNCHANGED banks /\ call.op = "idle"
    BY <1>1 DEF Connect, Idle, Doing
  <2>3. ASSUME NEW j \in 1 .. made, Alive(j), banks[bankOf[j]] = j
        PROVE  cache'[bankOf[j]] = j
    <3>1. cache[bankOf[j]] = j
      BY <1>a, <2>2, <2>3 DEF AttachedCached
    <3> QED
      BY <1>a, <1>c, <2>1, <2>3, <3>1 DEF TypeOK
  <2>4. CASE UNCHANGED <<made, bankOf>>
    BY <1>b, <2>2, <2>3, <2>4 DEF AttachedCached
  <2>5. CASE made' = made + 1 /\ bankOf'[made + 1] = b /\ cache'[b] = made + 1
             /\ \A j \in 1 .. made : bankOf'[j] = bankOf[j]
    <3>1. \A j \in 1 .. made' : j \in 1 .. made \/ j = made + 1
      BY <2>5, <1>a DEF TypeOK
    <3> QED
      BY <1>b, <2>2, <2>3, <2>5, <3>1 DEF AttachedCached
  <2>6. cache'[b] = i
    BY <2>1, <1>a DEF TypeOK
  <2> QED
    BY <2>1, <2>4, <2>5, <2>6
<1>2. ASSUME NEW b \in Banks, Disconnect(b)
      PROVE  AttachedCached'
  <2>1. cache[b] \in 1 .. made /\ bankOf[cache[b]] = b
    BY <1>2, <1>a DEF Disconnect, OwnBank
  <2>2. /\ cache' = [cache EXCEPT ![b] = 0] /\ UNCHANGED <<bankOf, made, mapped, banks>>
        /\ call.op = "idle"
        /\ \/ ~Alive(cache[b])
           \/ call'.op = "detach" /\ call'.s = {cache[b]}
           \/ ~mapped
    BY <1>2 DEF Disconnect, runtime, Idle, Doing
  <2>3. ~mapped => \A d \in Banks : banks[d] = 0
    BY <2>2, <1>a DEF Unmapped
  <2>4. ASSUME NEW j \in 1 .. made, Alive(j), banks[bankOf[j]] = j
        PROVE  cache'[bankOf[j]] = j \/ (call'.op = "detach" /\ j \in call'.s)
    <3>1. cache[bankOf[j]] = j
      BY <1>a, <2>2, <2>4 DEF AttachedCached
    <3>2. mapped
      BY <1>c, <2>3, <2>4
    <3>3. CASE bankOf[j] = b
      BY <2>2, <2>4, <3>1, <3>2, <3>3
    <3>4. CASE bankOf[j] # b
      <4>1. cache \in [Banks -> Ids \cup {0}] /\ cache' = [cache EXCEPT ![b] = 0]
        BY <1>a, <2>2 DEF TypeOK
      <4>2. cache'[bankOf[j]] = cache[bankOf[j]]
        BY <3>4, <1>c, <4>1
      <4> QED
        BY <3>1, <4>2
    <3> QED
      BY <3>3, <3>4
  <2> QED
    BY <1>b, <2>2, <2>4 DEF AttachedCached
<1>3. CASE ConnectOpens \/ ConnectFails \/ Reopen
  BY <1>3, <1>a, <1>b DEF ConnectOpens, ConnectFails, Reopen, AttachedCached, objects
<1>4. CASE Attach
  <2>1. PICK i \in 1 .. made : call.s = {i}
    BY <1>4, <1>a DEF Attach, CallStage
  <2>2. /\ banks' = [banks EXCEPT ![bankOf[i]] = i] /\ UNCHANGED <<cache, bankOf, made>>
        /\ cache[bankOf[i]] = i /\ call.op = "attach"
    BY <1>4, <2>1, <1>a DEF Attach, CallStage
  <2> QED
    BY <1>a, <1>b, <1>c, <2>1, <2>2 DEF AttachedCached, TypeOK
<1>5. CASE Detach
  <2>1. PICK i \in 1 .. made : call.s = {i}
    BY <1>5, <1>a DEF Detach, CallStage
  <2>2. /\ banks' = [banks EXCEPT ![bankOf[i]] = 0] /\ UNCHANGED <<cache, bankOf, made>>
        /\ call.op = "detach"
    BY <1>5, <2>1 DEF Detach, objects
  <2>3. ASSUME NEW j \in 1 .. made, Alive(j), banks'[bankOf[j]] = j
        PROVE  cache[bankOf[j]] = j
    BY <1>a, <1>c, <2>1, <2>2, <2>3 DEF AttachedCached, TypeOK
  <2> QED
    BY <1>b, <2>2, <2>3 DEF AttachedCached
<1>6. CASE Stop
  <2>1. UNCHANGED <<cache, bankOf, made>> /\ call.op = "stop"
    BY <1>6 DEF Stop, objects
  <2>2. \A b \in Banks : banks'[b] = banks[b] \/ banks'[b] = 0
    BY <1>6 DEF Stop, CloseRuntime, runtime
  <2> QED
    BY <1>a, <1>b, <1>c, <2>1, <2>2 DEF AttachedCached
<1>7. CASE Discard \/ CloseRest
  <2>1. UNCHANGED <<bankOf, made>> /\ \A b \in Banks : banks'[b] = 0
    BY <1>7 DEF Discard, CloseRest, CloseRuntime, objects
  <2> QED
    BY <1>c, <2>1 DEF AttachedCached
<1>8. ASSUME NEW r \in Rates \cup {0}, Configure(r)
      PROVE  AttachedCached'
  BY <1>8, <1>a, <1>b DEF Configure, AttachedCached, objects, Idle, Doing
<1>9. CASE CloseAll
  BY <1>9 DEF CloseAll, AttachedCached, Doing
<1>10. CASE Callback
  <2>1. /\ UNCHANGED <<cache, bankOf, made, call>>
        /\ \A b \in Banks : banks'[b] = banks[b] \/ banks'[b] = 0
    BY <1>10 DEF Callback, objects
  <2> QED
    BY <1>a, <1>b, <1>c, <2>1 DEF AttachedCached
<1>11. ASSUME UNCHANGED <<call, banks, cache, bankOf, made>>
       PROVE  AttachedCached'
  BY <1>11, <1>a, <1>b DEF AttachedCached
<1> QED
  BY <1>1, <1>2, <1>3, <1>4, <1>5, <1>6, <1>7, <1>8, <1>9, <1>10, <1>11
     DEF Next, Drop, Render, Unplug, Plug, objects, runtime

\* Whatever is done to the stream or the banks is told to those it concerns.
LEMMA ConnectionStep ==
    ASSUME IInv, Next
    PROVE  Connection'
<1>a. TypeOK /\ OwnBank /\ CallStage /\ AttachedCached /\ Connection
  BY DEF IInv
<1>b. \A i \in 1 .. made : Alive(i)' => Alive(i)
  BY AliveStep
<1>c. \A i \in 1 .. made : bankOf[i] \in Banks /\ i # 0 /\ i \in Ids /\ ~(i > made)
  BY <1>a, AliveMade DEF TypeOK
<1>d. \A i \in Ids : i > made <=> i \notin 1 .. made
  BY <1>a DEF TypeOK, Ids
<1>e. \A i : i \in Attached <=> i \in 1 .. made /\ Alive(i) /\ banks[bankOf[i]] = i
  BY AliveMade
<1>f. /\ banks \in [Banks -> Ids \cup {0}]
      /\ conn \in [Ids -> Rates \cup {0}]
      /\ stream \in Rates \cup {0}
      /\ call.s \subseteq 1 .. made
  BY <1>a DEF TypeOK
<1>1. ASSUME NEW b \in Banks, Connect(b)
      PROVE  Connection'
  <2>1. UNCHANGED <<banks, stream, conn>>
    BY <1>1 DEF Connect
  <2>2. CASE UNCHANGED <<made, bankOf>>
    BY <1>a, <1>b, <2>1, <2>2 DEF Connection
  <2>3. CASE /\ made' = made + 1 /\ bankOf'[made + 1] = b /\ made + 1 \in Ids
             /\ \A j \in 1 .. made : bankOf'[j] = bankOf[j]
    <3>1. /\ \A j \in 1 .. made' : j \in 1 .. made \/ j = made + 1
          /\ \A j \in Ids : j > made' => j > made
          /\ made + 1 > made /\ made + 1 \notin 1 .. made /\ made + 1 # 0
      BY <2>3, <1>a DEF TypeOK, Ids
    <3>2. banks[b] # made + 1 /\ conn[made + 1] = 0
      BY <3>1, <2>3, <1>a DEF OwnBank, Connection
    <3> QED
      BY <1>a, <1>b, <2>1, <2>3, <3>1, <3>2 DEF Connection
  <2> QED
    BY <1>1, <2>2, <2>3, ConnectFacts
<1>2. CASE ConnectOpens \/ ConnectFails \/ Reopen
  <2>1. call.rate \in Rates /\ (Opens(call.rate) \/ OpenFails(call.rate))
    BY <1>2, <1>a DEF CallStage, ConnectOpens, ConnectFails, Reopen
  <2>2. /\ \A i \in Ids \ Attached : conn'[i] = conn[i]
        /\ \A i \in Attached : conn'[i] = stream'
    BY <2>1, OpenFacts
  <2>3. UNCHANGED <<banks, bankOf, made>>
    BY <1>2 DEF ConnectOpens, ConnectFails, Reopen, objects
  <2> QED
    BY <1>a, <1>b, <1>c, <1>d, <1>e, <2>2, <2>3 DEF Connection
<1>3. CASE Attach
  <2>1. PICK i \in 1 .. made : call.s = {i}
    BY <1>3, <1>a DEF Attach, CallStage
  <2>2. /\ banks' = [banks EXCEPT ![bankOf[i]] = i] /\ UNCHANGED <<bankOf, made, stream>>
        /\ conn' = IF stream = 0 THEN conn ELSE Told({i}, stream)
        /\ cache[bankOf[i]] = i /\ call.op = "attach"
    BY <1>3, <2>1, <1>a DEF Attach, CallStage
  <2>3. Alive(i)
    BY <2>1 DEF Alive
  <2>4. /\ \A j \in Ids : j # i => conn'[j] = conn[j]
        /\ conn'[i] = stream
    BY <2>2, <2>3, <1>a, <1>c, <1>f DEF Told, Connection
  <2>5. ASSUME NEW j \in 1 .. made, Alive(j), j # i
        PROVE  banks'[bankOf[j]] = j <=> banks[bankOf[j]] = j
    <3>1. CASE bankOf[j] = bankOf[i]
      <4>1. banks[bankOf[j]] # j
        BY <3>1, <2>2, <2>5, <1>a DEF AttachedCached
      <4>2. banks'[bankOf[j]] = i
        BY <3>1, <2>2, <1>c, <1>f
      <4> QED
        BY <4>1, <4>2, <2>5
    <3>2. CASE bankOf[j] # bankOf[i]
      BY <3>2, <2>2, <1>c, <1>f
    <3> QED
      BY <3>1, <3>2
  <2>6. banks'[bankOf[i]] = i
    BY <2>2, <1>c, <1>f
  <2>7. ASSUME NEW j \in 1 .. made, Alive(j)
        PROVE  conn'[j] = IF banks'[bankOf[j]] = j THEN stream ELSE 0
    <3>1. CASE j = i
      BY <3>1, <2>4, <2>6
    <3>2. CASE j # i
      BY <3>2, <2>4, <2>5, <2>7, <1>a, <1>c DEF Connection
    <3> QED
      BY <3>1, <3>2
  <2> QED
    BY <1>a, <1>b, <1>c, <2>2, <2>4, <2>7 DEF Connection
<1>4. CASE Detach
  <2>1. PICK i \in 1 .. made : call.s = {i}
    BY <1>4, <1>a DEF Detach, CallStage
  <2> DEFINE there == banks[bankOf[i]]
  <2>2. /\ banks' = [banks EXCEPT ![bankOf[i]] = 0] /\ UNCHANGED <<bankOf, made, stream>>
        /\ conn' = Told(Attached \cap {there}, 0)
    BY <1>4, <2>1 DEF Detach, objects
  <2>3. \A j \in Ids : conn'[j] = IF j \in Attached /\ j = there THEN 0 ELSE conn[j]
    BY <2>2, <1>f DEF Told
  <2>4. ASSUME NEW j \in 1 .. made, Alive(j)
        PROVE  conn'[j] = IF banks'[bankOf[j]] = j THEN stream ELSE 0
    <3>1. CASE bankOf[j] = bankOf[i]
      <4>1. banks'[bankOf[j]] = 0
        BY <3>1, <2>2, <1>c, <1>f
      <4>2. CASE there = j
        BY <4>1, <4>2, <3>1, <2>3, <2>4, <1>c, <1>e
      <4>3. CASE there # j
        BY <4>1, <4>3, <3>1, <2>3, <2>4, <1>a, <1>c DEF Connection
      <4> QED
        BY <4>2, <4>3
    <3>2. CASE bankOf[j] # bankOf[i]
      <4>1. banks'[bankOf[j]] = banks[bankOf[j]]
        BY <3>2, <2>2, <1>c, <1>f
      <4>2. there # j
        BY <3>2, <1>a, <1>c DEF OwnBank
      <4> QED
        BY <4>1, <4>2, <2>3, <2>4, <1>a, <1>c DEF Connection
    <3> QED
      BY <3>1, <3>2
  <2> QED
    BY <1>a, <1>b, <1>c, <1>d, <1>e, <2>2, <2>3, <2>4 DEF Connection
<1>5. CASE Stop
  <2>1. /\ conn' = Told(call.s, 0) /\ UNCHANGED <<bankOf, made>> /\ call.op = "stop"
        /\ \/ Attached = {} /\ stream' = 0 /\ \A b \in Banks : banks'[b] = 0
           \/ UNCHANGED <<stream, banks>>
    BY <1>5 DEF Stop, CloseRuntime, runtime, objects
  <2>2. \A j \in Ids : conn'[j] = IF j \in call.s THEN 0 ELSE conn[j]
    BY <2>1, <1>f DEF Told
  <2>3. \A j \in call.s : banks[bankOf[j]] # j
    BY <2>1, <1>a DEF CallStage
  <2>4. ASSUME NEW j \in 1 .. made, Alive(j)
        PROVE  conn'[j] = IF banks'[bankOf[j]] = j THEN stream' ELSE 0
    <3>1. CASE UNCHANGED <<stream, banks>>
      BY <3>1, <2>2, <2>3, <2>4, <1>a, <1>c DEF Connection
    <3>2. CASE Attached = {} /\ stream' = 0
      BY <3>2, <2>2, <2>4, <1>a, <1>c, <1>e DEF Connection
    <3> QED
      BY <2>1, <3>1, <3>2
  <2> QED
    BY <1>a, <1>b, <1>d, <1>f, <2>1, <2>2, <2>4 DEF Connection
<1>6. CASE Discard \/ CloseRest
  <2>1. /\ stream' = 0 /\ UNCHANGED <<bankOf, made>>
        /\ \/ conn' = conn /\ stream = 0
           \/ \E S : /\ conn' = Told(S, 0) /\ S \subseteq 1 .. made
                     /\ stream = 0 \/ Attached \subseteq S
    <3>1. CASE Discard
      BY <3>1, <1>e DEF Discard, CloseRuntime, objects
    <3>2. CASE CloseRest
      <4> DEFINE S == call.s \cup (IF stream = 0 THEN {} ELSE Attached)
      <4>1. conn' = Told(S, 0) /\ S \subseteq 1 .. made /\ (stream = 0 \/ Attached \subseteq S)
        BY <3>2, <1>e, <1>f DEF CloseRest
      <4> HIDE DEF S
      <4> QED
        BY <3>2, <4>1 DEF CloseRest, CloseRuntime, objects
    <3> QED
      BY <1>6, <3>1, <3>2
  <2>2. CASE conn' = conn /\ stream = 0
    BY <1>a, <1>b, <2>1, <2>2 DEF Connection
  <2>3. ASSUME NEW S, conn' = Told(S, 0), S \subseteq 1 .. made,
               stream = 0 \/ Attached \subseteq S
        PROVE  Connection'
    <3>1. \A j \in Ids : conn'[j] = IF j \in S THEN 0 ELSE conn[j]
      BY <2>3, <1>f DEF Told
    <3>2. \A j \in 1 .. made : Alive(j) => conn'[j] = 0
      BY <3>1, <2>3, <1>a, <1>c, <1>e DEF Connection
    <3> QED
      BY <1>a, <1>b, <1>d, <2>1, <2>3, <3>1, <3>2 DEF Connection
  <2> QED
    BY <2>1, <2>2, <2>3
<1>7. CASE Callback
  <2>1. /\ banks' = [b \in Banks |-> IF banks[b] \in Attached THEN banks[b] ELSE 0]
        /\ UNCHANGED <<bankOf, made, stream, conn>>
    BY <1>7 DEF Callback, objects
  <2>2. ASSUME NEW j \in 1 .. made, Alive(j)
        PROVE  banks'[bankOf[j]] = j <=> banks[bankOf[j]] = j
    BY <2>1, <2>2, <1>c, <1>e
  <2> QED
    BY <1>a, <1>b, <2>1, <2>2 DEF Connection
<1>8. ASSUME UNCHANGED <<banks, bankOf, made, stream, conn>>
      PROVE  Connection'
  BY <1>8, <1>a, <1>b DEF Connection
<1> QED
  BY <1>1, <1>2, <1>3, <1>4, <1>5, <1>6, <1>7, <1>8
     DEF Next, Disconnect, Configure, CloseAll, Drop, Render, Unplug, Plug, objects, runtime

\* A disconnected controller is not found again.
LEMMA GoneStep ==
    ASSUME IInv, Next
    PROVE  Gone'
<1>a. TypeOK /\ OwnBank /\ CallStage /\ Unmapped /\ Gone
  BY DEF IInv
<1>b. /\ returned \subseteq 1 .. made /\ call.s \subseteq 1 .. made
      /\ \A i \in 1 .. made : bankOf[i] \in Banks /\ i # 0
      /\ banks \in [Banks -> Ids \cup {0}] /\ cache \in [Banks -> Ids \cup {0}]
  BY <1>a DEF TypeOK
<1>1. ASSUME NEW b \in Banks, Connect(b)
      PROVE  Gone'
  <2>1. PICK i \in Ids :
          /\ cache' = [cache EXCEPT ![b] = i]
          /\ call' = Doing("open", {i}, choosePointRate(configured))
          /\ i = cache[b] \/ i = made + 1
    BY <1>1, ConnectFacts
  <2>2. i \notin returned
    <3>1. made + 1 \notin 1 .. made
      BY <1>a DEF TypeOK
    <3> QED
      BY <2>1, <3>1, <1>a, <1>b DEF Gone
  <2>3. UNCHANGED <<banks, returned>> /\ call'.s = {i}
    BY <1>1, <2>1 DEF Connect, Doing, audio
  <2> QED
    BY <1>a, <1>b, <2>1, <2>2, <2>3 DEF Gone
<1>2. ASSUME NEW b \in Banks, Disconnect(b)
      PROVE  Gone'
  <2>1. /\ cache' = [cache EXCEPT ![b] = 0] /\ UNCHANGED <<banks, returned>>
        /\ call'.s = {} \/ call'.s = {cache[b]}
    BY <1>2 DEF Disconnect, Doing, Idle, audio, runtime
  <2> QED
    BY <1>a, <1>b, <2>1 DEF Gone
<1>3. CASE Attach
  <2>1. PICK i \in call.s : banks' = [banks EXCEPT ![bankOf[i]] = i]
    BY <1>3 DEF Attach
  <2>2. UNCHANGED <<cache, returned>> /\ call'.s = {}
    BY <1>3 DEF Attach, audio, Idle, Doing
  <2> QED
    BY <1>a, <1>b, <2>1, <2>2 DEF Gone
<1>4. CASE Detach
  <2>1. PICK i \in call.s : banks' = [banks EXCEPT ![bankOf[i]] = 0]
    BY <1>4 DEF Detach
  <2>2. UNCHANGED <<cache, returned>> /\ call'.s = call.s
    BY <1>4, <1>a DEF Detach, audio, objects, TypeOK
  <2> QED
    BY <1>a, <1>b, <2>1, <2>2 DEF Gone
<1>5. CASE Stop \/ CloseRest
  <2>1. /\ UNCHANGED <<cache, bankOf>> /\ call'.s = {} /\ returned' = returned \cup call.s
        /\ call.op = "stop" \/ call.op = "closeall"
    BY <1>5 DEF Stop, CloseRest, objects, Idle, Doing
  <2>2. \/ \A b \in Banks : banks'[b] = 0
        \/ UNCHANGED banks /\ call.op = "stop"
    BY <1>5 DEF Stop, CloseRest, CloseRuntime, runtime
  <2>3. ASSUME NEW i \in call.s, NEW b \in Banks
        PROVE  cache[b] # i /\ banks'[b] # i
    BY <1>a, <1>b, <2>1, <2>2 DEF CallStage, OwnBank
  <2>4. ASSUME NEW i \in returned, NEW b \in Banks
        PROVE  cache[b] # i /\ banks'[b] # i
    BY <1>a, <1>b, <2>2 DEF Gone
  <2> QED
    BY <2>1, <2>3, <2>4 DEF Gone
<1>6. CASE Discard
  BY <1>6, <1>a, <1>b DEF Discard, CloseRuntime, Gone, audio, objects, Idle, Doing
<1>7. CASE CloseAll
  <2>1. /\ \A b \in Banks : cache'[b] = 0
        /\ UNCHANGED <<banks, returned>>
        /\ \A i \in call'.s : \E b \in Banks : cache[b] = i
    BY <1>7 DEF CloseAll, audio, Doing
  <2> QED
    BY <1>a, <1>b, <2>1 DEF Gone
<1>8. CASE Callback
  <2>1. \A b \in Banks : banks'[b] = banks[b] \/ banks'[b] = 0
    BY <1>8 DEF Callback
  <2>2. UNCHANGED <<cache, returned, call>>
    BY <1>8 DEF Callback, objects
  <2> QED
    BY <1>a, <1>b, <2>1, <2>2 DEF Gone
<1>9. ASSUME UNCHANGED <<banks, cache, returned>>, call'.s = call.s \/ call'.s = {}
      PROVE  Gone'
  BY <1>9, <1>a DEF Gone
<1>10. CASE ConnectOpens \/ ConnectFails \/ Reopen
  <2>1. call'.s = call.s \/ call'.s = {}
    BY <1>10, <1>a DEF ConnectOpens, ConnectFails, Reopen, TypeOK, Idle, Doing
  <2> QED
    BY <1>9, <1>10, <2>1 DEF ConnectOpens, ConnectFails, Reopen, audio, objects
<1>11. ASSUME NEW r \in Rates \cup {0}, Configure(r)
       PROVE  Gone'
  <2>1. call'.s = {}
    BY <1>11 DEF Configure, Idle, Doing
  <2> QED
    BY <1>9, <1>11, <2>1 DEF Configure, audio, objects
<1>12. CASE Render \/ Unplug \/ Plug \/ \E i \in Ids : Drop(i)
  BY <1>9, <1>12 DEF Render, Unplug, Plug, Drop, audio, objects, runtime
<1> QED
  BY <1>1, <1>2, <1>3, <1>4, <1>5, <1>6, <1>7, <1>8, <1>10, <1>11, <1>12 DEF Next

\* A callback that starts after the disconnection does not find the controller.
LEMMA LateBlocksStep ==
    ASSUME IInv, Next
    PROVE  LateBlocks'
<1>a. TypeOK /\ Gone /\ LateBlocks /\ CallStage
  BY DEF IInv
<1>1. CASE Stop \/ CloseRest
  <2>1. UNCHANGED <<running, snapshot, late>> /\ returned \subseteq returned'
    BY <1>1 DEF Stop, CloseRest
  <2> QED
    BY <1>a, <2>1 DEF LateBlocks
<1>2. CASE Callback
  <2>1. /\ running' /\ snapshot' = Attached
        /\ UNCHANGED <<returned, late>>
    BY <1>2 DEF Callback
  <2>2. \A i \in returned : i \notin Attached
    BY <1>a DEF Gone, Attached
  <2> QED
    BY <1>a, <2>1, <2>2 DEF LateBlocks
<1>3. CASE Render
  <2>1. /\ snapshot' = {} /\ UNCHANGED returned
        /\ late' = [i \in Ids |-> IF i \in snapshot \cap returned /\ late[i] < 2
                                  THEN late[i] + 1 ELSE late[i]]
    BY <1>3 DEF Render
  <2>2. \A i \in Ids : late'[i] = IF i \in snapshot \cap returned THEN 1 ELSE late[i]
    BY <1>a, <2>1 DEF LateBlocks
  <2> QED
    BY <1>a, <2>1, <2>2 DEF LateBlocks
<1>4. ASSUME UNCHANGED audio
      PROVE  LateBlocks'
  BY <1>4, <1>a DEF LateBlocks, audio
<1> QED
  BY <1>1, <1>2, <1>3, <1>4
     DEF Next, Connect, Disconnect, ConnectOpens, ConnectFails, Attach, Detach, Configure,
         Discard, Reopen, CloseAll, Drop, Unplug, Plug

-----------------------------------------------------------------------------
(* The invariant, and what it says.                                         *)

\* The invariant holds of every reachable state.
LEMMA Inductive == Spec => []IInv
<1>1. Init => IInv
  <2> SUFFICES ASSUME Init PROVE IInv
    OBVIOUS
  <2>1. TypeOK
    <3>1. bankOf \in [1 .. made -> Banks]
      BY DEF Init
    <3>2. plugged \in BOOLEAN /\ running \in BOOLEAN /\ mapped \in BOOLEAN
      BY Zenon DEF Init
    <3>3. late \in [Ids -> 0 .. 2] /\ conn \in [Ids -> Rates \cup {0}]
      BY DEF Init
    <3> QED
      BY <3>1, <3>2, <3>3, AvbAssumption DEF Init, TypeOK, Idle, Doing, Ops, Ids
  <2>2. OwnBank /\ Unmapped /\ Gone
    BY DEF Init, OwnBank, Unmapped, Gone
  <2>3. CallStage
    BY DEF Init, CallStage, Idle, Doing
  <2>4. AttachedCached /\ Connection /\ LateBlocks
    BY DEF Init, AttachedCached, Connection, LateBlocks, Ids
  <2> QED
    BY <2>1, <2>2, <2>3, <2>4 DEF IInv
<1>2. IInv /\ [Next]_vars => IInv'
  <2>1. ASSUME IInv, Next
        PROVE  IInv'
    BY <2>1, TypeStep, OwnBankStep, CallStageStep, UnmappedStep, AttachedCachedStep,
       ConnectionStep, GoneStep, LateBlocksStep DEF IInv
  <2>2. ASSUME IInv, UNCHANGED vars
        PROVE  IInv'
    <3>1. TypeOK'
      BY <2>2 DEF IInv, TypeOK, vars
    <3>2. OwnBank' /\ CallStage' /\ Unmapped' /\ Gone' /\ LateBlocks'
      BY <2>2 DEF IInv, OwnBank, CallStage, Unmapped, Gone, LateBlocks, vars
    <3>3. AttachedCached' /\ Connection'
      BY <2>2 DEF IInv, AttachedCached, Connection, Alive, vars
    <3> QED
      BY <3>1, <3>2, <3>3 DEF IInv
  <2> QED
    BY <2>1, <2>2
<1> QED
  BY <1>1, <1>2, PTL DEF Spec

\* The variables keep their kinds, and a runtime that has left the map leaves
\* no stream open and no bank taken once the call that removed it has returned.
THEOREM TypeCorrect == Spec => []TypeOK
<1>1. IInv => TypeOK
  BY DEF IInv
<1> QED
  BY <1>1, Inductive, PTL

\* Between calls a live controller is connected exactly when it has a bank of
\* the open stream, at the stream's rate: after any sequence of refused opens,
\* other rates, reconfigurations, sibling disconnections and shutdowns.
THEOREM Connectedness == Spec => []ConnectedIsStreaming
<1>1. IInv => ConnectedIsStreaming
  <2> SUFFICES ASSUME IInv, call = Idle, NEW i \in 1 .. made, Alive(i)
               PROVE  conn[i] = IF mapped /\ banks[bankOf[i]] = i THEN stream ELSE 0
    BY DEF ConnectedIsStreaming
  <2>1. conn[i] = IF banks[bankOf[i]] = i THEN stream ELSE 0
    BY DEF IInv, Connection
  <2>2. ~mapped => stream = 0
    BY DEF IInv, Unmapped, Idle, Doing
  <2> QED
    BY <2>1, <2>2
<1> QED
  BY <1>1, Inductive, PTL

\* A disconnected controller renders at most the block of the callback that
\* had already locked it, however often the stream's callback runs afterwards.
THEOREM AtMostOneLateBlock == Spec => []OneLateBlock
<1>1. IInv => OneLateBlock
  BY DEF IInv, LateBlocks, OneLateBlock
<1> QED
  BY <1>1, Inductive, PTL

=============================================================================
