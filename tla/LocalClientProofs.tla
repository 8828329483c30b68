--------------------------- MODULE LocalClientProofs ---------------------------
(***************************************************************************)
(* For any number of callers, clients, blocks and transactions: a stop of  *)
(* the node falls between two blocks, and only a stop halts the engine.    *)
(* Proofs about LocalClient.                                               *)
(***************************************************************************)
EXTENDS LocalClient, TLAPS

EngineCalls == {"none", "SetResponseCallback", "BeginBlock", "DeliverTx", "EndBlock",
                "Commit", "Recheck"}
Closed == {"acct", "stake", "gov", "vm", "meta"}

\* The engine, or the signal handler, is in a handler that has the application's mutex.
EngineInApp ==
    \/ call["engine"] \in {"Commit", "Recheck"} /\ held["engine"] = 3
    \/ call["engine"] \in {"BeginBlock", "DeliverTx", "EndBlock"} /\ held["engine"] = 2
SignalInApp == call["signal"] = "Stop" /\ held["signal"] = 1

Types ==
    /\ call \in [Threads -> EngineCalls \cup CallerCalls \cup {"Stop"}]
    /\ \A t \in Callers : call[t] \in CallerCalls \cup {"none"}
    /\ call["engine"] \in EngineCalls
    /\ call["signal"] \in {"none", "Stop"}
    /\ held \in [Threads -> 0 .. 3]
    /\ \A t \in Threads : call[t] = "none" => held[t] = 0
    /\ at \in [Threads -> 1 .. 6]
    /\ height \in Nat /\ meta \in Nat /\ last \in Nat /\ next \in Nat
    /\ ver \in [StoreNames -> Nat]
    /\ closed \subseteq Closed

\* Where the engine is in its block, and what the heights are there.
EngineFollowsBlock ==
    /\ call["engine"] = "SetResponseCallback" => stage = "idle"
    /\ call["engine"] = "BeginBlock" => stage = "set"
    /\ call["engine"] \in {"DeliverTx", "EndBlock"} => stage = "begun"
    /\ call["engine"] \in {"Commit", "Recheck"} => stage = "ended"
    /\ stage \in {"begun", "ended"} /\ call["engine"] # "Recheck" => next = height + 1
    /\ meta = IF call["engine"] = "Recheck" THEN height + 1 ELSE height
    /\ closed = {} => last = meta

\* How far Commit is, and that it runs on open stores only.
CommitProgress ==
    /\ at["engine"] \in 1 .. 5
    /\ at["engine"] > 1 => call["engine"] = "Commit" /\ held["engine"] = 3 /\ closed = {}
    /\ ver["gov"] = meta + (IF at["engine"] > 1 THEN 1 ELSE 0)
    /\ ver["acct"] = meta + (IF at["engine"] > 2 THEN 1 ELSE 0)
    /\ ver["stake"] = meta + (IF at["engine"] > 3 THEN 1 ELSE 0)
    /\ ver["vm"] = meta + (IF at["engine"] > 4 THEN 1 ELSE 0)

\* Stop closes all stores before it gives the mutex back.
StopProgress ==
    /\ ~(EngineInApp /\ SignalInApp)
    /\ ~SignalInApp => at["signal"] = 1 /\ closed \in {{}, Closed}
    /\ at["signal"] > 1 => "acct" \in closed
    /\ at["signal"] > 2 => "stake" \in closed
    /\ at["signal"] > 3 => "gov" \in closed
    /\ at["signal"] > 4 => "vm" \in closed
    /\ at["signal"] > 5 => "meta" \in closed

\* The inductive invariant.
ClientInv ==
    /\ Types
    /\ EngineFollowsBlock
    /\ CommitProgress
    /\ StopProgress
    /\ OnlyStopHalts

--------------------------------------------------------------------------------
\* Stores and Closing, element by element.
LEMMA StoreFacts ==
    /\ Len(Stores) = 4 /\ DOMAIN Stores = 1 .. 4
    /\ Stores[1] = "gov" /\ Stores[2] = "acct" /\ Stores[3] = "stake" /\ Stores[4] = "vm"
    /\ StoreNames = {"gov", "acct", "stake", "vm"}
    /\ Len(Closing) = 5 /\ DOMAIN Closing = 1 .. 5
    /\ Closing[1] = "acct" /\ Closing[2] = "stake" /\ Closing[3] = "gov"
    /\ Closing[4] = "vm" /\ Closing[5] = "meta"
<1>1. /\ Len(Stores) = 4 /\ DOMAIN Stores = 1 .. 4
      /\ Stores[1] = "gov" /\ Stores[2] = "acct" /\ Stores[3] = "stake" /\ Stores[4] = "vm"
    BY DEF Stores
<1>2. StoreNames = {"gov", "acct", "stake", "vm"}
    BY <1>1 DEF StoreNames
<1>3. /\ Len(Closing) = 5 /\ DOMAIN Closing = 1 .. 5
      /\ Closing[1] = "acct" /\ Closing[2] = "stake" /\ Closing[3] = "gov"
      /\ Closing[4] = "vm" /\ Closing[5] = "meta"
    BY DEF Closing
<1> QED BY <1>1, <1>2, <1>3

\* The locks of the engine's calls and of Stop, the application's mutex being the last.
LEMMA LockFacts ==
    /\ Locks("none") = << >> /\ Locks("Stop") = <<"app">>
    /\ Locks("SetResponseCallback") = <<"client">>
    /\ \A c \in {"BeginBlock", "DeliverTx", "EndBlock"} : Locks(c) = <<"client", "app">>
    /\ \A c \in {"CheckTx", "Commit", "Recheck"} : Locks(c) = <<"mempool", "client", "app">>
    /\ \A c \in {"Query", "Info", "Snapshot"} : Locks(c) = <<"client">>
    BY DEF Locks

\* How many locks each of them takes.
LEMMA LockLengths ==
    /\ Len(Locks("none")) = 0 /\ Len(Locks("Stop")) = 1
    /\ Len(Locks("SetResponseCallback")) = 1
    /\ \A c \in {"BeginBlock", "DeliverTx", "EndBlock"} : Len(Locks(c)) = 2
    /\ \A c \in {"CheckTx", "Commit", "Recheck"} : Len(Locks(c)) = 3
    /\ \A c \in {"Query", "Info", "Snapshot"} : Len(Locks(c)) = 1
    BY LockFacts

\* The engine and the signal handler are threads, and no caller is one of them.
LEMMA ThreadFacts ==
    /\ "engine" \in Threads /\ "signal" \in Threads
    /\ \A t \in Callers : t \in Threads /\ t # "engine" /\ t # "signal"
    BY LocalClientAssumption DEF Threads, LocalClientAssumption

\* The invariant holds of the started node.
LEMMA ClientInit == Init => ClientInv
<1> SUFFICES ASSUME Init PROVE ClientInv
    OBVIOUS
<1> USE StoreFacts, ThreadFacts
<1>1. Types
    BY DEF Init, Types, EngineCalls
<1>2. EngineFollowsBlock /\ CommitProgress /\ OnlyStopHalts
    BY DEF Init, EngineFollowsBlock, CommitProgress, OnlyStopHalts
<1>3. StopProgress
    BY DEF Init, StopProgress, EngineInApp, SignalInApp
<1> QED BY <1>1, <1>2, <1>3 DEF ClientInv

--------------------------------------------------------------------------------
\* A lock is taken (Acquire).  The application's mutex is free only if neither the engine nor
\* the signal handler has it.
LEMMA AcquireKeeps ==
    ASSUME ClientInv, NEW t \in Threads, Acquire(t)
    PROVE  ClientInv'
<1> USE ThreadFacts DEF EngineCalls, CallerCalls
<1>1. /\ held[t] < Len(Locks(call[t])) /\ Free(t, Locks(call[t])[held[t] + 1])
      /\ held' = [held EXCEPT ![t] = @ + 1]
      /\ UNCHANGED <<call, at, height, stage, next, last, meta, ver, closed, failed>>
    BY DEF Acquire, engine, app, process
<1>2. call[t] # "none" /\ held[t] \in 0 .. 2
  <2>1. /\ call[t] \in EngineCalls \cup CallerCalls \cup {"Stop"} /\ held[t] \in 0 .. 3
      BY DEF ClientInv, Types
  <2>2. Len(Locks(call[t])) \in 0 .. 3 /\ (call[t] = "none" => Len(Locks(call[t])) = 0)
      BY <2>1, LockLengths
  <2> QED BY <1>1, <2>1, <2>2
<1>3. Types'
    BY <1>1, <1>2 DEF ClientInv, Types
<1>4. EngineFollowsBlock' /\ OnlyStopHalts'
    BY <1>1 DEF ClientInv, EngineFollowsBlock, OnlyStopHalts
<1>5. CommitProgress'
  <2>1. t = "engine" => ~(at["engine"] > 1)
    <3> SUFFICES ASSUME t = "engine", at["engine"] > 1 PROVE FALSE
        OBVIOUS
    <3>1. call["engine"] = "Commit" /\ held["engine"] = 3
        BY DEF ClientInv, CommitProgress
    <3>2. Len(Locks("Commit")) = 3
        BY LockLengths
    <3> QED BY <1>1, <3>1, <3>2
  <2>2. t # "engine" => held'["engine"] = held["engine"]
      BY <1>1 DEF ClientInv, Types
  <2> QED BY <1>1, <2>1, <2>2 DEF ClientInv, CommitProgress
<1>6. StopProgress'
  <2>1. t = "engine" /\ EngineInApp' => ~SignalInApp
    <3> SUFFICES ASSUME t = "engine", EngineInApp', SignalInApp PROVE FALSE
        OBVIOUS
    <3>1. Has("signal", "app")
        BY LockFacts DEF SignalInApp, Has
    <3>2. Locks(call[t])[held[t] + 1] = "app"
        BY <1>1, <1>2, LockFacts DEF EngineInApp, ClientInv, Types
    <3> QED BY <1>1, <3>1, <3>2 DEF Free, Reads
  <2>2. t = "signal" => ~EngineInApp
    <3> SUFFICES ASSUME t = "signal", EngineInApp PROVE FALSE
        OBVIOUS
    <3>1. Has("engine", "app")
        BY LockFacts DEF EngineInApp, Has
    <3>2. Locks(call[t])[held[t] + 1] = "app"
      <4>1. call["signal"] = "Stop" /\ held["signal"] = 0
          BY <1>1, <1>2, LockLengths DEF ClientInv, Types
      <4> QED BY <4>1, LockFacts
    <3> QED BY <1>1, <3>1, <3>2 DEF Free, Reads
  <2>3. t # "signal" => (SignalInApp' <=> SignalInApp)
      BY <1>1 DEF SignalInApp, ClientInv, Types
  <2>4. t # "engine" => (EngineInApp' <=> EngineInApp)
      BY <1>1 DEF EngineInApp, ClientInv, Types
  <2>5. ~(EngineInApp' /\ SignalInApp')
      BY <2>1, <2>2, <2>3, <2>4 DEF ClientInv, StopProgress
  <2>6. ~SignalInApp' => ~SignalInApp
    <3> SUFFICES ASSUME t = "signal", SignalInApp PROVE FALSE
        BY <2>3
    <3> QED BY <1>1, LockLengths DEF SignalInApp
  <2> QED BY <1>1, <2>5, <2>6 DEF ClientInv, StopProgress
<1> QED BY <1>3, <1>4, <1>5, <1>6 DEF ClientInv

\* The steps of a caller change nothing of the engine and the signal handler; Info
\* puts back the height the application has anyway, unless the metaDB is closed.
LEMMA CallerKeeps ==
    ASSUME ClientInv, NEW t \in Callers, CallerCall(t) \/ CallerHandler(t)
    PROVE  ClientInv'
<1> USE ThreadFacts DEF EngineCalls, CallerCalls
<1>1. /\ UNCHANGED <<height, stage, next, meta, ver, closed>>
      /\ failed' => failed
      /\ \E c \in CallerCalls \cup {"none"}, n \in 0 .. 3, i \in 1 .. 6 :
            /\ call' = [call EXCEPT ![t] = c]
            /\ held' = [held EXCEPT ![t] = n]
            /\ at' = [at EXCEPT ![t] = i]
            /\ c = "none" => n = 0
      /\ last' = last \/ last' = LastBlockContext
  <2>1. CASE CallerCall(t)
    <3>1. PICK c \in CallerCalls : Start(t, c)
        BY <2>1 DEF CallerCall
    <3>2. /\ call' = [call EXCEPT ![t] = c]
          /\ held' = [held EXCEPT ![t] = held[t]]
          /\ at' = [at EXCEPT ![t] = at[t]]
          /\ held[t] \in 0 .. 3 /\ at[t] \in 1 .. 6
        BY <3>1 DEF Start, ClientInv, Types
    <3> QED BY <3>1, <3>2 DEF Start, engine, app, process
  <2>2. CASE CheckTx(t) \/ Query(t) \/ Snapshot(t)
    <3>1. Answer(t) \/ Panic(t)
        BY <2>2 DEF CheckTx, Query, Snapshot
    <3>2. /\ Return(t) /\ UNCHANGED <<height, stage, next, meta, ver, closed, last>>
          /\ failed' => failed
      <4>1. CASE Answer(t)
          BY <4>1 DEF Answer, engine, app, process
      <4>2. CASE Panic(t)
          BY <4>2 DEF Panic, engine, app
      <4> QED BY <3>1, <4>1, <4>2
    <3>3. /\ call' = [call EXCEPT ![t] = "none"]
          /\ held' = [held EXCEPT ![t] = 0]
          /\ at' = [at EXCEPT ![t] = 1]
        BY <3>2 DEF Return
    <3> QED BY <3>2, <3>3
  <2>3. CASE Info(t)
      BY <2>3 DEF Info, Return, engine, process
  <2> QED BY <2>1, <2>2, <2>3 DEF CallerHandler
<1>2. PICK c \in CallerCalls \cup {"none"}, n \in 0 .. 3, i \in 1 .. 6 :
            /\ call' = [call EXCEPT ![t] = c]
            /\ held' = [held EXCEPT ![t] = n]
            /\ at' = [at EXCEPT ![t] = i]
            /\ c = "none" => n = 0
    BY <1>1
<1>3. /\ call'["engine"] = call["engine"] /\ call'["signal"] = call["signal"]
      /\ held'["engine"] = held["engine"] /\ held'["signal"] = held["signal"]
      /\ at'["engine"] = at["engine"] /\ at'["signal"] = at["signal"]
    BY <1>2 DEF ClientInv, Types
<1>4. LastBlockContext \in Nat /\ (closed = {} => LastBlockContext = meta)
    BY DEF LastBlockContext, ClientInv, Types
<1>5. Types'
    BY <1>1, <1>2, <1>3, <1>4 DEF ClientInv, Types
<1>6. EngineFollowsBlock' /\ CommitProgress' /\ OnlyStopHalts'
    BY <1>1, <1>3, <1>4 DEF ClientInv, EngineFollowsBlock, CommitProgress, OnlyStopHalts
<1>7. StopProgress'
    BY <1>1, <1>3 DEF ClientInv, StopProgress, EngineInApp, SignalInApp
<1> QED BY <1>5, <1>6, <1>7 DEF ClientInv

--------------------------------------------------------------------------------
\* The engine leaves a handler, by a return or by a panic, with all stores at the
\* height of the metaDB.
LEMMA EngineReturns ==
    ASSUME ClientInv, Return("engine"), at["engine"] = 1,
           UNCHANGED <<ver, meta, last, closed>>,
           height' = meta, next' \in Nat,
           stage' \in {"begun", "ended"} => next' = height' + 1,
           failed' => closed # {}
    PROVE  ClientInv'
<1> USE ThreadFacts DEF EngineCalls, CallerCalls
<1>1. /\ call' = [call EXCEPT !["engine"] = "none"]
      /\ held' = [held EXCEPT !["engine"] = 0]
      /\ at' = [at EXCEPT !["engine"] = 1]
    BY DEF Return
<1>2. /\ call'["engine"] = "none" /\ call'["signal"] = call["signal"]
      /\ held'["engine"] = 0 /\ held'["signal"] = held["signal"]
      /\ at'["engine"] = 1 /\ at'["signal"] = at["signal"]
    BY <1>1 DEF ClientInv, Types
<1>3. Types'
    BY <1>1 DEF ClientInv, Types
<1>4. EngineFollowsBlock' /\ OnlyStopHalts'
    BY <1>2 DEF ClientInv, EngineFollowsBlock, OnlyStopHalts
<1>5. CommitProgress'
    BY <1>2 DEF ClientInv, CommitProgress
<1>6. StopProgress'
    BY <1>2 DEF ClientInv, StopProgress, EngineInApp, SignalInApp
<1> QED BY <1>3, <1>4, <1>5, <1>6 DEF ClientInv

\* A panic of the consensus goroutine on closed stores.
LEMMA EnginePanics ==
    ASSUME ClientInv, Panic("engine"), closed # {}, call["engine"] # "Recheck"
    PROVE  ClientInv'
<1>1. at["engine"] = 1
    BY DEF ClientInv, CommitProgress
<1>2. /\ Return("engine") /\ UNCHANGED <<ver, meta, last, closed, height, next, stage>>
    BY DEF Panic, engine, app
<1>3. /\ height = meta /\ next \in Nat
      /\ stage \in {"begun", "ended"} => next = height + 1
    BY DEF ClientInv, Types, EngineFollowsBlock
<1> QED BY <1>1, <1>2, <1>3, EngineReturns

\* The engine enters a call (EngineCall).
LEMMA EngineCallKeeps ==
    ASSUME ClientInv, EngineCall
    PROVE  ClientInv'
<1> USE ThreadFacts DEF EngineCalls, CallerCalls
<1>1. PICK c \in EngineCalls \ {"none", "Recheck"} :
        /\ Start("engine", c)
        /\ c = "SetResponseCallback" => stage = "idle"
        /\ c = "BeginBlock" => stage = "set"
        /\ c \in {"DeliverTx", "EndBlock"} => stage = "begun"
        /\ c = "Commit" => stage = "ended"
    BY DEF EngineCall
<1>2. /\ call["engine"] = "none" /\ call' = [call EXCEPT !["engine"] = c]
      /\ UNCHANGED <<held, at, height, stage, next, last, meta, ver, closed, failed>>
    BY <1>1 DEF Start, engine, app, process
<1>3. /\ call'["engine"] = c /\ call'["signal"] = call["signal"]
      /\ held["engine"] = 0
    BY <1>2 DEF ClientInv, Types
<1>4. Types'
    BY <1>2, <1>3 DEF ClientInv, Types
<1>5. EngineFollowsBlock' /\ OnlyStopHalts'
    BY <1>1, <1>2, <1>3 DEF ClientInv, EngineFollowsBlock, OnlyStopHalts
<1>6. CommitProgress'
    BY <1>2, <1>3 DEF ClientInv, CommitProgress
<1>7. StopProgress'
    BY <1>2, <1>3 DEF ClientInv, StopProgress, EngineInApp, SignalInApp
<1> QED BY <1>4, <1>5, <1>6, <1>7 DEF ClientInv

\* The handlers of a block other than Commit.
LEMMA BlockKeeps ==
    ASSUME ClientInv,
           SetResponseCallback \/ BeginBlock \/ DeliverTx \/ EndBlock \/ Recheck
    PROVE  ClientInv'
<1> USE DEF In, engine, app, process
<1>1. at["engine"] = 1
    BY DEF ClientInv, CommitProgress, SetResponseCallback, BeginBlock, DeliverTx,
           EndBlock, Recheck
<1>2. CASE SetResponseCallback
    BY <1>1, <1>2, EngineReturns
       DEF SetResponseCallback, ClientInv, Types, EngineFollowsBlock, OnlyStopHalts
<1>3. CASE BeginBlock
  <2>1. CASE closed # {}
      BY <1>3, <2>1, EnginePanics DEF BeginBlock
  <2>2. CASE closed = {}
    <3>1. height \in Nat /\ height = meta /\ last = meta
        BY <1>3, <2>2 DEF BeginBlock, ClientInv, Types, EngineFollowsBlock
    <3> QED BY <1>1, <1>3, <2>2, <3>1, EngineReturns
            DEF BeginBlock, ClientInv, OnlyStopHalts
  <2> QED BY <2>1, <2>2
<1>4. CASE DeliverTx
  <2>1. CASE closed # {} /\ Panic("engine")
      BY <1>4, <2>1, EnginePanics DEF DeliverTx
  <2>2. CASE Return("engine") /\ UNCHANGED <<height, stage, cb, app, closed, process>>
      BY <1>1, <1>4, <2>2, EngineReturns
         DEF DeliverTx, ClientInv, Types, EngineFollowsBlock, OnlyStopHalts
  <2> QED BY <1>4, <2>1, <2>2 DEF DeliverTx
<1>5. CASE EndBlock
  <2>1. CASE closed # {}
      BY <1>5, <2>1, EnginePanics DEF EndBlock
  <2>2. CASE closed = {}
      BY <1>1, <1>5, <2>2, EngineReturns
         DEF EndBlock, ClientInv, Types, EngineFollowsBlock, OnlyStopHalts
  <2> QED BY <2>1, <2>2
<1>6. CASE Recheck
    BY <1>1, <1>6, EngineReturns
       DEF Recheck, ClientInv, Types, EngineFollowsBlock, OnlyStopHalts
<1> QED BY <1>2, <1>3, <1>4, <1>5, <1>6

\* Commit runs with the application's mutex: Stop has closed all stores or none.
LEMMA CommitAlone ==
    ASSUME ClientInv, In("engine", "Commit")
    PROVE  EngineInApp /\ ~SignalInApp /\ closed \in {{}, Closed}
<1>1. call["engine"] = "Commit" /\ held["engine"] = 3
    BY LockLengths DEF In
<1>2. EngineInApp
    BY <1>1 DEF EngineInApp
<1> QED BY <1>2 DEF ClientInv, StopProgress

\* One store is saved (CommitStore).
LEMMA CommitStoreKeeps ==
    ASSUME ClientInv, CommitStore
    PROVE  ClientInv'
<1> USE ThreadFacts DEF EngineCalls, CallerCalls
<1>1. /\ In("engine", "Commit") /\ call["engine"] = "Commit" /\ held["engine"] = 3
      /\ at["engine"] \in 1 .. 4
    BY StoreFacts, LockLengths DEF CommitStore, In
<1>2. CASE closed = Closed
    BY <1>1, <1>2, StoreFacts, EnginePanics DEF CommitStore, Closed
<1>3. CASE closed = {}
  <2>1. /\ ver' = [ver EXCEPT ![Stores[at["engine"]]] = @ + 1]
        /\ at' = [at EXCEPT !["engine"] = @ + 1]
        /\ UNCHANGED <<call, held, height, stage, next, last, meta, closed, failed>>
      BY <1>3 DEF CommitStore, engine, process
  <2>2. at'["engine"] = at["engine"] + 1 /\ at'["signal"] = at["signal"]
      BY <2>1 DEF ClientInv, Types
  <2>3. Types'
      BY <1>1, <2>1, StoreFacts DEF ClientInv, Types
  <2>4. EngineFollowsBlock' /\ OnlyStopHalts'
      BY <2>1 DEF ClientInv, EngineFollowsBlock, OnlyStopHalts
  <2>5. CommitProgress'
    <3>1. ver \in [{"gov", "acct", "stake", "vm"} -> Nat] /\ meta \in Nat
        BY StoreFacts DEF ClientInv, Types
    <3> QED BY <1>1, <1>3, <2>1, <2>2, <3>1, StoreFacts DEF ClientInv, CommitProgress
  <2>6. StopProgress'
      BY <2>1, <2>2 DEF ClientInv, StopProgress, EngineInApp, SignalInApp
  <2> QED BY <2>3, <2>4, <2>5, <2>6 DEF ClientInv
<1> QED BY <1>1, <1>2, <1>3, CommitAlone

\* The metaDB gets the height the stores have (CommitMeta).
LEMMA CommitMetaKeeps ==
    ASSUME ClientInv, CommitMeta
    PROVE  ClientInv'
<1> USE ThreadFacts DEF EngineCalls, CallerCalls
<1>1. /\ call["engine"] = "Commit" /\ held["engine"] = 3 /\ at["engine"] = 5
    BY StoreFacts, LockLengths DEF CommitMeta, In, ClientInv, CommitProgress
<1>2. /\ meta' = next /\ last' = next /\ next' = 0
      /\ call' = [call EXCEPT !["engine"] = "Recheck"]
      /\ held' = [held EXCEPT !["engine"] = 1]
      /\ at' = [at EXCEPT !["engine"] = 1]
      /\ UNCHANGED <<height, stage, ver, closed, failed>>
    BY DEF CommitMeta, engine, process
<1>3. /\ call'["engine"] = "Recheck" /\ call'["signal"] = call["signal"]
      /\ held'["engine"] = 1 /\ held'["signal"] = held["signal"]
      /\ at'["engine"] = 1 /\ at'["signal"] = at["signal"]
    BY <1>2 DEF ClientInv, Types
<1>4. meta = height /\ next = height + 1 /\ stage = "ended" /\ height \in Nat
    BY <1>1 DEF ClientInv, Types, EngineFollowsBlock
<1>5. Types'
    BY <1>2, <1>4 DEF ClientInv, Types
<1>6. EngineFollowsBlock' /\ OnlyStopHalts'
    BY <1>2, <1>3, <1>4 DEF ClientInv, EngineFollowsBlock, OnlyStopHalts
<1>7. CommitProgress'
    BY <1>1, <1>2, <1>3, <1>4 DEF ClientInv, CommitProgress
<1>8. StopProgress'
    BY <1>2, <1>3 DEF ClientInv, StopProgress, EngineInApp, SignalInApp
<1> QED BY <1>5, <1>6, <1>7, <1>8 DEF ClientInv

--------------------------------------------------------------------------------
\* The signal handler calls Stop (TrapSignal).
LEMMA TrapSignalKeeps ==
    ASSUME ClientInv, TrapSignal
    PROVE  ClientInv'
<1> USE ThreadFacts DEF EngineCalls, CallerCalls
<1>1. /\ call["signal"] = "none" /\ call' = [call EXCEPT !["signal"] = "Stop"]
      /\ UNCHANGED <<held, at, height, stage, next, last, meta, ver, closed, failed>>
    BY DEF TrapSignal, Start, engine, app, process
<1>2. /\ call'["engine"] = call["engine"] /\ call'["signal"] = "Stop"
      /\ held["signal"] = 0
    BY <1>1 DEF ClientInv, Types
<1>3. Types'
    BY <1>1, <1>2 DEF ClientInv, Types
<1>4. EngineFollowsBlock' /\ CommitProgress' /\ OnlyStopHalts'
    BY <1>1, <1>2 DEF ClientInv, EngineFollowsBlock, CommitProgress, OnlyStopHalts
<1>5. StopProgress'
    BY <1>1, <1>2 DEF ClientInv, StopProgress, EngineInApp, SignalInApp
<1> QED BY <1>3, <1>4, <1>5 DEF ClientInv

\* Stop closes one store (CloseStore): the engine is not in the application then,
\* so that it is at the start of Commit or outside of it.
LEMMA CloseStoreKeeps ==
    ASSUME ClientInv, CloseStore
    PROVE  ClientInv'
<1> USE ThreadFacts DEF EngineCalls, CallerCalls
<1>1. call["signal"] = "Stop" /\ held["signal"] = 1 /\ at["signal"] \in 1 .. 5
    BY StoreFacts, LockLengths DEF CloseStore, In
<1>2. /\ closed' = closed \cup {Closing[at["signal"]]}
      /\ at' = [at EXCEPT !["signal"] = @ + 1]
      /\ UNCHANGED <<call, held, height, stage, next, last, meta, ver, failed>>
    BY DEF CloseStore, engine, app, process
<1>3. at'["engine"] = at["engine"] /\ at'["signal"] = at["signal"] + 1
    BY <1>2 DEF ClientInv, Types
<1>4. SignalInApp /\ SignalInApp' /\ ~EngineInApp
    BY <1>1, <1>2 DEF ClientInv, StopProgress, SignalInApp
<1>5. at["engine"] = 1
    BY <1>4 DEF ClientInv, CommitProgress, EngineInApp
<1>6. Types'
  <2>1. closed' \subseteq Closed
    <3>1. Closing[at["signal"]] \in Closed
        BY <1>1, StoreFacts DEF Closed
    <3> QED BY <1>2, <3>1 DEF ClientInv, Types
  <2>2. at' \in [Threads -> 1 .. 6]
      BY <1>1, <1>2 DEF ClientInv, Types
  <2> QED BY <1>2, <2>1, <2>2 DEF ClientInv, Types
<1>7. EngineFollowsBlock' /\ OnlyStopHalts'
    BY <1>2 DEF ClientInv, EngineFollowsBlock, OnlyStopHalts
<1>8. CommitProgress'
    BY <1>2, <1>3, <1>5 DEF ClientInv, CommitProgress
<1>9. StopProgress'
  <2>1. ~EngineInApp'
      BY <1>2, <1>4 DEF EngineInApp
  <2> QED BY <1>1, <1>2, <1>3, <1>4, <2>1, StoreFacts DEF ClientInv, StopProgress
<1> QED BY <1>6, <1>7, <1>8, <1>9 DEF ClientInv

\* Stop returns (OnStop) when it has closed all of them.
LEMMA OnStopKeeps ==
    ASSUME ClientInv, OnStop
    PROVE  ClientInv'
<1> USE ThreadFacts DEF EngineCalls, CallerCalls
<1>1. at["signal"] > 5
    BY StoreFacts DEF OnStop
<1>2. /\ held' = [held EXCEPT !["signal"] = 0]
      /\ at' = [at EXCEPT !["signal"] = 1]
      /\ UNCHANGED <<call, height, stage, next, last, meta, ver, closed, failed>>
    BY DEF OnStop, engine, app
<1>3. /\ held'["engine"] = held["engine"] /\ held'["signal"] = 0
      /\ at'["engine"] = at["engine"] /\ at'["signal"] = 1
    BY <1>2 DEF ClientInv, Types
<1>4. closed = Closed
  <2>1. Closed \subseteq closed
    <3>1. at["signal"] = 6
        BY <1>1 DEF ClientInv, Types
    <3> QED BY <3>1 DEF ClientInv, StopProgress, Closed
  <2> QED BY <2>1 DEF ClientInv, Types
<1>5. Types'
    BY <1>2 DEF ClientInv, Types
<1>6. EngineFollowsBlock' /\ CommitProgress' /\ OnlyStopHalts'
    BY <1>2, <1>3 DEF ClientInv, EngineFollowsBlock, CommitProgress, OnlyStopHalts
<1>7. StopProgress'
    BY <1>2, <1>3, <1>4 DEF ClientInv, StopProgress, SignalInApp
<1> QED BY <1>5, <1>6, <1>7 DEF ClientInv

--------------------------------------------------------------------------------
\* Every step keeps the invariant.
LEMMA ClientStep == ClientInv /\ [Next]_vars => ClientInv'
<1> SUFFICES ASSUME ClientInv, [Next]_vars PROVE ClientInv'
    OBVIOUS
<1>1. ASSUME NEW t \in Threads, Acquire(t) PROVE ClientInv'
    BY <1>1, AcquireKeeps
<1>2. ASSUME NEW t \in Callers, CallerCall(t) \/ CallerHandler(t) PROVE ClientInv'
    BY <1>2, CallerKeeps
<1>3. CASE EngineCall
    BY <1>3, EngineCallKeeps
<1>4. CASE EngineHandler
    BY <1>4, BlockKeeps, CommitStoreKeeps, CommitMetaKeeps DEF EngineHandler
<1>5. CASE TrapSignal
    BY <1>5, TrapSignalKeeps
<1>6. CASE SignalHandler
    BY <1>6, CloseStoreKeeps, OnStopKeeps DEF SignalHandler
<1>7. CASE Exited \/ UNCHANGED vars
  <2>1. UNCHANGED <<call, held, at, height, stage, next, last, meta, ver, closed, failed>>
      BY <1>7 DEF Exited, vars
  <2> QED BY <2>1 DEF ClientInv, Types, EngineFollowsBlock, CommitProgress, StopProgress,
                      OnlyStopHalts, EngineInApp, SignalInApp
<1> QED BY <1>1, <1>2, <1>3, <1>4, <1>5, <1>6, <1>7 DEF Next

\* Closed stores are all at the height of the metaDB: a store is closed only while
\* Commit is not under way.
LEMMA ClientInvStops == ClientInv => StopsBetweenBlocks
<1> SUFFICES ASSUME ClientInv, closed # {}, NEW s \in StoreNames PROVE ver[s] = meta
    BY DEF StopsBetweenBlocks
<1>1. at["engine"] = 1 /\ meta \in Nat
    BY DEF ClientInv, Types, CommitProgress
<1> QED BY <1>1, StoreFacts DEF ClientInv, CommitProgress

\* A node that is stopped by a signal leaves stores that agree, whatever the callers,
\* the number of clients and the length of the chain.
THEOREM NodeStopsBetweenBlocks == Spec => []StopsBetweenBlocks
<1> QED BY ClientInit, ClientStep, ClientInvStops, PTL DEF Spec

\* Only stopping the node makes the consensus goroutine panic, however Info and the
\* calls of a block interleave.
THEOREM NodeOnlyStopHalts == Spec => []OnlyStopHalts
<1>1. ClientInv => OnlyStopHalts
    BY DEF ClientInv
<1> QED BY <1>1, ClientInit, ClientStep, PTL DEF Spec
================================================================================
