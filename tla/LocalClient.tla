------------------------------ MODULE LocalClient ------------------------------
(***************************************************************************)
(* The in-process ABCI clients of node/client.go and the locks under which *)
(* the application runs.                                                   *)
(*                                                                         *)
(* Four clients (consensus, mempool, query, snapshot) share one mutex, and *)
(* RigoApp has a mutex of its own, which Info and Query do not take.  The  *)
(* engine drives the blocks; the RPC server and the peers' reactors call   *)
(* CheckTx, Query, Info and the snapshot methods at any time; the signal   *)
(* handler of cmd/commands/run_node.go stops the application once for each *)
(* client, without the clients' mutex, and ends the process.               *)
(*                                                                         *)
(* A thread is inside at most one call.  A call takes its locks in the     *)
(* order of Locks, runs its handler and gives all of them back; handlers   *)
(* that save or close several stores do so one store at a time.            *)
(***************************************************************************)
EXTENDS Naturals, Sequences

CONSTANTS Callers,    \* goroutines of the RPC server and of the reactors
          Clients,    \* number of ABCI clients of the node
          MaxHeight,  \* bound: the last block the engine executes
          MaxTxs      \* bound: transactions in a block

ASSUME LocalClientAssumption ==
    /\ Clients \in Nat \ {0}
    /\ MaxHeight \in Nat
    /\ MaxTxs \in Nat
    /\ "engine" \notin Callers
    /\ "signal" \notin Callers

VARIABLES call,    \* the call each thread is in, or "none"
          held,    \* how many of the call's locks the thread has
          at,      \* the next store of a handler that walks over the stores
          height,  \* the height of the engine's own state
          stage,   \* where the engine is in the block after that height
          txs,     \* transactions of the block answered through the callback
          cb,      \* the block whose callback the consensus client holds
          ver,     \* the saved version of each store
          meta,    \* the height in the application's metaDB
          last,    \* lastBlockCtx.Height()
          next,    \* nextBlockCtx.Height(), 0 for nil
          closed,  \* what RigoApp.Stop has closed
          stops,   \* clients whose OnStop has returned
          failed,  \* the consensus goroutine ended by a panic
          exited   \* os.Exit

vars == <<call, held, at, height, stage, txs, cb, ver, meta, last, next, closed,
          stops, failed, exited>>
engine == <<height, stage, txs, cb>>
app == <<ver, meta, last, next>>
process == <<stops, failed, exited>>

Threads == Callers \cup {"engine", "signal"}
Stores == <<"gov", "acct", "stake", "vm">>
StoreNames == {Stores[i] : i \in DOMAIN Stores}
Closing == <<"acct", "stake", "gov", "vm", "meta">>
CallerCalls == {"CheckTx", "Query", "Info", "Snapshot"}

--------------------------------------------------------------------------------
\* A bug: RigoApp.Stop does not take the application's mutex.
LocksNotForStop(c) ==
    CASE c \in {"CheckTx", "Commit", "Recheck"} -> <<"mempool", "client", "app">>
      [] c \in {"BeginBlock", "DeliverTx", "EndBlock"} -> <<"client", "app">>
      [] c \in {"Stop", "none"} -> << >>
      [] OTHER -> <<"client">>

\* The locks of a call, in the order it takes them.  The engine holds the
\* mempool's lock around Commit and the recheck that follows it; the methods of
\* the client take the shared mutex; the handlers of RigoApp, except Info, Query
\* and the inherited ones, take its own; Stop is called without the clients'.
Locks(c) ==
    CASE c \in {"CheckTx", "Commit", "Recheck"} -> <<"mempool", "client", "app">>
      [] c \in {"BeginBlock", "DeliverTx", "EndBlock"} -> <<"client", "app">>
      [] c = "Stop" -> <<"app">>
      [] c = "none" -> << >>
      [] OTHER -> <<"client">>

Has(t, l) == \E i \in 1..held[t] : Locks(call[t])[i] = l

\* The mempool's lock is a sync.RWMutex that CheckTx takes for reading.
Reads(t, l) == l = "mempool" /\ call[t] = "CheckTx"

\* A lock is free for t if no other thread has it, except that readers share it
\* and let a writer that waits go first.
Free(t, l) ==
    /\ \A u \in Threads \ {t} : Has(u, l) => Reads(t, l) /\ Reads(u, l)
    /\ Reads(t, l) => call["engine"] # "Commit"

\* sync.Mutex.Lock and RWMutex.Lock/RLock return.
Acquire(t) ==
    /\ ~exited
    /\ held[t] < Len(Locks(call[t]))
    /\ Free(t, Locks(call[t])[held[t] + 1])
    /\ held' = [held EXCEPT ![t] = @ + 1]
    /\ UNCHANGED <<call, at, engine, app, closed, process>>

\* Thread t is in call c with all of its locks.
In(t, c) == ~exited /\ call[t] = c /\ held[t] = Len(Locks(c))

\* The deferred unlocks, whether the handler returns or panics.
Return(t) ==
    /\ call' = [call EXCEPT ![t] = "none"]
    /\ held' = [held EXCEPT ![t] = 0]
    /\ at' = [at EXCEPT ![t] = 1]

\* A bug: the mutexes are not unlocked when the handler panics.
PanicHoldingLocks(t) ==
    /\ at' = [at EXCEPT ![t] = 0]
    /\ UNCHANGED <<call, held, engine, app, closed, process>>

\* A panic in a handler unwinds through the deferred unlocks.  The RPC server and
\* the reactors recover from it; the consensus goroutine ends.
Panic(t) ==
    /\ Return(t)
    /\ failed' = (failed \/ t = "engine")
    /\ UNCHANGED <<engine, app, closed, stops, exited>>

--------------------------------------------------------------------------------
(* The calls the RPC server and the reactors make. *)

Start(t, c) ==
    /\ ~exited
    /\ call[t] = "none"
    /\ call' = [call EXCEPT ![t] = c]
    /\ UNCHANGED <<held, at, engine, app, closed, process>>

CallerCall(t) == \E c \in CallerCalls : Start(t, c)

\* Answer a call that changes nothing.
Answer(t) == Return(t) /\ UNCHANGED <<engine, app, closed, process>>

\* CheckTx reads the accounts, unless the transaction does not decode.
CheckTx(t) ==
    /\ In(t, "CheckTx")
    /\ Answer(t) \/ (closed # {} /\ Panic(t))

\* MetaDB.LastBlockContext: a closed database has no value for any key.
LastBlockContext == IF "meta" \in closed THEN 0 ELSE meta

\* Info replaces lastBlockCtx by the stored one.
Info(t) ==
    /\ In(t, "Info")
    /\ last' = LastBlockContext
    /\ Return(t)
    /\ UNCHANGED <<engine, ver, meta, next, closed, process>>

\* The stores behind each path of RigoApp.Query.  The reward ledger is not among
\* the ledgers Stop closes, and an unknown path is answered with an error.
QueryStores == [
    account |-> {"acct"}, stakes |-> {"stake"}, delegatee |-> {"stake"},
    reward |-> {}, proposal |-> {"gov"}, gov_params |-> {"gov"},
    vm_call |-> {"vm", "acct"}, unknown |-> {}]

\* Query does not take the application's mutex: a store may be closed meanwhile.
\* The answer is then an error, and a panic once the ledger is nil.
Query(t) ==
    /\ In(t, "Query")
    /\ \E path \in DOMAIN QueryStores :
          Answer(t) \/ (QueryStores[path] \cap closed # {} /\ Panic(t))

\* The snapshot methods are those of BaseApplication: they answer nothing.
Snapshot(t) == In(t, "Snapshot") /\ Answer(t)

--------------------------------------------------------------------------------
(* The blocks.  The engine makes the calls of a block one after the other. *)

EngineCall ==
    /\ ~failed
    /\ \/ stage = "idle" /\ height < MaxHeight /\ Start("engine", "SetResponseCallback")
       \/ stage = "set" /\ Start("engine", "BeginBlock")
       \/ stage = "begun" /\ txs < MaxTxs /\ Start("engine", "DeliverTx")
       \/ stage = "begun" /\ Start("engine", "EndBlock")
       \/ stage = "ended" /\ Start("engine", "Commit")

SetResponseCallback ==
    /\ In("engine", "SetResponseCallback")
    /\ cb' = height + 1
    /\ stage' = "set"
    /\ Return("engine")
    /\ UNCHANGED <<height, txs, app, closed, process>>

\* The height is compared before the application's mutex is taken: nothing that
\* holds only that mutex, a stop, changes either side.  With a nil delegatee ledger
\* StakeCtrler.BeginBlock panics.
BeginBlock ==
    /\ In("engine", "BeginBlock")
    /\ IF height + 1 # last + 1 \/ closed # {}
       THEN Panic("engine")
       ELSE /\ next' = height + 1
            /\ stage' = "begun"
            /\ Return("engine")
            /\ UNCHANGED <<height, txs, cb, ver, meta, last, closed, process>>

\* A transaction that does not decode is answered without reading a ledger.
DeliverTx ==
    /\ In("engine", "DeliverTx")
    /\ \/ /\ txs' = txs + 1
          /\ Return("engine")
          /\ UNCHANGED <<height, stage, cb, app, closed, process>>
       \/ closed # {} /\ Panic("engine")

EndBlock ==
    /\ In("engine", "EndBlock")
    /\ IF closed # {}
       THEN Panic("engine")
       ELSE /\ stage' = "ended"
            /\ Return("engine")
            /\ UNCHANGED <<height, txs, cb, app, closed, process>>

\* One controller of Commit saves its store; a closed store is nil.
CommitStore ==
    /\ In("engine", "Commit")
    /\ at["engine"] \in DOMAIN Stores
    /\ LET s == Stores[at["engine"]]
       IN  IF s \in closed
           THEN Panic("engine")
           ELSE /\ ver' = [ver EXCEPT ![s] = @ + 1]
                /\ at' = [at EXCEPT !["engine"] = @ + 1]
                /\ UNCHANGED <<call, held, engine, meta, last, next, closed, process>>

\* A bug: the context of the block before is stored.
CommitMetaStale ==
    /\ In("engine", "Commit")
    /\ at["engine"] > Len(Stores)
    /\ meta' = last
    /\ last' = next
    /\ next' = 0
    /\ call' = [call EXCEPT !["engine"] = "Recheck"]
    /\ held' = [held EXCEPT !["engine"] = 1]
    /\ at' = [at EXCEPT !["engine"] = 1]
    /\ UNCHANGED <<engine, ver, closed, process>>

\* The end of Commit.  The engine keeps the mempool's lock for the recheck.
CommitMeta ==
    /\ In("engine", "Commit")
    /\ at["engine"] > Len(Stores)
    /\ meta' = next
    /\ last' = next
    /\ next' = 0
    /\ call' = [call EXCEPT !["engine"] = "Recheck"]
    /\ held' = [held EXCEPT !["engine"] = 1]
    /\ at' = [at EXCEPT !["engine"] = 1]
    /\ UNCHANGED <<engine, ver, closed, process>>

\* RigoApp.CheckTx does nothing for a recheck; the engine then saves its state.
Recheck ==
    /\ In("engine", "Recheck")
    /\ height' = height + 1
    /\ stage' = "idle"
    /\ txs' = 0
    /\ Return("engine")
    /\ UNCHANGED <<cb, app, closed, process>>

--------------------------------------------------------------------------------
(* The signal handler. *)

TrapSignal == Start("signal", "Stop")

\* RigoApp.Stop closes one store; closing it again does nothing.
CloseStore ==
    /\ In("signal", "Stop")
    /\ at["signal"] \in DOMAIN Closing
    /\ closed' = closed \cup {Closing[at["signal"]]}
    /\ at' = [at EXCEPT !["signal"] = @ + 1]
    /\ UNCHANGED <<call, held, engine, app, process>>

\* Stop returns.  The service manager stops the next client; after the last one
\* the node stops and the process exits.
OnStop ==
    /\ In("signal", "Stop")
    /\ at["signal"] > Len(Closing)
    /\ stops' = stops + 1
    /\ exited' = (stops' = Clients)
    /\ held' = [held EXCEPT !["signal"] = 0]
    /\ at' = [at EXCEPT !["signal"] = 1]
    /\ UNCHANGED <<call, engine, app, closed, failed>>

Exited == exited /\ UNCHANGED vars

--------------------------------------------------------------------------------
Init ==
    /\ call = [t \in Threads |-> "none"]
    /\ held = [t \in Threads |-> 0]
    /\ at = [t \in Threads |-> 1]
    /\ height = 0 /\ stage = "idle" /\ txs = 0 /\ cb = 0
    /\ ver = [s \in StoreNames |-> 0]
    /\ meta = 0 /\ last = 0 /\ next = 0
    /\ closed = {} /\ stops = 0
    /\ failed = FALSE /\ exited = FALSE

CallerHandler(t) == CheckTx(t) \/ Info(t) \/ Query(t) \/ Snapshot(t)
EngineHandler ==
    \/ SetResponseCallback \/ BeginBlock \/ DeliverTx \/ EndBlock
    \/ CommitStore \/ CommitMeta \/ Recheck
SignalHandler == CloseStore \/ OnStop

Next ==
    \/ \E t \in Threads : Acquire(t)
    \/ \E t \in Callers : CallerCall(t) \/ CallerHandler(t)
    \/ EngineCall \/ EngineHandler
    \/ TrapSignal \/ SignalHandler
    \/ Exited

\* A handler that runs goes on to its end, and a goroutine blocked on a mutex that
\* is free again and again gets it: Go's mutexes serve a waiter after one
\* millisecond in first-in first-out order.  Nobody is obliged to make a call.
Fairness ==
    /\ \A t \in Threads : SF_vars(Acquire(t))
    /\ \A t \in Callers : WF_vars(CallerHandler(t))
    /\ WF_vars(EngineHandler)
    /\ WF_vars(SignalHandler)

Spec == Init /\ [][Next]_vars /\ Fairness

--------------------------------------------------------------------------------
\* A node that is stopped by a signal leaves stores that agree: RigoApp.Stop
\* (node/app.go) never closes the stores between two saves of Commit, and nothing
\* is saved once one of them is closed.
StopsBetweenBlocks == closed # {} => \A s \in StoreNames : ver[s] = meta

\* Only stopping the node makes the consensus goroutine panic: no call of Info,
\* which overwrites lastBlockCtx while a block is under way, makes BeginBlock
\* meet another height than the one it expects.
OnlyStopHalts == failed => closed # {}

\* Every call into the application ends, whoever else is calling, whatever
\* panics, and also while the node is being stopped; and a signal ends the process.
CallsReturn ==
    \A t \in Threads : call[t] # "none" ~> (call[t] = "none" \/ exited)
================================================================================
