------------------------------ MODULE RigoApp ------------------------------
(***************************************************************************)
(* The life of a node's stores (node/app.go): Info and InitChain at start, *)
(* BeginBlock, EndBlock, and a Commit that saves eight stores and then the *)
(* block context, one after the other.  The process may crash between any  *)
(* two of these writes; on restart Info tells the consensus engine the     *)
(* height of the saved block context and the engine replays from there.    *)
(*                                                                         *)
(* A store is represented by the blocks whose effects it holds, in order;  *)
(* its version is their number.                                            *)
(***************************************************************************)
EXTENDS Naturals, Sequences

CONSTANT MaxHeight      \* the engine stops asking for blocks at this height

ASSUME MaxHeightAssumption == MaxHeight \in Nat

(* The stores in the order Commit saves them. *)
GovStores == 1..3       \* paramsLedger, proposalLedger, frozenLedger
AcctStore == 4          \* acctLedger
StakeStores == 5..7     \* delegateeLedger, frozenLedger, rewardLedger
VmStore == 8            \* the EVM's trie with its metadb
Stores == 1..8

VARIABLES
    pc,         \* "down", "genesis", "ready", "begun", "commit", "check", "putContext", "putHeight"
    saving,     \* the store Commit saves next
    lastBlock,  \* lastBlockCtx.Height() in memory
    store,      \* on disk: store[s] is the sequence of blocks store s holds
    blockCtx,   \* on disk: the height of metaDB's block context, 0 for none
    lastHeight, \* on disk: metaDB's last block height
    finished    \* the stores as they were when a block context was last saved

appVars == <<pc, saving, lastBlock, store, blockCtx, lastHeight, finished>>

Version(s) == Len(store[s])

AppInit ==
    /\ pc = "down" /\ saving = 1 /\ lastBlock = 0
    /\ store = [s \in Stores |-> << >>]
    /\ blockCtx = 0 /\ lastHeight = 0
    /\ finished = [s \in Stores |-> << >>]

\* The process ends: a crash, or a panic.
Down == pc' = "down" /\ saving' = 1 /\ lastBlock' = 0

\* NewRigoApp and Info.  With no block context Info falls back to LastBlockHeight; the
\* engine calls InitChain when it is told height 0.
AppInfo ==
    /\ pc = "down"
    /\ lastBlock' = IF blockCtx = 0 THEN lastHeight ELSE blockCtx
    /\ pc' = IF lastBlock' = 0 THEN "genesis" ELSE "ready"
    /\ UNCHANGED <<saving, store, blockCtx, lastHeight, finished>>

\* InitChain: the ledgers are filled in memory, to be saved with block 1.
InitChain ==
    /\ pc = "genesis"
    /\ pc' = "ready"
    /\ UNCHANGED <<saving, lastBlock, store, blockCtx, lastHeight, finished>>

(* Mutant: the EVM controller does not compare the block with its last height. *)
BeginBlockUnchecked ==
    /\ pc = "ready"
    /\ lastBlock < MaxHeight
    /\ pc' = "begun"
    /\ UNCHANGED <<saving, lastBlock, store, blockCtx, lastHeight, finished>>

\* BeginBlock of block lastBlock + 1, the one the engine sends.  EVMCtrler.BeginBlock
\* refuses a block that does not follow the last one its store holds, and the app panics.
AppBeginBlock ==
    /\ pc = "ready"
    /\ lastBlock < MaxHeight
    /\ IF Version(VmStore) + 1 = lastBlock + 1
       THEN pc' = "begun" /\ UNCHANGED <<saving, lastBlock>>
       ELSE Down
    /\ UNCHANGED <<store, blockCtx, lastHeight, finished>>

(* Mutant: the block context is saved before the stores. *)
EndBlockSavesContext ==
    /\ pc = "begun"
    /\ pc' = "commit" /\ saving' = 1
    /\ blockCtx' = lastBlock + 1
    /\ UNCHANGED <<lastBlock, store, lastHeight, finished>>

\* DeliverTx and EndBlock: only memory changes.
AppEndBlock ==
    /\ pc = "begun"
    /\ pc' = "commit" /\ saving' = 1
    /\ UNCHANGED <<lastBlock, store, blockCtx, lastHeight, finished>>

(* The versions one controller compares once its stores are saved: GovCtrler.Commit and
   StakeCtrler.Commit return an error when they differ, and the app panics. *)
OwnVersionsDiffer(s) ==
    \/ s = 3 /\ \E t \in GovStores : Version(t)' # Version(3)'
    \/ s = 7 /\ \E t \in StakeStores : Version(t)' # Version(7)'

\* One store saves a new version with the effects of the block.
SaveStore ==
    /\ pc = "commit"
    /\ store' = [store EXCEPT ![saving] = Append(@, lastBlock + 1)]
    /\ IF OwnVersionsDiffer(saving) THEN Down
       ELSE /\ saving' = IF saving = VmStore THEN 1 ELSE saving + 1
            /\ pc' = IF saving = VmStore THEN "check" ELSE "commit"
            /\ UNCHANGED lastBlock
    /\ UNCHANGED <<blockCtx, lastHeight, finished>>

(* ver0 = ver1 = ver2 = ver3 *)
SameVersions ==
    /\ Version(1) = Version(AcctStore)
    /\ Version(AcctStore) = Version(5)
    /\ Version(5) = Version(VmStore)

(* Mutant: the versions are not compared. *)
CheckVersionsSkipped ==
    /\ pc = "check"
    /\ pc' = "putContext"
    /\ UNCHANGED <<saving, lastBlock, store, blockCtx, lastHeight, finished>>

\* Commit panics unless the four controllers report one version.
CheckVersions ==
    /\ pc = "check"
    /\ IF SameVersions
       THEN pc' = "putContext" /\ UNCHANGED <<saving, lastBlock>>
       ELSE Down
    /\ UNCHANGED <<store, blockCtx, lastHeight, finished>>

\* From here on Info reports the block.
PutLastBlockContext ==
    /\ pc = "putContext"
    /\ blockCtx' = lastBlock + 1
    /\ finished' = store
    /\ pc' = "putHeight"
    /\ UNCHANGED <<saving, lastBlock, store, lastHeight>>

\* PutLastBlockHeight(ver0), and the block context becomes the last one.
PutLastBlockHeight ==
    /\ pc = "putHeight"
    /\ lastHeight' = Version(1)
    /\ lastBlock' = lastBlock + 1
    /\ pc' = "ready"
    /\ UNCHANGED <<saving, store, blockCtx, finished>>

\* The process stops between any two of the steps above.
Crash ==
    /\ pc # "down"
    /\ Down
    /\ UNCHANGED <<store, blockCtx, lastHeight, finished>>

AppNext ==
    \/ AppInfo \/ InitChain \/ AppBeginBlock \/ AppEndBlock
    \/ SaveStore \/ CheckVersions \/ PutLastBlockContext \/ PutLastBlockHeight
    \/ Crash

AppSpec == AppInit /\ [][AppNext]_appVars

-----------------------------------------------------------------------------
\* Every variable has its type.
TypeOK ==
    /\ pc \in {"down", "genesis", "ready", "begun", "commit", "check", "putContext", "putHeight"}
    /\ saving \in Stores
    /\ lastBlock \in 0..MaxHeight
    /\ store \in [Stores -> Seq(1..MaxHeight)]
    /\ blockCtx \in 0..MaxHeight
    /\ lastHeight \in 0..MaxHeight
    /\ finished \in [Stores -> Seq(1..MaxHeight)]

\* Whenever a block context is saved, every store holds each block up to it exactly once
\* and in order, whatever crashes and replays happened before: a store that was saved by
\* a Commit the crash cut short, and saves the block again, never gets past the checks.
AppliedOnce ==
    \A s \in Stores :
        /\ Len(finished[s]) = blockCtx
        /\ \A i \in 1..blockCtx : finished[s][i] = i

\* No crash makes a store lose or rewrite a block the block context covers: Info never
\* reports a block some store does not hold.
InfoCovered ==
    \A s \in Stores :
        /\ Version(s) >= blockCtx
        /\ \A i \in 1..blockCtx : store[s][i] = i

Atomic == INSTANCE AtomicApp WITH height <- blockCtx, contents <- finished

\* Seen from the saved block contexts, Commit is one atomic step of all the stores.
ImplementsAtomic == Atomic!Spec
=============================================================================
