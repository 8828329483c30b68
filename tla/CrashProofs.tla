---------------------------- MODULE CrashProofs ----------------------------
(***************************************************************************)
(* What is kept over any number of crashes.                                *)
(*                                                                         *)
(* For any keys, heights, rounds, blocks and times, the signer never signs *)
(* two different messages for one height, round and step: proofs about     *)
(* SFilePV.                                                                *)
(*                                                                         *)
(* No crash makes the node commit a block with a store that misses a block *)
(* or holds one twice, at any height, and seen through the saved block     *)
(* contexts Commit is atomic: proofs about RigoApp.  The items a ledger    *)
(* keeps from earlier reads are never stale, and with them it implements   *)
(* the ledger without: proofs about FinalityLedger, the ledger under each  *)
(* of those stores.                                                        *)
(***************************************************************************)
EXTENDS SFilePV, RigoApp, FinalityLedger, SequenceTheorems, TLAPS

-----------------------------------------------------------------------------
(* The signer. *)

(* A sign state is empty or that of one message signed with k. *)
SignedWith(s, k) == s = EmptyState \/ \E m \in Message : s = Signed(k, m)

(* What the two files and the memory have in common, at each point of the process. *)
FilesAgree ==
    /\ point # "down" => key \in PrivKeys
    /\ point = "saveKey" => keyFile \in {Nil, key}
    /\ point = "keyTruncated" => keyFile = Torn
    /\ point \in {"keyReplaced", "saveState", "ready", "saveSigned", "signed"} => keyFile = key
    /\ stateFile # Nil => keyFile # Nil
    /\ stateFile # Nil /\ keyFile \in PrivKeys => SignedWith(stateFile, keyFile)
    /\ stateFile # Nil /\ point # "down" => SignedWith(stateFile, key)

(* The sign state in memory is the one on disk, except between the two steps of
   saveSigned, where it is ahead. *)
MemoryAgrees ==
    /\ point \in {"saveKey", "keyReplaced", "keyTruncated", "saveState"} =>
          IF stateFile = Nil THEN lss = EmptyState ELSE lss = stateFile
    /\ point \in {"ready", "signed"} => lss = stateFile
    /\ point = "saveSigned" => stateFile # Nil /\ HRSBefore(stateFile, lss)
    /\ point \in {"saveSigned", "signed"} => request \in Message /\ lss = Signed(key, request)

(* The file is at or past every released message, and holds the last one. *)
ReleasedCovered ==
    \A a \in released :
        /\ stateFile # Nil
        /\ \/ HRSBefore(a.msg, stateFile)
           \/ /\ SameHRS(a.msg, stateFile)
              /\ stateFile.signBytes = SignBytes(a.msg)
              /\ stateFile.signature = a.signature

(* The inductive invariant. *)
SignerInv ==
    /\ SignerTypeOK
    /\ FilesAgree
    /\ MemoryAgrees
    /\ ReleasedCovered
    /\ SignatureMatches
    /\ NoDoubleSign

-----------------------------------------------------------------------------
\* The order CheckHRS walks down is transitive.
LEMMA HRSTransitive ==
    ASSUME NEW a, NEW b, NEW c,
           \A x \in {a, b, c} : x.height \in Nat /\ x.round \in Nat /\ x.step \in Nat,
           HRSBefore(a, b), HRSBefore(b, c)
    PROVE  HRSBefore(a, c)
<1>1. /\ a.height \in Nat /\ a.round \in Nat /\ a.step \in Nat
      /\ b.height \in Nat /\ b.round \in Nat /\ b.step \in Nat
      /\ c.height \in Nat /\ c.round \in Nat /\ c.step \in Nat
    OBVIOUS
<1> QED BY <1>1 DEF HRSBefore

\* Sign states and messages have natural heights, rounds and steps.
LEMMA HRSTypes ==
    /\ \A s \in SignState : s.height \in Nat /\ s.round \in Nat /\ s.step \in Nat
    /\ \A m \in Message : m.height \in Nat /\ m.round \in Nat /\ m.step \in Nat \ {0}
<1>1. /\ \A h \in Heights : h \in Nat
      /\ \A r \in Rounds : r \in Nat
    BY SignerAssumption DEF SignerAssumption
<1>2. ASSUME NEW s \in SignState PROVE s.height \in Nat /\ s.round \in Nat /\ s.step \in Nat
  <2>1. s.height \in Heights \union {0} /\ s.round \in Rounds \union {0} /\ s.step \in 0..3
      BY DEF SignState, stepNone, stepPrecommit
  <2> QED BY <1>1, <2>1
<1>3. ASSUME NEW m \in Message
      PROVE  m.height \in Nat /\ m.round \in Nat /\ m.step \in Nat \ {0}
  <2>1. m.height \in Heights /\ m.round \in Rounds /\ m.step \in {1, 2, 3}
      BY DEF Message, stepPropose, stepPrevote, stepPrecommit
  <2> QED BY <1>1, <2>1
<1> QED BY <1>2, <1>3

\* Sign bytes determine the message they encode.
LEMMA SignBytesInjective ==
    ASSUME NEW m \in Message, NEW n \in Message, SignBytes(m) = SignBytes(n)
    PROVE  m = n
BY DEF Message, SignBytes

\* The sign state of a message is a sign state, at the message's height, round and step.
LEMMA SignedType ==
    ASSUME NEW k \in PrivKeys, NEW m \in Message
    PROVE  /\ Signed(k, m) \in SignState
           /\ SignBytes(m) \in Bytes
           /\ Signature(k, SignBytes(m)) \in Signatures
           /\ SameHRS(m, Signed(k, m))
           /\ Signed(k, m).signBytes = SignBytes(m)
           /\ Signed(k, m).signature = Signature(k, SignBytes(m))
BY DEF Signed, SignState, Message, SignBytes, Signature, Bytes, Signatures, SameHRS,
       stepNone, stepPropose, stepPrevote, stepPrecommit

\* The sign state of a new signer (NewSFilePV) has its type.
LEMMA EmptyType == EmptyState \in SignState
BY DEF EmptyState, SignState, stepNone, stepPrecommit

-----------------------------------------------------------------------------
\* Before the first start there are no files and nothing is signed (LoadOrGenSFilePV).
LEMMA SignerStarts == SignerInit => SignerInv
BY EmptyType, SignerAssumption
DEF SignerAssumption, SignerInit, SignerInv, SignerTypeOK, FilesAgree, MemoryAgrees, ReleasedCovered, SignatureMatches,
    NoDoubleSign

\* The messages released so far and a state file that moved on, or stayed.
LEMMA CoveredForward ==
    ASSUME SignerTypeOK, ReleasedCovered, released' = released,
           stateFile' \in SignState,
           stateFile' = stateFile \/ HRSBefore(stateFile, stateFile')
    PROVE  ReleasedCovered'
<1> SUFFICES ASSUME NEW a \in released
             PROVE  /\ stateFile' # Nil
                    /\ \/ HRSBefore(a.msg, stateFile')
                       \/ /\ SameHRS(a.msg, stateFile')
                          /\ stateFile'.signBytes = SignBytes(a.msg)
                          /\ stateFile'.signature = a.signature
    BY DEF ReleasedCovered
<1>1. /\ a.msg \in Message
      /\ stateFile \in SignState
    BY DEF SignerTypeOK, ReleasedCovered
<1>0. stateFile' # Nil
    BY SignerAssumption DEF SignerAssumption
<1>2. CASE stateFile' = stateFile
    BY <1>2 DEF ReleasedCovered
<1>3. CASE HRSBefore(stateFile, stateFile')
  <2>1. CASE HRSBefore(a.msg, stateFile)
    <3>1. HRSBefore(a.msg, stateFile')
        BY <1>1, <1>3, <2>1, HRSTypes, HRSTransitive
    <3> QED BY <1>0, <3>1
  <2>2. CASE SameHRS(a.msg, stateFile)
    <3>1. HRSBefore(a.msg, stateFile')
        BY <1>3, <2>2 DEF HRSBefore, SameHRS
    <3> QED BY <1>0, <3>1
  <2> QED BY <2>1, <2>2 DEF ReleasedCovered
<1> QED BY <1>2, <1>3

\* Releasing the message the state file holds: no other message was released for its HRS.
LEMMA ReleaseOnce ==
    ASSUME SignerTypeOK, ReleasedCovered, SignatureMatches, NoDoubleSign,
           NEW k \in PrivKeys, NEW n \in Message,
           SameHRS(n, stateFile), stateFile # Nil,
           stateFile.signBytes = SignBytes(n),
           stateFile.signature = Signature(k, SignBytes(n)),
           released' = released \union {[msg |-> n, signature |-> Signature(k, SignBytes(n))]}
    PROVE  NoDoubleSign'
<1> DEFINE a == [msg |-> n, signature |-> Signature(k, SignBytes(n))]
<1>1. ASSUME NEW b \in released, SameHRS(b.msg, n)
      PROVE  b = a
  <2>1. b \in [msg : Message, signature : Signatures] /\ stateFile \in SignState
      BY DEF SignerTypeOK
  <2>2. ~HRSBefore(b.msg, stateFile)
      BY <1>1, <2>1, HRSTypes DEF HRSBefore, SameHRS
  <2>3. SignBytes(b.msg) = SignBytes(n) /\ b.signature = Signature(k, SignBytes(n))
      BY <2>2 DEF ReleasedCovered
  <2>4. b.msg = n
      BY <2>1, <2>3, SignBytesInjective
  <2> QED BY <2>1, <2>3, <2>4
<1>2. a.msg = n
    OBVIOUS
<1> HIDE DEF a
<1>3. ASSUME NEW b \in released', NEW c \in released', SameHRS(b.msg, c.msg),
             b.signature.key = c.signature.key
      PROVE  b = c
    BY <1>1, <1>2, <1>3 DEF a, SameHRS, NoDoubleSign
<1> QED BY <1>3 DEF NoDoubleSign

\* Every step of the signer preserves the invariant.
LEMMA SignerStep == SignerInv /\ [SignerNext]_signerVars => SignerInv'
<1> SUFFICES ASSUME SignerInv, [SignerNext]_signerVars
             PROVE  SignerInv'
    OBVIOUS
<1> USE SignerAssumption DEF SignerAssumption
<1>t. SignerTypeOK /\ FilesAgree /\ MemoryAgrees /\ ReleasedCovered /\ SignatureMatches /\ NoDoubleSign
    BY DEF SignerInv
<1>1. CASE LoadSFilePV
  <2>1. SignerTypeOK'
      BY <1>t, <1>1 DEF LoadSFilePV, SignerTypeOK
  <2>2. FilesAgree' /\ MemoryAgrees'
      BY <1>t, <1>1 DEF LoadSFilePV, FilesAgree, MemoryAgrees
  <2> QED BY <1>t, <1>1, <2>1, <2>2
      DEF LoadSFilePV, SignerInv, ReleasedCovered, SignatureMatches, NoDoubleSign
<1>2. CASE GenSFilePV
  <2>1. SignerTypeOK'
      BY <1>t, <1>2, EmptyType DEF GenSFilePV, SignerTypeOK
  <2>2. FilesAgree' /\ MemoryAgrees'
      BY <1>t, <1>2 DEF GenSFilePV, FilesAgree, MemoryAgrees
  <2> QED BY <1>t, <1>2, <2>1, <2>2, Zenon
      DEF GenSFilePV, SignerInv, ReleasedCovered, SignatureMatches, NoDoubleSign
<1>3. CASE ReplaceKeyFile \/ TruncateKeyFile \/ WriteKeyFile
  <2>1. SignerTypeOK'
      BY <1>t, <1>3 DEF ReplaceKeyFile, TruncateKeyFile, WriteKeyFile, SignerTypeOK, FilesAgree
  <2>2. FilesAgree' /\ MemoryAgrees'
      BY <1>t, <1>3
      DEF ReplaceKeyFile, TruncateKeyFile, WriteKeyFile, FilesAgree, MemoryAgrees
  <2> QED BY <1>t, <1>3, <2>1, <2>2, Zenon
      DEF ReplaceKeyFile, TruncateKeyFile, WriteKeyFile, SignerInv, ReleasedCovered,
          SignatureMatches, NoDoubleSign
<1>4. CASE SaveState
  <2>1. SignerTypeOK'
      BY <1>t, <1>4 DEF SaveState, SignerTypeOK
  <2>2. FilesAgree' /\ MemoryAgrees'
      BY <1>t, <1>4 DEF SaveState, SignerTypeOK, FilesAgree, MemoryAgrees, SignedWith
  <2>3. ReleasedCovered'
      BY <1>t, <1>4 DEF SaveState, MemoryAgrees, ReleasedCovered
  <2> QED BY <1>t, <1>4, <2>1, <2>2, <2>3
      DEF SaveState, SignerInv, SignatureMatches, NoDoubleSign
<1>5. ASSUME NEW m \in Message, SignNew(m)
      PROVE  SignerInv'
  <2>1. HRSBefore(lss, Signed(key, m))
    <3>1. lss \in SignState
        BY <1>t, Zenon DEF SignerTypeOK
    <3>2. ~HRSBefore(m, lss) /\ ~SameHRS(m, lss)
        BY <1>5 DEF SignNew, CheckHRS
    <3>3. HRSBefore(lss, m)
        BY ONLY <3>1, <3>2, HRSTypes, m \in Message DEF HRSBefore, SameHRS
    <3> QED BY ONLY <3>3 DEF HRSBefore, Signed
  <2>2. SignerTypeOK'
      BY <1>t, <1>5, SignedType DEF SignNew, SignerTypeOK, FilesAgree
  <2>3. FilesAgree' /\ MemoryAgrees'
      BY <1>t, <1>5, <2>1 DEF SignNew, SignerTypeOK, FilesAgree, MemoryAgrees
  <2> QED BY <1>t, <1>5, <2>2, <2>3, Zenon
      DEF SignNew, SignerInv, ReleasedCovered, SignatureMatches, NoDoubleSign
<1>6. ASSUME NEW m \in Message, SignAgain(m)
      PROVE  SignerInv'
  <2> DEFINE a == [msg |-> [m EXCEPT !.time = lss.signBytes[5]], signature |-> lss.signature]
  <2>1. PICK n \in Message : lss = Signed(key, n)
      BY <1>t, <1>6 DEF SignAgain, FilesAgree, MemoryAgrees, SignerTypeOK, SignedWith, CheckHRS, EmptyState
  <2>2. a = [msg |-> n, signature |-> Signature(key, SignBytes(n))]
    <3>1. [m EXCEPT !.time = lss.signBytes[5]] = n
        BY <1>6, <2>1 DEF SignAgain, OnlyDifferByTimestamp, Signed, SignBytes, Message
    <3> QED BY <2>1, <3>1 DEF Signed
  <2>3. released' = released \union {a}
      BY <1>6 DEF SignAgain, Release
  <2>4. SameHRS(n, lss) /\ stateFile = lss /\ stateFile # Nil /\ key \in PrivKeys
      BY <1>t, <1>6, <2>1, SignedType DEF SignAgain, SignerTypeOK, FilesAgree, MemoryAgrees
  <2>5. lss.signBytes = SignBytes(n) /\ lss.signature = Signature(key, SignBytes(n))
      BY <2>1 DEF Signed
  <2>6. SignerTypeOK'
    <3>1. a \in [msg : Message, signature : Signatures]
        BY <2>2, <2>4, SignedType
    <3> QED BY <1>t, <1>6, <2>3, <3>1 DEF SignAgain, SignerTypeOK
  <2>7. FilesAgree' /\ MemoryAgrees'
      BY <1>t, <1>6 DEF SignAgain, FilesAgree, MemoryAgrees
  <2>8. ReleasedCovered'
      BY <1>t, <1>6, <2>2, <2>3, <2>4, <2>5 DEF SignAgain, ReleasedCovered
  <2>9. SignatureMatches'
      BY <1>t, <2>2, <2>3 DEF SignatureMatches, Signature
  <2>10. NoDoubleSign'
      BY <1>t, <2>2, <2>3, <2>4, <2>5, ReleaseOnce
  <2> QED BY <2>6, <2>7, <2>8, <2>9, <2>10 DEF SignerInv
<1>7. CASE SaveSigned
  <2>1. SignerTypeOK'
      BY <1>t, <1>7 DEF SaveSigned, SignerTypeOK
  <2>2. FilesAgree' /\ MemoryAgrees'
      BY <1>t, <1>7 DEF SaveSigned, SignerTypeOK, FilesAgree, MemoryAgrees, SignedWith
  <2>3. ReleasedCovered'
      BY <1>t, <1>7, CoveredForward DEF SaveSigned, SignerTypeOK, MemoryAgrees
  <2> QED BY <1>t, <1>7, <2>1, <2>2, <2>3
      DEF SaveSigned, SignerInv, SignatureMatches, NoDoubleSign
<1>8. CASE ReturnSigned
  <2> DEFINE a == [msg |-> request, signature |-> Signature(key, SignBytes(request))]
  <2>1. request \in Message /\ lss = Signed(key, request) /\ stateFile = lss
        /\ key \in PrivKeys /\ stateFile # Nil
      BY <1>t, <1>8 DEF ReturnSigned, SignerTypeOK, FilesAgree, MemoryAgrees
  <2>2. /\ SameHRS(request, stateFile)
        /\ stateFile.signBytes = SignBytes(request)
        /\ stateFile.signature = Signature(key, SignBytes(request))
      BY <2>1, SignedType
  <2>3. released' = released \union {a}
      BY <1>8, <2>1, <2>2 DEF ReturnSigned, Release
  <2>4. SignerTypeOK'
    <3>1. a \in [msg : Message, signature : Signatures]
        BY <2>1, SignedType
    <3> QED BY <1>t, <1>8, <2>3, <3>1 DEF ReturnSigned, SignerTypeOK
  <2>5. FilesAgree' /\ MemoryAgrees'
      BY <1>t, <1>8 DEF ReturnSigned, FilesAgree, MemoryAgrees
  <2>6. ReleasedCovered'
      BY <1>t, <1>8, <2>1, <2>2, <2>3 DEF ReturnSigned, ReleasedCovered
  <2>7. SignatureMatches'
      BY <1>t, <2>3 DEF SignatureMatches, Signature
  <2>8. NoDoubleSign'
      BY <1>t, <2>1, <2>2, <2>3, ReleaseOnce
  <2> QED BY <2>4, <2>5, <2>6, <2>7, <2>8 DEF SignerInv
<1>9. CASE SignerCrash
  <2>1. SignerTypeOK'
      BY <1>t, <1>9, EmptyType DEF SignerCrash, SignerTypeOK
  <2>2. FilesAgree' /\ MemoryAgrees'
      BY <1>t, <1>9 DEF SignerCrash, FilesAgree, MemoryAgrees
  <2> QED BY <1>t, <1>9, <2>1, <2>2
      DEF SignerCrash, SignerInv, ReleasedCovered, SignatureMatches, NoDoubleSign
<1>10. CASE UNCHANGED signerVars
  <2>1. SignerTypeOK'
      BY <1>t, <1>10 DEF signerVars, SignerTypeOK
  <2>2. FilesAgree' /\ MemoryAgrees'
      BY <1>t, <1>10 DEF signerVars, FilesAgree, MemoryAgrees
  <2>3. ReleasedCovered'
      BY <1>t, <1>10 DEF signerVars, ReleasedCovered
  <2>4. SignatureMatches' /\ NoDoubleSign'
      BY <1>t, <1>10 DEF signerVars, SignatureMatches, NoDoubleSign
  <2> QED BY <2>1, <2>2, <2>3, <2>4 DEF SignerInv
<1> QED BY <1>1, <1>2, <1>3, <1>4, <1>5, <1>6, <1>7, <1>8, <1>9, <1>10 DEF SignerNext

-----------------------------------------------------------------------------
\* The signer is type correct in every reachable state.
THEOREM SignerTypeCorrect == SignerSpec => []SignerTypeOK
<1>1. SignerInv => SignerTypeOK
    BY DEF SignerInv
<1> QED BY SignerStarts, SignerStep, <1>1, PTL DEF SignerSpec

\* For every set of keys, heights, rounds, blocks and times, and over any number of
\* crashes and restarts, signVote and signProposal never return two different messages
\* for one key and one height, round and step.
THEOREM SignerSafe == SignerSpec => []NoDoubleSign
<1>1. SignerInv => NoDoubleSign
    BY DEF SignerInv
<1> QED BY SignerStarts, SignerStep, <1>1, PTL DEF SignerSpec

\* Every message signVote and signProposal return carries a signature of its own bytes.
THEOREM SignerMatches == SignerSpec => []SignatureMatches
<1>1. SignerInv => SignatureMatches
    BY DEF SignerInv
<1> QED BY SignerStarts, SignerStep, <1>1, PTL DEF SignerSpec

\* CheckHRS never reaches its "no SignBytes" error or its panic on a missing signature.
THEOREM SignerNeverHalfSigned == SignerSpec => []NeverHalfSigned
<1>1. SignerInv => NeverHalfSigned
  <2> SUFFICES ASSUME SignerInv, point = "ready", NEW m \in Message
               PROVE  CheckHRS(lss, m) \notin {"noSignBytes", "panic"}
      BY DEF NeverHalfSigned
  <2>1. SignedWith(lss, key) /\ key \in PrivKeys
      BY SignerAssumption
      DEF SignerAssumption, SignerInv, SignerTypeOK, FilesAgree, MemoryAgrees, EmptyState
  <2>2. CASE lss = EmptyState
      BY <2>2, HRSTypes DEF CheckHRS, SameHRS, EmptyState, stepNone
  <2>3. ASSUME NEW n \in Message, lss = Signed(key, n)
        PROVE  CheckHRS(lss, m) \notin {"noSignBytes", "panic"}
      BY <2>1, <2>3, SignedType, SignerAssumption DEF CheckHRS, SignerAssumption
  <2> QED BY <2>1, <2>2, <2>3 DEF SignedWith
<1> QED BY SignerStarts, SignerStep, <1>1, PTL DEF SignerSpec

\* The sign state on disk never goes back in height, round and step.
THEOREM SignerAdvances == SignerSpec => SignStateAdvances
<1>1. SignerInv /\ [SignerNext]_signerVars =>
        [stateFile # Nil => stateFile' = stateFile \/ HRSBefore(stateFile, stateFile')]_stateFile
  <2> SUFFICES ASSUME SignerInv, SignerNext, stateFile # Nil, stateFile' # stateFile
               PROVE  HRSBefore(stateFile, stateFile')
      BY DEF signerVars
  <2>1. CASE SaveState
      BY <2>1 DEF SaveState, SignerInv, MemoryAgrees
  <2>2. CASE SaveSigned
      BY <2>2 DEF SaveSigned, SignerInv, MemoryAgrees
  <2> QED BY <2>1, <2>2, ZenonT(30)
      DEF SignerNext, LoadSFilePV, GenSFilePV, ReplaceKeyFile, TruncateKeyFile, WriteKeyFile,
          SignNew, SignAgain, ReturnSigned, SignerCrash
<1> QED BY SignerStarts, SignerStep, <1>1, PTL DEF SignerSpec, SignStateAdvances

-----------------------------------------------------------------------------
(* The stores of the application. *)

(* Beyond the saved block context a store holds only the block after it, as many times
   as that block was replayed. *)
StoresHold ==
    \A s \in Stores :
        /\ Len(store[s]) >= blockCtx
        /\ \A i \in 1..Len(store[s]) :
              store[s][i] = IF i <= blockCtx THEN i ELSE blockCtx + 1

(* The EVM's store is the one that cannot be replayed: it holds the next block at most
   once, and while a block is executed not at all. *)
VmHolds ==
    /\ Len(store[8]) <= blockCtx + 1
    /\ pc \in {"begun", "commit"} => Len(store[8]) = blockCtx
    /\ pc \in {"check", "putContext"} => Len(store[8]) = blockCtx + 1

(* What Commit has compared so far. *)
Compared ==
    /\ (pc = "commit" /\ saving > 3) \/ pc \in {"check", "putContext"} =>
          Len(store[1]) = Len(store[3]) /\ Len(store[2]) = Len(store[3])
    /\ (pc = "commit" /\ saving > 7) \/ pc \in {"check", "putContext"} =>
          Len(store[5]) = Len(store[7]) /\ Len(store[6]) = Len(store[7])
    /\ pc = "putContext" => SameVersions
    /\ pc = "putHeight" => Len(store[1]) = blockCtx

(* The block in memory follows the saved one. *)
MemoryFollows ==
    /\ blockCtx = 0 => lastHeight = 0
    /\ pc \in {"genesis", "ready", "begun", "commit", "check", "putContext"} =>
          lastBlock = blockCtx
    /\ pc \in {"begun", "commit", "check", "putContext"} => lastBlock < MaxHeight
    /\ pc = "putHeight" => blockCtx = lastBlock + 1

(* The inductive invariant. *)
AppInv ==
    /\ TypeOK
    /\ StoresHold
    /\ VmHolds
    /\ Compared
    /\ MemoryFollows
    /\ AppliedOnce

-----------------------------------------------------------------------------
\* Before InitChain every store is empty (NewRigoApp).
LEMMA AppStarts == AppInit => AppInv
<1> SUFFICES ASSUME AppInit PROVE AppInv
    OBVIOUS
<1> USE MaxHeightAssumption DEF MaxHeightAssumption, Stores
<1>1. TypeOK
    BY DEF AppInit, TypeOK
<1>2. StoresHold /\ VmHolds /\ Compared /\ MemoryFollows /\ AppliedOnce
    BY DEF AppInit, StoresHold, VmHolds, Compared, MemoryFollows, AppliedOnce
<1> QED BY <1>1, <1>2 DEF AppInv

\* The steps that leave the stores and the metaDB alone.
LEMMA MemorySteps ==
    ASSUME AppInv, AppInfo \/ InitChain \/ AppBeginBlock \/ AppEndBlock \/ CheckVersions \/ Crash
                   \/ UNCHANGED appVars
    PROVE  AppInv'
<1> USE MaxHeightAssumption DEF MaxHeightAssumption
<1>t. TypeOK /\ StoresHold /\ VmHolds /\ Compared /\ MemoryFollows /\ AppliedOnce
    BY DEF AppInv
<1>u. UNCHANGED <<store, blockCtx, lastHeight, finished>>
    BY DEF AppInfo, InitChain, AppBeginBlock, AppEndBlock, CheckVersions, Crash, appVars
<1>1. TypeOK'
  <2>1. 1 \in Stores /\ 0 \in 0..MaxHeight
      BY DEF Stores
  <2>2. saving' \in Stores /\ lastBlock' \in 0..MaxHeight
      BY <1>t, <2>1
      DEF TypeOK, AppInfo, InitChain, AppBeginBlock, AppEndBlock, CheckVersions, Crash, appVars, Down
  <2>3. pc' \in {"down", "genesis", "ready", "begun", "commit", "check", "putContext",
                 "putHeight"}
      BY <1>t DEF TypeOK, AppInfo, InitChain, AppBeginBlock, AppEndBlock, CheckVersions, Crash, appVars, Down
  <2> QED BY <1>t, <1>u, <2>2, <2>3 DEF TypeOK
<1>2. StoresHold' /\ AppliedOnce'
    BY <1>t, <1>u DEF StoresHold, AppliedOnce
<1>3. VmHolds'
    BY <1>t, <1>u DEF TypeOK, VmHolds, MemoryFollows, AppInfo, InitChain, AppBeginBlock, AppEndBlock,
                CheckVersions, Crash, appVars, Down, Version, VmStore
<1>4. Compared'
    BY <1>t, <1>u DEF Compared, AppInfo, InitChain, AppBeginBlock, AppEndBlock,
                CheckVersions, Crash, appVars, Down, SameVersions, Version
<1>5. MemoryFollows'
    BY <1>t, <1>u DEF TypeOK, MemoryFollows, AppInfo, InitChain, AppBeginBlock, AppEndBlock,
                CheckVersions, Crash, appVars, Down
<1> QED BY <1>1, <1>2, <1>3, <1>4, <1>5 DEF AppInv

\* CommitStore appends the block to one store.
LEMMA SaveStoreStep ==
    ASSUME AppInv, SaveStore
    PROVE  AppInv'
<1> USE MaxHeightAssumption DEF MaxHeightAssumption
<1> DEFINE h == blockCtx + 1
<1>t. TypeOK /\ StoresHold /\ VmHolds /\ Compared /\ MemoryFollows /\ AppliedOnce
    BY DEF AppInv
<1>h. /\ lastBlock = blockCtx /\ h \in 1..MaxHeight /\ pc = "commit"
      /\ UNCHANGED <<blockCtx, lastHeight, finished>>
      /\ store' = [store EXCEPT ![saving] = Append(store[saving], h)]
    BY <1>t DEF SaveStore, MemoryFollows, TypeOK
<1>n. saving \in Stores /\ store[saving] \in Seq(1..MaxHeight)
    BY <1>t DEF TypeOK
<1>a. /\ Append(store[saving], h) \in Seq(1..MaxHeight)
      /\ Len(Append(store[saving], h)) = Len(store[saving]) + 1
      /\ \A i \in 1..Len(store[saving]) : Append(store[saving], h)[i] = store[saving][i]
      /\ Append(store[saving], h)[Len(store[saving]) + 1] = h
    BY <1>h, <1>n, AppendProperties
<1>l. \A s \in Stores : Len(store[s]) \in Nat
    BY <1>t, LenProperties DEF TypeOK
<1>s. /\ \A s \in Stores : s # saving => store'[s] = store[s]
      /\ store'[saving] = Append(store[saving], h)
      /\ store' \in [Stores -> Seq(1..MaxHeight)]
    BY <1>t, <1>h, <1>n, <1>a DEF TypeOK
<1> HIDE DEF h
<1>1. TypeOK'
  <2>1. saving' \in Stores
      BY <1>n DEF SaveStore, Down, Stores, VmStore
  <2>2. lastBlock' = 0 \/ lastBlock' = lastBlock
      BY DEF SaveStore, Down
  <2>3. lastBlock' \in 0..MaxHeight
      BY <1>t, <2>2 DEF TypeOK
  <2>4. pc' \in {"down", "commit", "check"}
      BY DEF SaveStore, Down
  <2> QED BY <1>t, <1>h, <1>s, <2>1, <2>3, <2>4 DEF TypeOK
<1>2. StoresHold'
  <2> SUFFICES ASSUME NEW s \in Stores
               PROVE  /\ Len(store'[s]) >= blockCtx
                      /\ \A i \in 1..Len(store'[s]) :
                            store'[s][i] = IF i <= blockCtx THEN i ELSE blockCtx + 1
      BY <1>h DEF StoresHold
  <2>1. CASE s # saving
      BY <1>t, <1>s, <2>1 DEF StoresHold
  <2>2. CASE s = saving
    <3>1. Len(store[saving]) >= blockCtx /\ blockCtx \in Nat
        BY <1>t, <1>n DEF StoresHold, TypeOK
    <3>2. ASSUME NEW i \in 1..(Len(store[saving]) + 1)
          PROVE  Append(store[saving], h)[i] = IF i <= blockCtx THEN i ELSE blockCtx + 1
      <4>1. CASE i \in 1..Len(store[saving])
          BY <1>t, <1>n, <1>a, <4>1 DEF StoresHold
      <4>2. CASE i = Len(store[saving]) + 1
          BY <1>a, <1>l, <1>n, <3>1, <4>2 DEF h
      <4> QED BY <1>l, <1>n, <4>1, <4>2
    <3>3. store'[s] = Append(store[saving], h) /\ Len(store'[s]) = Len(store[saving]) + 1
        BY <1>a, <1>s, <2>2
    <3>4. Len(store'[s]) >= blockCtx
        BY <1>l, <1>n, <3>1, <3>3
    <3> QED BY <3>2, <3>3, <3>4
  <2> QED BY <2>1, <2>2
<1>3. VmHolds'
  <2>1. 8 \in Stores /\ Len(store[8]) = blockCtx /\ blockCtx \in Nat
      BY <1>t, <1>h DEF VmHolds, Stores, TypeOK
  <2>2. CASE saving = 8
    <3>1. Len(store'[8]) = blockCtx + 1 /\ pc' \in {"down", "check"}
        BY <1>a, <1>s, <2>1, <2>2 DEF SaveStore, Down, VmStore
    <3> QED BY <1>h, <2>1, <3>1 DEF VmHolds
  <2>3. CASE saving # 8
    <3>1. Len(store'[8]) = blockCtx /\ pc' \in {"down", "commit"}
        BY <1>s, <2>1, <2>3 DEF SaveStore, Down, VmStore
    <3> QED BY <1>h, <2>1, <3>1 DEF VmHolds
  <2> QED BY <2>2, <2>3
<1>4. Compared'
  <2>1. pc' \in {"down", "commit", "check"}
      BY DEF SaveStore, Down
  <2>2. ASSUME (pc' = "commit" /\ saving' > 3) \/ pc' = "check"
        PROVE  Len(store'[1]) = Len(store'[3]) /\ Len(store'[2]) = Len(store'[3])
    <3>1. CASE saving = 3
        BY <2>2, <3>1 DEF SaveStore, Down, OwnVersionsDiffer, Version, GovStores
    <3>2. CASE saving # 3
      <4>1. saving > 3
          BY <1>n, <2>2, <3>2 DEF SaveStore, Down, Stores, VmStore
      <4>2. Len(store[1]) = Len(store[3]) /\ Len(store[2]) = Len(store[3])
          BY <1>t, <1>h, <4>1 DEF Compared
      <4>3. 1 # saving /\ 2 # saving /\ 1 \in Stores /\ 2 \in Stores /\ 3 \in Stores
          BY <4>1 DEF Stores
      <4>4. store'[1] = store[1] /\ store'[2] = store[2] /\ store'[3] = store[3]
          BY <1>s, <3>2, <4>3
      <4> QED BY <4>2, <4>4
    <3> QED BY <3>1, <3>2
  <2>3. ASSUME (pc' = "commit" /\ saving' > 7) \/ pc' = "check"
        PROVE  Len(store'[5]) = Len(store'[7]) /\ Len(store'[6]) = Len(store'[7])
    <3>1. CASE saving = 7
        BY <2>3, <3>1 DEF SaveStore, Down, OwnVersionsDiffer, Version, StakeStores
    <3>2. CASE saving # 7
      <4>1. saving > 7
          BY <1>n, <2>3, <3>2 DEF SaveStore, Down, Stores, VmStore
      <4>2. Len(store[5]) = Len(store[7]) /\ Len(store[6]) = Len(store[7])
          BY <1>t, <1>h, <4>1 DEF Compared
      <4>3. 5 # saving /\ 6 # saving /\ 5 \in Stores /\ 6 \in Stores /\ 7 \in Stores
          BY <4>1 DEF Stores
      <4>4. store'[5] = store[5] /\ store'[6] = store[6] /\ store'[7] = store[7]
          BY <1>s, <3>2, <4>3
      <4> QED BY <4>2, <4>4
    <3> QED BY <3>1, <3>2
  <2> QED BY <2>1, <2>2, <2>3 DEF Compared
<1>5. MemoryFollows'
    BY <1>t, <1>h DEF MemoryFollows, SaveStore, Down
<1>6. AppliedOnce'
    BY <1>t, <1>h DEF AppliedOnce
<1> QED BY <1>1, <1>2, <1>3, <1>4, <1>5, <1>6 DEF AppInv

\* PutLastBlockContext and PutLastBlockHeight: the checks of Commit leave each store with
\* the next block exactly once.
LEMMA AllSaved ==
    ASSUME AppInv, pc = "putContext"
    PROVE  \A s \in Stores : Len(store[s]) = blockCtx + 1
<1>1. Len(store[8]) = blockCtx + 1
    BY DEF AppInv, VmHolds
<1>2. /\ Len(store[1]) = Len(store[4]) /\ Len(store[4]) = Len(store[5])
      /\ Len(store[5]) = Len(store[8])
    BY DEF AppInv, Compared, SameVersions, Version, AcctStore, VmStore
<1>3. /\ Len(store[1]) = Len(store[3]) /\ Len(store[2]) = Len(store[3])
      /\ Len(store[5]) = Len(store[7]) /\ Len(store[6]) = Len(store[7])
    BY DEF AppInv, Compared
<1>4. /\ Len(store[1]) = blockCtx + 1 /\ Len(store[2]) = blockCtx + 1
      /\ Len(store[3]) = blockCtx + 1 /\ Len(store[4]) = blockCtx + 1
      /\ Len(store[5]) = blockCtx + 1 /\ Len(store[6]) = blockCtx + 1
      /\ Len(store[7]) = blockCtx + 1
    BY <1>1, <1>2, <1>3
<1>5. \A s \in Stores : s = 1 \/ s = 2 \/ s = 3 \/ s = 4 \/ s = 5 \/ s = 6 \/ s = 7 \/ s = 8
    BY DEF Stores
<1> QED BY <1>1, <1>4, <1>5

\* Saving the block context, when all stores hold the block, and then the height (MetaDB).
LEMMA MetaSteps ==
    ASSUME AppInv, PutLastBlockContext \/ PutLastBlockHeight
    PROVE  AppInv'
<1> USE MaxHeightAssumption DEF MaxHeightAssumption
<1>t. TypeOK /\ StoresHold /\ VmHolds /\ Compared /\ MemoryFollows /\ AppliedOnce
    BY DEF AppInv
<1>b. blockCtx \in Nat /\ blockCtx \in 0..MaxHeight /\ lastBlock \in 0..MaxHeight
    BY <1>t DEF TypeOK
<1>1. CASE PutLastBlockContext
  <2>1. /\ blockCtx' = blockCtx + 1 /\ blockCtx' \in 0..MaxHeight /\ lastBlock' = blockCtx
        /\ pc' = "putHeight" /\ store' = store /\ finished' = store /\ saving' = saving
        /\ lastHeight' = lastHeight
      BY <1>t, <1>1, <1>b DEF PutLastBlockContext, MemoryFollows
  <2>2. \A s \in Stores : Len(store[s]) = blockCtx + 1
      BY <1>1, AllSaved DEF PutLastBlockContext
  <2>3. \A s \in Stores : \A i \in 1..(blockCtx + 1) : store[s][i] = i
    <3> SUFFICES ASSUME NEW s \in Stores, NEW i \in 1..(blockCtx + 1)
                 PROVE  store[s][i] = i
        OBVIOUS
    <3>1. store[s][i] = IF i <= blockCtx THEN i ELSE blockCtx + 1
        BY <1>t, <2>2 DEF StoresHold
    <3> QED BY <1>b, <3>1
  <2>4. TypeOK'
      BY <1>t, <1>b, <2>1 DEF TypeOK
  <2>5. StoresHold'
    <3> SUFFICES ASSUME NEW s \in Stores
                 PROVE  /\ Len(store[s]) >= blockCtx + 1
                        /\ \A i \in 1..Len(store[s]) :
                              store[s][i] = IF i <= blockCtx + 1 THEN i ELSE blockCtx + 2
        BY <1>b, <2>1 DEF StoresHold
    <3> QED BY <1>b, <2>2, <2>3
  <2>6. VmHolds' /\ Compared' /\ MemoryFollows'
      BY <1>b, <2>1, <2>2 DEF VmHolds, Compared, MemoryFollows, Stores
  <2>7. AppliedOnce'
      BY <2>1, <2>2, <2>3 DEF AppliedOnce
  <2> QED BY <2>4, <2>5, <2>6, <2>7 DEF AppInv
<1>2. CASE PutLastBlockHeight
  <2>1. /\ lastHeight' = blockCtx /\ lastBlock' = blockCtx /\ pc' = "ready"
        /\ UNCHANGED <<saving, store, blockCtx, finished>>
      BY <1>t, <1>2 DEF PutLastBlockHeight, Compared, MemoryFollows, Version
  <2>2. TypeOK'
      BY <1>t, <1>b, <2>1 DEF TypeOK
  <2>3. StoresHold' /\ AppliedOnce'
      BY <1>t, <2>1 DEF StoresHold, AppliedOnce
  <2>4. VmHolds' /\ Compared' /\ MemoryFollows'
      BY <1>t, <1>b, <2>1 DEF VmHolds, Compared, MemoryFollows
  <2> QED BY <2>2, <2>3, <2>4 DEF AppInv
<1> QED BY <1>1, <1>2

\* No call of the application, and no crash, breaks the invariant.
LEMMA AppStep == AppInv /\ [AppNext]_appVars => AppInv'
BY MemorySteps, SaveStoreStep, MetaSteps DEF AppNext

-----------------------------------------------------------------------------
\* The node's stores are type correct in every reachable state.
THEOREM AppTypeCorrect == AppSpec => []TypeOK
<1>1. AppInv => TypeOK
    BY DEF AppInv
<1> QED BY AppStarts, AppStep, <1>1, PTL DEF AppSpec

\* At any height and after any crashes, a Commit that completes leaves every store with
\* each block exactly once and in order.
THEOREM AppAppliesOnce == AppSpec => []AppliedOnce
<1>1. AppInv => AppliedOnce
    BY DEF AppInv
<1> QED BY AppStarts, AppStep, <1>1, PTL DEF AppSpec

\* Info never reports a block that some store does not hold.
THEOREM AppInfoCovered == AppSpec => []InfoCovered
<1>1. AppInv => InfoCovered
  <2> SUFFICES ASSUME AppInv, NEW s \in Stores
               PROVE  /\ Version(s) >= blockCtx
                      /\ \A i \in 1..blockCtx : store[s][i] = i
      BY DEF InfoCovered
  <2>1. Len(store[s]) \in Nat /\ blockCtx \in Nat /\ Len(store[s]) >= blockCtx
      BY LenProperties DEF AppInv, TypeOK, StoresHold
  <2> QED BY <2>1 DEF AppInv, StoresHold, Version
<1> QED BY AppStarts, AppStep, <1>1, PTL DEF AppSpec

\* Every step is a commit of the abstract application, or leaves its state alone.
LEMMA AppRefinesStep == AppInv /\ [AppNext]_appVars => [Atomic!CommitBlock]_(Atomic!vars)
<1> SUFFICES ASSUME AppInv, [AppNext]_appVars
             PROVE  [Atomic!CommitBlock]_(Atomic!vars)
    OBVIOUS
<1>1. CASE PutLastBlockContext
  <2>1. /\ blockCtx' = blockCtx + 1 /\ finished' = store
        /\ blockCtx \in Nat /\ blockCtx + 1 \in 1..MaxHeight
      BY <1>1, MaxHeightAssumption
      DEF PutLastBlockContext, AppInv, TypeOK, MemoryFollows, MaxHeightAssumption
  <2>2. ASSUME NEW s \in Stores
        PROVE  store[s] = Append(finished[s], blockCtx + 1)
    <3>1. store[s] \in Seq(1..MaxHeight) /\ finished[s] \in Seq(1..MaxHeight)
        BY DEF AppInv, TypeOK
    <3>2. Len(store[s]) = blockCtx + 1 /\ Len(finished[s]) = blockCtx
        BY <1>1, AllSaved DEF PutLastBlockContext, AppInv, AppliedOnce
    <3>3. /\ Append(finished[s], blockCtx + 1) \in Seq(1..MaxHeight)
          /\ Len(Append(finished[s], blockCtx + 1)) = blockCtx + 1
          /\ \A i \in 1..blockCtx : Append(finished[s], blockCtx + 1)[i] = finished[s][i]
          /\ Append(finished[s], blockCtx + 1)[blockCtx + 1] = blockCtx + 1
        BY <2>1, <3>1, <3>2, AppendProperties
    <3>4. ASSUME NEW i \in 1..(blockCtx + 1)
          PROVE  store[s][i] = Append(finished[s], blockCtx + 1)[i]
      <4>1. store[s][i] = IF i <= blockCtx THEN i ELSE blockCtx + 1
          BY <3>2 DEF AppInv, StoresHold
      <4>2. CASE i \in 1..blockCtx
          BY <2>1, <3>3, <4>1, <4>2 DEF AppInv, AppliedOnce
      <4>3. CASE i = blockCtx + 1
          BY <2>1, <3>3, <4>1, <4>3
      <4>4. blockCtx \in Nat
          BY <2>1
      <4>5. i \in 1..blockCtx \/ i = blockCtx + 1
          BY <4>4
      <4> QED BY <4>2, <4>3, <4>5, ZenonT(60)
    <3> QED BY <3>1, <3>2, <3>3, <3>4, SeqEqual, ZenonT(60)
  <2>3. store = [s \in Stores |-> Append(finished[s], blockCtx + 1)]
      BY <2>2 DEF AppInv, TypeOK
  <2> QED BY <2>1, <2>3 DEF Atomic!CommitBlock
<1>2. CASE ~PutLastBlockContext
    BY <1>2
    DEF AppNext, appVars, Atomic!vars, AppInfo, InitChain, AppBeginBlock, AppEndBlock, SaveStore,
        CheckVersions, PutLastBlockHeight, Crash
<1> QED BY <1>1, <1>2

\* The node implements an application that commits all its stores in one step.
THEOREM AppImplements == AppSpec => ImplementsAtomic
<1>1. AppInit => Atomic!Init
    BY DEF AppInit, Atomic!Init
<1> QED BY <1>1, AppStarts, AppStep, AppRefinesStep, PTL
    DEF AppSpec, ImplementsAtomic, Atomic!Spec

-----------------------------------------------------------------------------
(***************************************************************************)
(* The ledger a store is: for any keys and items its caches never go       *)
(* stale, and it implements the ledger without caches.                     *)
(***************************************************************************)
LedgerInv == LedgerTypeOK /\ CacheCoherent

-----------------------------------------------------------------------------
(* What the memItems operators do to one memItems, for a fixed tree. *)

\* setItem, delItem, AfterGet and AfterDel keep a memItems well formed and coherent.
LEMMA MemOps ==
    ASSUME NEW m \in MemItems, tree \in [Keys -> Maybe], Coherent(m), NEW k \in Keys
    PROVE  /\ \A v \in Items : setItem(m, k, v) \in MemItems /\ Coherent(setItem(m, k, v))
           /\ delItem(m, k) \in MemItems /\ Coherent(delItem(m, k))
           /\ AfterGet(m, k) \in MemItems /\ Coherent(AfterGet(m, k))
           /\ AfterDel(m, k) \in MemItems /\ Coherent(AfterDel(m, k))
           /\ delRemovedKey(m, k) \in MemItems /\ Coherent(delRemovedKey(m, k))
           /\ Found(m, k) \in Maybe
<1>1. ASSUME NEW v \in Items
      PROVE  setItem(m, k, v) \in MemItems /\ Coherent(setItem(m, k, v))
    BY LedgerAssumption, ZenonT(60) DEF LedgerAssumption, MemItems, Maybe, Coherent, setItem
<1>2. delItem(m, k) \in MemItems /\ Coherent(delItem(m, k))
    BY ZenonT(60) DEF MemItems, Maybe, Coherent, delItem
<1>3. AfterGet(m, k) \in MemItems /\ Coherent(AfterGet(m, k))
    BY DEF MemItems, Maybe, Coherent, AfterGet
<1>4. AfterDel(m, k) \in MemItems /\ Coherent(AfterDel(m, k))
    BY ZenonT(60) DEF MemItems, Maybe, Coherent, AfterDel, delItem
<1>5. delRemovedKey(m, k) \in MemItems /\ Coherent(delRemovedKey(m, k))
    BY DEF MemItems, Maybe, Coherent, delRemovedKey
<1>6. Found(m, k) \in Maybe
    BY DEF MemItems, Maybe, Found
<1> QED BY <1>1, <1>2, <1>3, <1>4, <1>5, <1>6

\* New items are empty (newMemItems).
LEMMA NewMemItems ==
    /\ newMemItems \in MemItems
    /\ Coherent(newMemItems)
BY DEF newMemItems, MemItems, Maybe, Coherent

\* A new ledger has an empty tree and nothing cached (NewFinalityLedger).
LEMMA LedgerStarts == LedgerInit => LedgerInv
BY NewMemItems DEF LedgerInit, LedgerInv, LedgerTypeOK, CacheCoherent, Maybe, NewTree

\* A step that leaves the tree alone and gives each memItems a coherent value.
LEMMA SameTree ==
    ASSUME LedgerInv, UNCHANGED tree, reply' \in Maybe,
           NEW c \in MemItems, Coherent(c), cachedItems' = c,
           NEW f \in MemItems, Coherent(f), finalityItems' = f
    PROVE  LedgerInv'
<1>1. LedgerTypeOK'
    BY DEF LedgerInv, LedgerTypeOK
<1>2. Coherent(cachedItems)' /\ Coherent(finalityItems)'
    BY DEF Coherent
<1> QED BY <1>1, <1>2 DEF LedgerInv, CacheCoherent

\* Commit saves the items set in the block and keeps only coherent ones.
LEMMA LedgerCommit ==
    ASSUME LedgerInv, Commit
    PROVE  LedgerInv'
<1>1. tree' \in [Keys -> Maybe] /\ finalityItems \in MemItems /\ Coherent(finalityItems)
    BY DEF LedgerInv, LedgerTypeOK, CacheCoherent, Commit, MemItems, Maybe
<1>2. LedgerTypeOK'
    BY <1>1, NewMemItems DEF Commit, LedgerTypeOK, refresh, MemItems, Maybe
<1>3. Coherent(finalityItems)'
    BY <1>1 DEF Commit, Coherent, refresh, MemItems
<1>4. Coherent(cachedItems)'
    BY DEF Commit, Coherent, newMemItems
<1> QED BY <1>2, <1>3, <1>4 DEF LedgerInv, CacheCoherent

\* No call of the ledger, and no restart, breaks its invariant.
LEMMA LedgerStep == LedgerInv /\ [LedgerNext]_ledgerVars => LedgerInv'
<1> SUFFICES ASSUME LedgerInv, [LedgerNext]_ledgerVars
             PROVE  LedgerInv'
    OBVIOUS
<1>t. /\ tree \in [Keys -> Maybe] /\ reply \in Maybe /\ None \in Maybe /\ Items \subseteq Maybe
      /\ cachedItems \in MemItems /\ Coherent(cachedItems)
      /\ finalityItems \in MemItems /\ Coherent(finalityItems)
    BY DEF LedgerInv, LedgerTypeOK, CacheCoherent, Maybe
<1>1. ASSUME NEW k \in Keys, NEW v \in Items, Set(k, v)
      PROVE  LedgerInv'
    BY <1>t, <1>1, MemOps, SameTree DEF Set
<1>2. ASSUME NEW k \in Keys, NEW v \in Items, SetFinality(k, v)
      PROVE  LedgerInv'
    BY <1>t, <1>2, MemOps, SameTree DEF SetFinality
<1>3. ASSUME NEW k \in Keys, CancelSet(k) \/ Get(k) \/ Del(k) \/ CancelDel(k)
      PROVE  LedgerInv'
    BY <1>t, <1>3, MemOps, SameTree DEF CancelSet, Get, Del, CancelDel
<1>4. ASSUME NEW k \in Keys,
             CancelSetFinality(k) \/ GetFinality(k) \/ CancelDelFinality(k)
      PROVE  LedgerInv'
    BY <1>t, <1>4, MemOps, SameTree
    DEF CancelSetFinality, GetFinality, CancelDelFinality
<1>5. ASSUME NEW k \in Keys, DelFinality(k)
      PROVE  LedgerInv'
    BY <1>t, <1>5, MemOps, SameTree DEF DelFinality
<1>6. ASSUME NEW k \in Keys, Read(k)
      PROVE  LedgerInv'
    BY <1>t, <1>6, SameTree DEF Read
<1>7. CASE Commit
    BY <1>7, LedgerCommit
<1>8. CASE Restart
    BY <1>t, <1>8, NewMemItems, SameTree DEF Restart
<1>9. CASE UNCHANGED ledgerVars
    BY <1>t, <1>9, SameTree DEF ledgerVars
<1> QED BY <1>1, <1>2, <1>3, <1>4, <1>5, <1>6, <1>7, <1>8, <1>9 DEF LedgerNext

-----------------------------------------------------------------------------
\* The ledger is type correct in every reachable state.
THEOREM LedgerTypeCorrect == LedgerSpec => []LedgerTypeOK
<1>1. LedgerInv => LedgerTypeOK
    BY DEF LedgerInv
<1> QED BY LedgerStarts, LedgerStep, <1>1, PTL DEF LedgerSpec

\* For any keys and items, the items FinalityLedger and SimpleLedger keep in memory are
\* never stale, over any sequence of calls, commits and restarts.
THEOREM LedgerCoherent == LedgerSpec => []CacheCoherent
<1>1. LedgerInv => CacheCoherent
    BY DEF LedgerInv
<1> QED BY LedgerStarts, LedgerStep, <1>1, PTL DEF LedgerSpec

-----------------------------------------------------------------------------
(* The overlay a memItems stands for. *)
Overlay(m) == [upd |-> m.upd, rem |-> m.rem]

\* On a coherent memItems, the operators with caches do what those of the abstract ledger do.
LEMMA MemOpsAbstract ==
    ASSUME NEW m \in MemItems, tree \in [Keys -> Maybe], Coherent(m), NEW k \in Keys
    PROVE  /\ Found(m, k) = Abstract!Lookup(Overlay(m), tree, k)
           /\ \A v \in Items : Overlay(setItem(m, k, v)) = Abstract!Put(Overlay(m), k, v)
           /\ Overlay(delItem(m, k)) = Abstract!CancelPut(Overlay(m), k)
           /\ Overlay(AfterGet(m, k)) = Overlay(m)
           /\ Overlay(AfterDel(m, k)) = Abstract!Remove(Overlay(m), tree, k)
           /\ Overlay(delRemovedKey(m, k)) = Abstract!CancelRemove(Overlay(m), k)
<1>1. Found(m, k) = Abstract!Lookup(Overlay(m), tree, k)
    BY DEF Found, Abstract!Lookup, Overlay, Coherent, MemItems
<1>2. ASSUME NEW v \in Items
      PROVE  Overlay(setItem(m, k, v)) = Abstract!Put(Overlay(m), k, v)
    BY DEF Overlay, setItem, Abstract!Put, MemItems
<1>3. Overlay(delItem(m, k)) = Abstract!CancelPut(Overlay(m), k)
    BY DEF Overlay, delItem, Abstract!CancelPut, MemItems
<1>4. Overlay(AfterGet(m, k)) = Overlay(m)
    BY DEF Overlay, AfterGet, MemItems
<1>5. Overlay(AfterDel(m, k)) = Abstract!Remove(Overlay(m), tree, k)
    BY <1>1, ZenonT(60) DEF Overlay, AfterDel, delItem, Abstract!Remove, MemItems
<1>6. Overlay(delRemovedKey(m, k)) = Abstract!CancelRemove(Overlay(m), k)
    BY DEF Overlay, delRemovedKey, Abstract!CancelRemove, MemItems
<1> QED BY <1>1, <1>2, <1>3, <1>4, <1>5, <1>6

\* Every step of the ledger is a step of the abstract ledger or a stutter.
LEMMA LedgerRefinesStep == LedgerInv /\ [LedgerNext]_ledgerVars => [Abstract!Next]_(Abstract!vars)
<1> SUFFICES ASSUME LedgerInv, [LedgerNext]_ledgerVars
             PROVE  [Abstract!Next]_(Abstract!vars)
    OBVIOUS
<1>t. /\ tree \in [Keys -> Maybe]
      /\ cachedItems \in MemItems /\ Coherent(cachedItems)
      /\ finalityItems \in MemItems /\ Coherent(finalityItems)
    BY DEF LedgerInv, LedgerTypeOK, CacheCoherent
<1>m. \A k \in Keys : Abstract!CheckCall(k) \/ Abstract!BlockCall(k) \/ Abstract!ReadCall(k)
                      => Abstract!Next
    BY DEF Abstract!Next
<1>1. ASSUME NEW k \in Keys, NEW v \in Items, Set(k, v)
      PROVE  Abstract!CheckCall(k)
    BY <1>t, <1>1, MemOpsAbstract, ZenonT(60) DEF Set, Abstract!CheckCall, Overlay
<1>2. ASSUME NEW k \in Keys, NEW v \in Items, SetFinality(k, v)
      PROVE  Abstract!BlockCall(k)
    BY <1>t, <1>2, MemOpsAbstract, ZenonT(60) DEF SetFinality, Abstract!BlockCall, Overlay
<1>3. ASSUME NEW k \in Keys, CancelSet(k) \/ Get(k) \/ Del(k) \/ CancelDel(k)
      PROVE  Abstract!CheckCall(k)
  <2>1. CASE CancelSet(k)
      BY <1>t, <2>1, MemOpsAbstract, ZenonT(60) DEF CancelSet, Abstract!CheckCall, Overlay
  <2>2. CASE Get(k)
      BY <1>t, <2>2, MemOpsAbstract, ZenonT(60) DEF Get, Abstract!CheckCall, Overlay
  <2>3. CASE Del(k)
      BY <1>t, <2>3, MemOpsAbstract, ZenonT(60) DEF Del, Abstract!CheckCall, Overlay
  <2>4. CASE CancelDel(k)
      BY <1>t, <2>4, MemOpsAbstract, ZenonT(60) DEF CancelDel, Abstract!CheckCall, Overlay
  <2> QED BY <1>3, <2>1, <2>2, <2>3, <2>4
<1>4. ASSUME NEW k \in Keys, CancelSetFinality(k) \/ GetFinality(k) \/ CancelDelFinality(k)
      PROVE  Abstract!BlockCall(k)
  <2>1. CASE CancelSetFinality(k)
      BY <1>t, <2>1, MemOpsAbstract, ZenonT(60) DEF CancelSetFinality, Abstract!BlockCall, Overlay
  <2>2. CASE GetFinality(k)
      BY <1>t, <2>2, MemOpsAbstract, ZenonT(60) DEF GetFinality, Abstract!BlockCall, Overlay
  <2>3. CASE CancelDelFinality(k)
      BY <1>t, <2>3, MemOpsAbstract, ZenonT(60) DEF CancelDelFinality, Abstract!BlockCall, Overlay
  <2> QED BY <1>4, <2>1, <2>2, <2>3
<1>5. ASSUME NEW k \in Keys, DelFinality(k)
      PROVE  Abstract!BlockCall(k)
    BY <1>t, <1>5, MemOpsAbstract, ZenonT(60) DEF DelFinality, Abstract!BlockCall, Overlay
<1>6. ASSUME NEW k \in Keys, Read(k)
      PROVE  Abstract!ReadCall(k)
    BY <1>6 DEF Read, Abstract!ReadCall
<1>7. ASSUME Commit
      PROVE  Abstract!Next
  <2>1. /\ Overlay(newMemItems) = Abstract!NewOverlay(Keys)
        /\ Overlay(refresh(finalityItems)) = Abstract!NewOverlay(Keys)
      BY DEF Overlay, newMemItems, refresh, Abstract!NewOverlay
  <2>2. tree' = Abstract!Merge(Overlay(finalityItems), tree)
      BY <1>t, <1>7 DEF Commit, Abstract!Merge, Overlay, MemItems
  <2>3. Abstract!NewBlock(Abstract!Merge(Overlay(finalityItems), tree))
      BY <1>7, <2>1, <2>2 DEF Commit, Abstract!NewBlock, Overlay
  <2> QED BY <2>3 DEF Abstract!Next, Overlay
<1>8. ASSUME Restart
      PROVE  Abstract!Next
  <2>1. Overlay(newMemItems) = Abstract!NewOverlay(Keys)
      BY DEF Overlay, newMemItems, Abstract!NewOverlay
  <2>2. Abstract!NewBlock(tree)
      BY <1>8, <2>1 DEF Restart, Abstract!NewBlock, Overlay
  <2> QED BY <2>2 DEF Abstract!Next
<1>9. ASSUME UNCHANGED ledgerVars
      PROVE  UNCHANGED Abstract!vars
    BY <1>9 DEF ledgerVars, Abstract!vars
<1> QED BY <1>m, <1>1, <1>2, <1>3, <1>4, <1>5, <1>6, <1>7, <1>8, <1>9 DEF LedgerNext

\* For any keys and items, the ledger with its caches implements the abstract ledger that
\* the controllers' models use.
THEOREM LedgerImplements == LedgerSpec => ImplementsLedger
<1>1. LedgerInit => Abstract!Init
  <2>1. Overlay(newMemItems) = Abstract!NewOverlay(Keys)
      BY DEF Overlay, newMemItems, Abstract!NewOverlay
  <2>2. NewTree(Keys) = Abstract!NewTree(Keys)
      BY DEF NewTree, Abstract!NewTree
  <2> QED BY <2>1, <2>2 DEF LedgerInit, Abstract!Init, Overlay
<1> QED BY <1>1, LedgerStarts, LedgerStep, LedgerRefinesStep, PTL
    DEF LedgerSpec, ImplementsLedger, Abstract!Spec

=============================================================================
