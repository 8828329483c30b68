------------------------------ MODULE SFilePV ------------------------------
(***************************************************************************)
(* The validator's file signer (types/crypto/sfile_pv.go): the key file,   *)
(* the last-sign-state file, the copy of both in memory, and the messages  *)
(* whose signature has left the signer.  The process may crash between any *)
(* two writes; a restart only sees what reached the two files.             *)
(***************************************************************************)
EXTENDS Naturals

CONSTANTS
    PrivKeys,   \* private keys GenPrivKey can draw
    Heights,    \* heights consensus asks signatures for
    Rounds,     \* rounds consensus asks signatures for
    Blocks,     \* what a proposal or vote is for (the nil vote included)
    Times,      \* timestamps consensus puts in a message
    Nil,        \* a nil slice, or a file that does not exist
    Torn        \* a key file that was truncated and not rewritten

stepNone == 0
stepPropose == 1
stepPrevote == 2
stepPrecommit == 3

\* What consensus hands over: a proposal (stepPropose) or a vote.
Message == [height : Heights, round : Rounds,
            step : {stepPropose, stepPrevote, stepPrecommit},
            block : Blocks, time : Times]

\* ProposalSignBytes / VoteSignBytes: an injective encoding of the message.
SignBytes(m) == <<m.step, m.height, m.round, m.block, m.time>>

\* PrivKey.Sign: a signature is good for one key and one string of bytes.
Signature(k, bytes) == [key |-> k, bytes |-> bytes]

\* The SFilePVLastSignState of NewSFilePV.
EmptyState == [height |-> 0, round |-> 0, step |-> stepNone,
               signBytes |-> Nil, signature |-> Nil]

Bytes == {stepPropose, stepPrevote, stepPrecommit} \X Heights \X Rounds \X Blocks \X Times

Signatures == [key : PrivKeys, bytes : Bytes]

SignState == [height : Heights \union {0}, round : Rounds \union {0}, step : stepNone..stepPrecommit,
              signBytes : Bytes \union {Nil}, signature : Signatures \union {Nil}]

(* Nil and Torn are none of the values they stand beside. *)
ASSUME SignerAssumption ==
    /\ Heights \subseteq Nat
    /\ Rounds \subseteq Nat
    /\ Nil \notin PrivKeys \union {Torn} \union Message \union Bytes \union Signatures \union SignState
    /\ Torn \notin PrivKeys

VARIABLES
    point,      \* where the process is: "down", in start-up, "ready", or inside saveSigned
    key,        \* pv.Key in memory
    lss,        \* pv.LastSignState in memory
    request,    \* the message being signed
    keyFile,    \* Nil, Torn, or the key it holds
    stateFile,  \* Nil or the last sign state it holds
    usedKeys,   \* keys drawn so far: GenPrivKey never draws one twice
    released    \* messages returned to consensus with their signature

signerVars == <<point, key, lss, request, keyFile, stateFile, usedKeys, released>>

-----------------------------------------------------------------------------
(* The order on (height, round, step) that CheckHRS walks down. *)
HRSBefore(a, b) ==
    \/ a.height < b.height
    \/ a.height = b.height /\ a.round < b.round
    \/ a.height = b.height /\ a.round = b.round /\ a.step < b.step

SameHRS(a, b) ==
    a.height = b.height /\ a.round = b.round /\ a.step = b.step

(* Mutant: the round is not compared. *)
CheckHRSWithoutRound(l, m) ==
    IF \/ m.height < l.height
       \/ m.height = l.height /\ m.step < l.step THEN "regression"
    ELSE IF ~SameHRS(m, l) THEN "new"
    ELSE IF l.signBytes = Nil THEN "noSignBytes"
    ELSE IF l.signature = Nil THEN "panic"
    ELSE "same"

(* What CheckHRS answers for message m. *)
CheckHRS(l, m) ==
    IF HRSBefore(m, l) THEN "regression"
    ELSE IF ~SameHRS(m, l) THEN "new"
    ELSE IF l.signBytes = Nil THEN "noSignBytes"
    ELSE IF l.signature = Nil THEN "panic"
    ELSE "same"

(* checkVotesOnlyDifferByTimestamp, checkProposalsOnlyDifferByTimestamp:
   all fields but the fifth, the timestamp, are equal. *)
OnlyDifferByTimestamp(last, new) ==
    \A i \in 1..4 : last[i] = new[i]

-----------------------------------------------------------------------------
SignerInit ==
    /\ point = "down" /\ key = Nil /\ lss = EmptyState /\ request = Nil
    /\ keyFile = Nil /\ stateFile = Nil
    /\ usedKeys = {} /\ released = {}

\* LoadOrGenSFilePV, the key file exists: both files are read.  A missing state
\* file, or a key file that cannot be decoded, ends the process (tmos.Exit).
LoadSFilePV ==
    /\ point = "down"
    /\ keyFile \in PrivKeys /\ stateFile # Nil
    /\ key' = keyFile /\ lss' = stateFile
    /\ point' = "saveKey"
    /\ UNCHANGED <<request, keyFile, stateFile, usedKeys, released>>

\* LoadOrGenSFilePV, no key file: a fresh key with an empty sign state.
GenSFilePV ==
    /\ point = "down"
    /\ keyFile = Nil
    /\ \E k \in PrivKeys \ usedKeys :
          /\ key' = k
          /\ usedKeys' = usedKeys \union {k}
    /\ lss' = EmptyState
    /\ point' = "saveKey"
    /\ UNCHANGED <<request, keyFile, stateFile, released>>

\* SFilePVKey.SaveWith through FileIO.Write: the file is replaced atomically, ...
ReplaceKeyFile ==
    /\ point = "saveKey"
    /\ keyFile' = key
    /\ point' = "keyReplaced"
    /\ UNCHANGED <<key, lss, request, stateFile, usedKeys, released>>

\* ... then opened again with O_TRUNC, ...
TruncateKeyFile ==
    /\ point = "keyReplaced"
    /\ keyFile' = Torn
    /\ point' = "keyTruncated"
    /\ UNCHANGED <<key, lss, request, stateFile, usedKeys, released>>

\* ... and written a second time.
WriteKeyFile ==
    /\ point = "keyTruncated"
    /\ keyFile' = key
    /\ point' = "saveState"
    /\ UNCHANGED <<key, lss, request, stateFile, usedKeys, released>>

\* pv.LastSignState.Save() at the end of SFilePV.SaveWith (one atomic rename).
SaveState ==
    /\ point = "saveState"
    /\ stateFile' = lss
    /\ point' = "ready"
    /\ UNCHANGED <<key, lss, request, keyFile, usedKeys, released>>

\* The message leaves the signer with the signature it carries.
Release(m, sig) == released' = released \union {[msg |-> m, signature |-> sig]}

(* Mutant: the step is stored already advanced past the one that was signed. *)
SignedNextStep(k, m) ==
    [height |-> m.height, round |-> m.round, step |-> m.step + 1,
     signBytes |-> SignBytes(m), signature |-> Signature(k, SignBytes(m))]

(* Mutant: the sign bytes are stored without the signature. *)
SignedNoSignature(k, m) ==
    [height |-> m.height, round |-> m.round, step |-> m.step,
     signBytes |-> SignBytes(m), signature |-> Nil]

(* The sign state saveSigned stores for message m signed with key k. *)
Signed(k, m) ==
    [height |-> m.height, round |-> m.round, step |-> m.step,
     signBytes |-> SignBytes(m), signature |-> Signature(k, SignBytes(m))]

(* Mutant: the signature is returned before the sign state is saved. *)
SignNewBeforeSave(m) ==
    /\ point = "ready"
    /\ CheckHRS(lss, m) = "new"
    /\ lss' = Signed(key, m)
    /\ request' = m
    /\ point' = "saveSigned"
    /\ Release(m, Signature(key, SignBytes(m)))
    /\ UNCHANGED <<key, keyFile, stateFile, usedKeys>>

\* signVote, signProposal for a new HRS, up to the write of the state file: the message
\* is signed and the sign state is updated in memory.
SignNew(m) ==
    /\ point = "ready"
    /\ CheckHRS(lss, m) = "new"
    /\ lss' = Signed(key, m)
    /\ request' = m
    /\ point' = "saveSigned"
    /\ UNCHANGED <<key, keyFile, stateFile, usedKeys, released>>

(* Mutant: the timestamp of the reused signature is not put into the message. *)
SignAgainKeepsTime(m) ==
    /\ point = "ready"
    /\ CheckHRS(lss, m) = "same"
    /\ OnlyDifferByTimestamp(lss.signBytes, SignBytes(m))
    /\ Release(m, lss.signature)
    /\ UNCHANGED <<point, key, lss, request, keyFile, stateFile, usedKeys>>

\* signVote, signProposal for the last HRS and the same content, timestamp aside: the
\* caller gets the last timestamp and signature.  Every other message is refused with
\* an error and changes nothing.
SignAgain(m) ==
    /\ point = "ready"
    /\ CheckHRS(lss, m) = "same"
    /\ OnlyDifferByTimestamp(lss.signBytes, SignBytes(m))
    /\ Release([m EXCEPT !.time = lss.signBytes[5]], lss.signature)
    /\ UNCHANGED <<point, key, lss, request, keyFile, stateFile, usedKeys>>

\* saveSigned: the new sign state reaches its file.
SaveSigned ==
    /\ point = "saveSigned"
    /\ stateFile' = lss
    /\ point' = "signed"
    /\ UNCHANGED <<key, lss, request, keyFile, usedKeys, released>>

\* signVote, signProposal after saveSigned: the caller gets the signature.
ReturnSigned ==
    /\ point = "signed"
    /\ Release(request, lss.signature)
    /\ point' = "ready" /\ request' = Nil
    /\ UNCHANGED <<key, lss, keyFile, stateFile, usedKeys>>

\* The process stops, between any two of the steps above, or because Save failed
\* and panicked.  Memory is lost.
SignerCrash ==
    /\ point # "down"
    /\ point' = "down" /\ key' = Nil /\ lss' = EmptyState /\ request' = Nil
    /\ UNCHANGED <<keyFile, stateFile, usedKeys, released>>

SignerNext ==
    \/ LoadSFilePV
    \/ GenSFilePV
    \/ ReplaceKeyFile
    \/ TruncateKeyFile
    \/ WriteKeyFile
    \/ SaveState
    \/ \E m \in Message : SignNew(m)
    \/ \E m \in Message : SignAgain(m)
    \/ SaveSigned
    \/ ReturnSigned
    \/ SignerCrash

SignerSpec == SignerInit /\ [][SignerNext]_signerVars

-----------------------------------------------------------------------------
\* Every variable has its type.
SignerTypeOK ==
    /\ point \in {"down", "saveKey", "keyReplaced", "keyTruncated", "saveState",
               "ready", "saveSigned", "signed"}
    /\ key \in PrivKeys \union {Nil}
    /\ lss \in SignState
    /\ request \in Message \union {Nil}
    /\ keyFile \in PrivKeys \union {Nil, Torn}
    /\ stateFile \in SignState \union {Nil}
    /\ usedKeys \subseteq PrivKeys
    /\ released \subseteq [msg : Message, signature : Signatures]

\* Over any number of crashes and restarts, all messages signVote and signProposal
\* return for one key and one (height, round, step) are the same message, the
\* timestamp included: consensus can never be shown two of them that conflict.
NoDoubleSign ==
    \A a, b \in released :
        a.signature.key = b.signature.key /\ SameHRS(a.msg, b.msg) => a = b

\* A returned message carries a signature of exactly the bytes it encodes to, also when
\* signVote or signProposal reuses the last signature for a message with a later time.
SignatureMatches ==
    \A a \in released : a.signature.bytes = SignBytes(a.msg)

\* CheckHRS never meets a sign state at the asked HRS with no SignBytes, or with
\* SignBytes and no Signature: neither its last error nor its panic is reachable.
NeverHalfSigned ==
    point = "ready" =>
        \A m \in Message : CheckHRS(lss, m) \notin {"noSignBytes", "panic"}

\* The sign state on disk only moves forward in (height, round, step), restarts included.
SignStateAdvances ==
    [][stateFile # Nil =>
         stateFile' = stateFile \/ HRSBefore(stateFile, stateFile')]_stateFile
=============================================================================
