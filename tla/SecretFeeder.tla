----------------------------- MODULE SecretFeeder ------------------------------
(***************************************************************************)
(* How a validator gets at its private key: the commands that write the    *)
(* key file (cmd/commands/init.go, reset.go, wallet_key.go), the start of  *)
(* a node that asks the secret feeder for the file's passphrase            *)
(* (cmd/commands/run_node.go, sfeeder/client), the feeder itself           *)
(* (sfeeder/server) and the command that gives it the passphrase           *)
(* (sfeeder/cmds).                                                         *)
(*                                                                         *)
(* All of them are processes that may be killed between two steps.  A      *)
(* process rewrites the key file in the three steps of libs/file_io.go:    *)
(* replace it atomically, truncate it, write it again.  The feeder keeps   *)
(* one session key for each node id, without a lock; a request it has      *)
(* started goes on when the client is gone.                                *)
(***************************************************************************)
EXTENDS WalletKey, Naturals, FiniteSets

CONSTANTS Nodes,        \* processes that start the node
          Keys,         \* private keys GenPrivKey can draw
          Passes,       \* passphrases of the key file
          FeederPasses, \* passphrases typed for the feeder
          FeederPass,   \* the one the feeder was started with
          Torn,         \* a file that is truncated and not written yet
          Absent,       \* no entry in the map, unlike the nil entry of a used key
          MaxStarts,    \* bound: starts of the node
          MaxOperations \* bound: commands on the key file or the secret, and
                        \* restarts of the feeder

ASSUME FeederAssumption ==
    /\ FeederPass \in FeederPasses
    /\ "cmd" \notin Nodes
    /\ {MaxStarts, MaxOperations} \subseteq Nat

VARIABLES pc,         \* where each process is
          mem,        \* its memory: see Blank
          keyFile,    \* Nil, Torn or a saved wallet key
          nodeKey,    \* whether the node key file exists
          genesis,    \* the validator of the genesis file, or Nil
          session,    \* the feeder's sessionKeys entry of the node's id
          serving,    \* requests GetSecret is working on
          secretFile, \* the feeder's file for the key's address
          setter,     \* the sfeeder set that is writing it, or Nil
          used,       \* how many starts, operations and feeders there were
          disturbed,  \* history: something else touched the session of a start
          nosession,  \* history: starts that failed for want of a session key
          owner,      \* history: the first key saved to the key file, or Nil
          lucky       \* history: a wrong key once passed the padding check

vars == <<pc, mem, keyFile, nodeKey, genesis, session, serving,
          secretFile, setter, used, disturbed, nosession, owner, lucky>>
home == <<keyFile, nodeKey, genesis, owner>>
feeder == <<session, serving, secretFile, setter>>
history == <<disturbed, nosession>>

Procs == Nodes \cup {"cmd"}

\* The command, the wallet key, the passphrase, the client's half of a session, the number of
\* the open request, and the answer to it.
Blank == [task |-> "start", wk |-> Nil, s |-> Nil, sk |-> Nil, call |-> 0, reply |-> Nil]

Goto(p, step) == pc' = [pc EXCEPT ![p] = step]

Exit(p) == Goto(p, "idle") /\ mem' = [mem EXCEPT ![p] = Blank]

--------------------------------------------------------------------------------
(* The key file. *)

\* A private key is unlocked, or the process exits with the error.
Unlocked(p, w, then) ==
    IF w = Error
    THEN Exit(p) /\ UNCHANGED lucky
    ELSE /\ mem' = [mem EXCEPT ![p].wk = w]
         /\ Goto(p, then)
         /\ lucky' = (lucky \/ w.prvKey = Garbage)

\* loadSFilePV: a file that does not decode ends the process.
LoadSFilePV(p, pass, then) ==
    IF keyFile = Torn
    THEN Exit(p) /\ UNCHANGED lucky
    ELSE \E w \in Unlock(OpenWalletKey(keyFile), pass) : Unlocked(p, w, then)

\* The keys a process holds in memory.
Held == {mem[p].wk.prvKey : p \in {q \in Procs : mem[q].wk # Nil}}

\* GenPrivKey draws a key nobody drew before.  Keys no file and no process holds
\* any more are forgotten, so that any key that is not in use will do.
GenPrivKey == CHOOSE key \in Keys : key \notin Held \cup {owner}

GenSFilePV(p, then) ==
    /\ mem' = [mem EXCEPT ![p].wk =
                   [NewWalletKeyWith(GenPrivKey, mem[p].s) EXCEPT !.prvKey = GenPrivKey]]
    /\ Goto(p, then)
    /\ UNCHANGED lucky

\* A bug: a key file that was left truncated counts as missing.
KeyFileIntact == keyFile \notin {Nil, Torn}

\* tmos.FileExists, os.Stat.
KeyFileExists == keyFile # Nil

Command ==
    /\ pc["cmd"] = "idle"
    /\ used.operations < MaxOperations
    /\ Goto("cmd", "begin")
    /\ \E kind \in {"init", "reset", "change"}, pass \in Passes :
          mem' = [mem EXCEPT !["cmd"].task = kind, !["cmd"].s = pass]
    /\ used' = [used EXCEPT !.operations = @ + 1]
    /\ UNCHANGED <<home, feeder, history, lucky>>

Begins(kind) == pc["cmd"] = "begin" /\ mem["cmd"].task = kind

\* InitFilesWith: a key file that exists is opened and not saved again.
InitFiles ==
    /\ Begins("init")
    /\ IF KeyFileExists
       THEN LoadSFilePV("cmd", mem["cmd"].s, "nodekey")
       ELSE GenSFilePV("cmd", "replace")
    /\ UNCHANGED <<home, feeder, used, history>>

SaveNodeKey ==
    /\ pc["cmd"] = "nodekey"
    /\ nodeKey' = TRUE
    /\ Goto("cmd", "genesis")
    /\ UNCHANGED <<mem, keyFile, genesis, owner, feeder, used, history, lucky>>

\* The end of InitFilesWith.  A genesis file that exists is left alone; for a new
\* one the key file is opened again, to be copied to the directory of wallets.
SaveGenesis ==
    /\ pc["cmd"] = "genesis"
    /\ genesis' = IF genesis = Nil /\ keyFile # Torn THEN mem["cmd"].wk.prvKey ELSE genesis
    /\ Exit("cmd")
    /\ UNCHANGED <<keyFile, nodeKey, owner, feeder, used, history, lucky>>

\* resetFilePV saves the key again, under the passphrase that opened it.
ResetFilePV ==
    /\ Begins("reset")
    /\ IF KeyFileExists
       THEN LoadSFilePV("cmd", mem["cmd"].s, "replace")
       ELSE GenSFilePV("cmd", "replace")
    /\ UNCHANGED <<home, feeder, used, history>>

\* resetPassphrase, up to the question for the new passphrase.
ResetPassphrase ==
    /\ Begins("change")
    /\ IF keyFile \in {Nil, Torn}
       THEN Exit("cmd") /\ UNCHANGED lucky
       ELSE \E w \in Unlock(OpenWalletKey(keyFile), mem["cmd"].s) :
               Unlocked("cmd", w, "newpass")
    /\ UNCHANGED <<home, feeder, used, history>>

\* The key is locked with the new passphrase and then saved.
NewPassphrase ==
    /\ pc["cmd"] = "newpass"
    /\ \E pass1 \in Passes : mem' = [mem EXCEPT !["cmd"].wk = LockWith(@, pass1)]
    /\ Goto("cmd", "replace")
    /\ UNCHANGED <<home, feeder, used, history, lucky>>

\* What is written: resetPassphrase saves the wallet key as it is, SaveWith
\* encrypts the private key again.
Written(p) ==
    IF mem[p].task = "change"
    THEN Saved(mem[p].wk)
    ELSE Saved(NewWalletKeyWith(mem[p].wk.prvKey, mem[p].s))

\* FileIO.Write, in three steps.  SaveWith also saves the last sign state, to a
\* file of its own that no step of this module reads.
ReplaceFile(p) ==
    /\ pc[p] = "replace"
    /\ keyFile' = Written(p)
    /\ owner' = IF owner = Nil THEN Written(p).Address ELSE owner
    /\ Goto(p, "truncate")
    /\ UNCHANGED <<mem, nodeKey, genesis, feeder, used, history, lucky>>

TruncateFile(p) ==
    /\ pc[p] = "truncate"
    /\ keyFile' = Torn
    /\ Goto(p, "write")
    /\ UNCHANGED <<mem, nodeKey, genesis, owner, feeder, used, history, lucky>>

\* A start goes on when its databases, which only one process can open, are free
\* and there is a genesis file.
CanStart(p) == p \in Nodes /\ genesis # Nil /\ \A q \in Nodes : pc[q] # "running"

\* The rest of NewRigoNode, and the end of the start.
NewRigoNode(p) ==
    /\ CanStart(p)
    /\ Goto(p, "running")
    /\ mem' = [mem EXCEPT ![p] = [Blank EXCEPT !.wk = mem[p].wk]]

\* The third step: init goes on to the node key and a start to the databases;
\* other commands, and a start that cannot go on, are done.
WriteFile(p) ==
    /\ pc[p] = "write"
    /\ keyFile' = Written(p)
    /\ \/ mem[p].task = "init" /\ Goto(p, "nodekey") /\ UNCHANGED mem
       \/ NewRigoNode(p)
       \/ mem[p].task # "init" /\ ~CanStart(p) /\ Exit(p)
    /\ UNCHANGED <<nodeKey, genesis, owner, feeder, used, history, lucky>>

--------------------------------------------------------------------------------
(* The feeder. *)

\* sfeeder set: WriteSecret encrypts the secret of the address under the
\* passphrase that was typed, and FileIO.Write writes it in three steps.
WriteSecret ==
    /\ setter = Nil
    /\ used.operations < MaxOperations
    /\ \E pass \in FeederPasses, secretVal \in Passes :
          /\ secretFile' = Enc(pass, secretVal)
          /\ setter' = Enc(pass, secretVal)
    /\ used' = [used EXCEPT !.operations = @ + 1]
    /\ UNCHANGED <<pc, mem, home, session, serving, history, lucky>>

TruncateSecret ==
    /\ setter # Nil /\ secretFile # Torn
    /\ secretFile' = Torn
    /\ UNCHANGED <<pc, mem, home, session, serving, setter, used,
                   history, lucky>>

RewriteSecret ==
    /\ setter # Nil /\ secretFile = Torn
    /\ secretFile' = setter
    /\ setter' = Nil
    /\ UNCHANGED <<pc, mem, home, session, serving, used, history, lucky>>

KillSetter ==
    /\ setter # Nil
    /\ setter' = Nil
    /\ UNCHANGED <<pc, mem, home, session, serving, secretFile, used,
                   history, lucky>>

\* sfeeder remove.
RemoveAll ==
    /\ setter = Nil /\ secretFile # Nil
    /\ used.operations < MaxOperations
    /\ secretFile' = Nil
    /\ used' = [used EXCEPT !.operations = @ + 1]
    /\ UNCHANGED <<pc, mem, home, session, serving, setter, history, lucky>>

\* The starts of the node that hold a session the feeder has not read yet.
Waiting(p) == {q \in Nodes \ {p} : pc[q] = "get"}

\* The feeder stops or dies (also of concurrent writes to its map) and is started
\* again, with another key pair and an empty map.  Open requests fail.
StartFeeder ==
    /\ used.operations < MaxOperations
    /\ session' = Absent
    /\ serving' = {}
    /\ used' = [used EXCEPT !.operations = @ + 1, !.feeders = @ + 1]
    /\ pc' = [p \in Procs |-> IF pc[p] = "getting" THEN "idle" ELSE pc[p]]
    /\ mem' = [p \in Procs |-> IF pc[p] = "getting" THEN Blank ELSE mem[p]]
    /\ disturbed' = disturbed \cup Waiting("cmd")
    /\ UNCHANGED <<home, secretFile, setter, nosession, lucky>>

\* A bug: an entry of the map is not overwritten.
HandshakenOnce(old, k) == IF old = Absent THEN k ELSE old

\* The entry of the map after a Handshake.
Handshaken(old, k) == k

\* GetSecret up to the read of the session key.
ServeGetSecret(p) ==
    /\ pc[p] = "get"
    /\ IF session = Absent
       THEN /\ Exit(p)
            /\ nosession' = nosession \cup {p}
            /\ UNCHANGED serving
       ELSE /\ serving' = serving \cup {[p |-> p, sk |-> session, call |-> used.starts]}
            /\ mem' = [mem EXCEPT ![p].call = used.starts]
            /\ Goto(p, "getting")
            /\ UNCHANGED nosession
    /\ UNCHANGED <<home, session, secretFile, setter, used, disturbed, lucky>>

\* ReadSecret: the possible plaintexts of the secret file.
ReadSecret ==
    IF secretFile \in {Nil, Torn} THEN {Error} ELSE Dec(FeederPass, secretFile)

\* The rest of GetSecret; the deferred function sets the map's entry to nil.
AnswerGetSecret(r) ==
    /\ r \in serving
    /\ serving' = serving \ {r}
    /\ session' = Nil
    /\ \E plaintext \in ReadSecret :
          LET a == IF plaintext = Error THEN Error ELSE Enc(r.sk, plaintext)
              open == pc[r.p] = "getting" /\ mem[r.p].call = r.call
          IN  /\ lucky' = (lucky \/ plaintext = Garbage)
              /\ mem' = IF open THEN [mem EXCEPT ![r.p].reply = a] ELSE mem
              /\ pc' = IF open THEN [pc EXCEPT ![r.p] = "dec"] ELSE pc
              /\ nosession' = IF open /\ r.sk = Nil /\ plaintext # Error
                              THEN nosession \cup {r.p} ELSE nosession
    /\ disturbed' = disturbed \cup Waiting(r.p) \cup
                    (IF pc[r.p] = "get" THEN {r.p} ELSE {})
    /\ UNCHANGED <<home, secretFile, setter, used>>

--------------------------------------------------------------------------------
(* The start of the node. *)

\* RunE opens the key file to know its address.
RunNode(p) ==
    /\ pc[p] = "idle"
    /\ used.starts < MaxStarts
    /\ keyFile \notin {Nil, Torn} /\ nodeKey
    /\ Goto(p, "handshake")
    /\ used' = [used EXCEPT !.starts = @ + 1]
    /\ disturbed' = disturbed \ {p}
    /\ nosession' = nosession \ {p}
    /\ UNCHANGED <<mem, home, feeder, lucky>>

\* A fresh key on each side: no two handshakes agree on the same session key.
SessionKey(p) == [node |-> p, start |-> used.starts, feeder |-> used.feeders]

\* Handshake.  Its error is ignored: when the request or the answer is lost the
\* client goes on without a session key.
Handshake(p) ==
    /\ pc[p] = "handshake"
    /\ \/ /\ session' = Handshaken(session, SessionKey(p))
          /\ mem' = [mem EXCEPT ![p].sk = SessionKey(p)]
          /\ disturbed' = disturbed \cup Waiting(p)
       \/ /\ session' = Handshaken(session, SessionKey(p))
          /\ disturbed' = disturbed \cup Waiting(p) \cup {p}
          /\ UNCHANGED mem
       \/ /\ disturbed' = disturbed \cup {p}
          /\ UNCHANGED <<session, mem>>
    /\ Goto(p, "get")
    /\ UNCHANGED <<home, serving, secretFile, setter, used,
                   nosession, lucky>>

\* The answer is decrypted with the client's half of the session.
ReadRemoteCredential(p) ==
    /\ pc[p] = "dec"
    /\ IF mem[p].reply = Error
       THEN Exit(p) /\ UNCHANGED <<nosession, lucky>>
       ELSE \E secret \in Dec(mem[p].sk, mem[p].reply) :
               IF secret = Error
               THEN Exit(p) /\ nosession' = nosession \cup {p} /\ UNCHANGED lucky
               ELSE /\ mem' = [mem EXCEPT ![p].s = secret]
                    /\ Goto(p, "load")
                    /\ lucky' = (lucky \/ mem[p].sk # mem[p].reply.sk)
                    /\ UNCHANGED nosession
    /\ UNCHANGED <<home, feeder, used, disturbed>>

\* NewRigoNode: LoadOrGenSFilePV loads the key, or draws one, and saves the file.
LoadOrGenSFilePV(p) ==
    /\ pc[p] = "load"
    /\ IF KeyFileExists
       THEN LoadSFilePV(p, mem[p].s, "replace")
       ELSE GenSFilePV(p, "replace")
    /\ UNCHANGED <<home, feeder, used, history>>

\* A process is killed, a running node is stopped, or the deadline of one minute
\* for a client's two calls passes.
Kill(p) ==
    /\ pc[p] # "idle"
    /\ Exit(p)
    /\ UNCHANGED <<home, feeder, used, history, lucky>>

--------------------------------------------------------------------------------
Init ==
    /\ pc = [p \in Procs |-> "idle"]
    /\ mem = [p \in Procs |-> Blank]
    /\ keyFile = Nil /\ nodeKey = FALSE /\ genesis = Nil /\ owner = Nil
    /\ session = Absent /\ serving = {} /\ secretFile = Nil /\ setter = Nil
    /\ used = [starts |-> 0, operations |-> 0, feeders |-> 0]
    /\ disturbed = {} /\ nosession = {} /\ lucky = FALSE

Next ==
    \/ Command \/ InitFiles \/ SaveNodeKey \/ SaveGenesis \/ ResetFilePV
    \/ ResetPassphrase \/ NewPassphrase
    \/ WriteSecret \/ TruncateSecret \/ RewriteSecret \/ KillSetter \/ RemoveAll
    \/ StartFeeder
    \/ \E p \in Procs : ReplaceFile(p) \/ TruncateFile(p) \/ WriteFile(p) \/ Kill(p)
    \/ \E p \in Nodes :
          \/ RunNode(p) \/ Handshake(p) \/ ServeGetSecret(p)
          \/ ReadRemoteCredential(p) \/ LoadOrGenSFilePV(p)
    \/ \E r \in serving : AnswerGetSecret(r)

Spec == Init /\ [][Next]_vars

--------------------------------------------------------------------------------
\* Every GenSFilePV draws another key, and the one that must survive is the first
\* that reached the key file.  As long as no wrong passphrase happens to pass the
\* padding check, no crash between the steps of a rewrite (libs/file_io.go), no race
\* of a start with a command or with another start, and no init or reset that is
\* run again puts another key in the key file, in the genesis file or in a running
\* node; the most that is lost is a file left truncated.
KeyKept ==
    ~lucky =>
        /\ keyFile \notin {Nil, Torn} => keyFile.Address = owner /\ keyFile.Text.text = owner
        /\ keyFile = Torn => owner # Nil
        /\ genesis \in {Nil, owner}
        /\ \A p \in Nodes : pc[p] = "running" => mem[p].wk.prvKey = owner

\* A start that fails for want of a session key (sfeeder/server/handler.go) was
\* disturbed: an answer was lost, the feeder restarted, or another start with
\* the same node id used or replaced the session.  In particular the nil entry
\* that GetSecret leaves behind never harms a later start.
FailsOnlyIfDisturbed == nosession \subseteq disturbed
================================================================================
