------------------------ MODULE StateDBWrapperProofs ------------------------
(***************************************************************************)
(* The invariant of EVMCtrler, and what the operations of StateDBWrapper   *)
(* do to its parts.                                                        *)
(*                                                                         *)
(* A contract may be reverted to any snapshot its frames still hold, so    *)
(* the invariant speaks of each of them: all have the same money, and each *)
(* lists the addresses that were accessed by then.                         *)
(***************************************************************************)
EXTENDS EVMCtrler, FoldTheorems

Revisions == [id : Nat, objs : Objects, acl : SUBSET Addrs, burned : Nat]
Accesses == UNION {[S -> Nat] : S \in SUBSET Addrs}
Wrappers ==
    [objs : Objects, acl : SUBSET Addrs, revs : Seq(Revisions), nextId : Nat,
     accessed : Accesses, snapshot : Nat, burned : Nat]

TypeOK ==
    /\ phase \in {"idle", "executing"}
    /\ accts \in Ledgers /\ w \in Wrappers /\ sumFee \in Nat
    /\ tx \in Txs \union {None}
    /\ hist \in Seq(States)

Supply == Total(Genesis)

(* What an address has while a contract runs: its state object says it     *)
(* once it is listed, its account before.                                  *)
Held(ledger, objs, acc) ==
    [a \in Addrs |-> IF a \in DOMAIN acc THEN objs[a].Balance ELSE ledger[a].Balance]
Worth(ledger, objs, acc) == SumOf(Held(ledger, objs, acc), Addrs)

(* A contract's address that may still be created has not been used. *)
Unused(ledger) ==
    \A x \in DOMAIN CreateAddress :
        x[2] >= ledger[x[1]].Nonce => ledger[CreateAddress[x]].Nonce = 0

Creates(t) == t.to = ZeroAddress

(* Only the sender and a contract that is created have a new nonce. *)
NonceOK(t, a, old, new) ==
    /\ new >= old
    /\ a = t.from => new = old + 1
    /\ a # t.from /\ ~(Creates(t) /\ a = t.callee) => new = old

(* A state that the transaction may end or go on from. *)
Sound(ledger, t, fees, objs, acc, burned) ==
    /\ Worth(ledger, objs, acc) + t.gas + fees + burned = Supply
    /\ t.from \in DOMAIN acc
    /\ \A a \in DOMAIN acc : NonceOK(t, a, ledger[a].Nonce, objs[a].Nonce)

(* The snapshots: in order, and each with what it must bring back. *)
Ordered(s) ==
    /\ s.snapshot + 1 = s.nextId
    /\ \A i \in 1 .. Len(s.revs) : s.revs[i].id < s.nextId
    /\ \A i, j \in 1 .. Len(s.revs) : i < j => s.revs[i].id < s.revs[j].id
    /\ \A a \in DOMAIN s.accessed : s.accessed[a] <= s.nextId

Restores(ledger, t, fees, s) ==
    \A i \in 2 .. Len(s.revs) :
        /\ s.revs[i].acl = DOMAIN Until(s.accessed, s.revs[i].id)
        /\ Sound(ledger, t, fees, s.revs[i].objs, Until(s.accessed, s.revs[i].id), s.revs[i].burned)

Outermost(t, s) ==
    /\ Len(s.revs) >= 1 /\ s.revs[1].id = t.snap
    /\ s.revs[1].objs = t.before.objs /\ s.revs[1].burned = t.before.burned
    /\ \A a \in DOMAIN s.accessed : s.accessed[a] > t.snap

Alive(ledger, t, fees, s) ==
    /\ DOMAIN s.accessed = s.acl
    /\ Sound(ledger, t, fees, s.objs, s.accessed, s.burned)
    /\ Ordered(s) /\ Restores(ledger, t, fees, s) /\ Outermost(t, s)

(* Every frame may be reverted, and its address outlives the revert. *)
FramesOK(t, s) ==
    /\ Len(t.frames) >= 1
    /\ \A n \in 1 .. Len(t.frames) :
          /\ \E i \in 2 .. Len(s.revs) : s.revs[i].id = t.frames[n].id
          /\ t.frames[n].addr \in DOMAIN s.accessed
          /\ s.accessed[t.frames[n].addr] <= t.frames[n].id
    /\ \A m, n \in 1 .. Len(t.frames) : m < n => t.frames[m].id < t.frames[n].id

Running(ledger, t, fees, s) ==
    /\ t.before.accts = ledger /\ Total(ledger) + fees + t.before.burned = Supply
    /\ Creates(t) => /\ <<t.from, ledger[t.from].Nonce>> \in DOMAIN CreateAddress
                     /\ t.callee = CreateAddress[<<t.from, ledger[t.from].Nonce>>]
    /\ Alive(ledger, t, fees, s) /\ FramesOK(t, s)

Resting ==
    /\ w.revs = << >> /\ w.accessed = Nobody
    /\ Total(accts) + sumFee + w.burned = Supply

HistoryOK ==
    \A h \in 1 .. Len(hist) :
        Total(hist[h].accts) + hist[h].burned = Supply /\ Unused(hist[h].accts)

(* Between blocks the wrapper knows of what was burned by the last one. *)
Settled == w.burned = Committed(lastBlockHeight).burned

IInv ==
    /\ TypeOK
    /\ tx = None => Resting
    /\ tx # None => Running(accts, tx, sumFee, w)
    /\ phase = "idle" => tx = None /\ sumFee = 0 /\ Settled
    /\ Unused(accts)
    /\ HistoryOK /\ CallSeesCommitted

-----------------------------------------------------------------------------
(* The operators of the wrapper. *)

\* The addresses remembered are a function to numbers.
LEMMA AccessIs ==
    ASSUME NEW acc
    PROVE  acc \in Accesses <=> DOMAIN acc \in SUBSET Addrs /\ acc \in [DOMAIN acc -> Nat]
    BY DEF Accesses

\* At first nobody is remembered.
LEMMA NobodyIs == Nobody \in Accesses /\ DOMAIN Nobody = {}
    BY AccessIs, ZenonT(30) DEF Nobody

\* Remembering one more address.
LEMMA WithIs ==
    ASSUME NEW acc \in Accesses, NEW a \in Addrs, NEW n \in Nat
    PROVE  /\ With(acc, a, n) \in Accesses /\ DOMAIN With(acc, a, n) = DOMAIN acc \union {a}
           /\ With(acc, a, n)[a] = n
           /\ \A b \in DOMAIN acc \ {a} : With(acc, a, n)[b] = acc[b]
<1> DOMAIN acc \in SUBSET Addrs /\ acc \in [DOMAIN acc -> Nat]
    BY AccessIs
<1>2. With(acc, a, n) \in [DOMAIN acc \union {a} -> Nat]
    BY DEF With
<1> QED BY <1>2, AccessIs DEF With

\* The addresses remembered at a snapshot.
LEMMA UntilIs ==
    ASSUME NEW acc \in Accesses, NEW id \in Nat
    PROVE  /\ Until(acc, id) \in Accesses
           /\ DOMAIN Until(acc, id) = {a \in DOMAIN acc : acc[a] <= id}
           /\ \A a \in DOMAIN Until(acc, id) : Until(acc, id)[a] = acc[a]
<1> DOMAIN acc \in SUBSET Addrs /\ acc \in [DOMAIN acc -> Nat]
    BY AccessIs
<1>2. Until(acc, id) \in [{a \in DOMAIN acc : acc[a] <= id} -> Nat]
    BY DEF Until
<1> QED BY <1>2, AccessIs DEF Until

\* A snapshot does not know of an address that is listed later.
LEMMA UntilWith ==
    ASSUME NEW acc \in Accesses, NEW a \in Addrs \ DOMAIN acc, NEW n \in Nat,
           NEW id \in Nat, id < n
    PROVE  Until(With(acc, a, n), id) = Until(acc, id)
<1>1. acc \in [DOMAIN acc -> Nat]
    BY AccessIs
<1> DEFINE v == With(acc, a, n)
           D == {b \in DOMAIN acc : acc[b] <= id}
<1>2. DOMAIN v = DOMAIN acc \union {a} /\ v[a] = n /\ \A b \in DOMAIN acc : v[b] = acc[b]
    BY WithIs
<1> HIDE DEF v
<1>3. {b \in DOMAIN v : v[b] <= id} = D
    BY <1>1, <1>2
<1>4. Until(v, id) = [b \in D |-> v[b]] /\ Until(acc, id) = [b \in D |-> acc[b]]
    BY <1>3 DEF Until
<1>5. \A b \in D : v[b] = acc[b]
    BY <1>2
<1> HIDE DEF D
<1>6. Until(v, id) = Until(acc, id)
    BY <1>4, <1>5
<1> QED BY <1>6 DEF v

\* After a revert, an earlier snapshot is what it was.
LEMMA UntilUntil ==
    ASSUME NEW acc \in Accesses, NEW id \in Nat, NEW top \in Nat, id <= top
    PROVE  Until(Until(acc, top), id) = Until(acc, id)
<1> acc \in [DOMAIN acc -> Nat]
    BY AccessIs
<1> DEFINE v == Until(acc, top)
           D == {b \in DOMAIN acc : acc[b] <= id}
<1>2. DOMAIN v = {a \in DOMAIN acc : acc[a] <= top} /\ \A a \in DOMAIN v : v[a] = acc[a]
    BY UntilIs, ZenonT(30)
<1> HIDE DEF v
<1>3. {b \in DOMAIN v : v[b] <= id} = D
    BY <1>2
<1>4. Until(v, id) = [b \in D |-> v[b]] /\ Until(acc, id) = [b \in D |-> acc[b]]
    BY <1>3 DEF Until
<1>5. \A b \in D : v[b] = acc[b]
    BY <1>2
<1> HIDE DEF D
<1>6. Until(v, id) = Until(acc, id)
    BY <1>4, <1>5
<1> QED BY <1>6 DEF v

\* A new snapshot knows all that is listed.
LEMMA UntilAll ==
    ASSUME NEW acc \in Accesses, NEW id \in Nat, \A a \in DOMAIN acc : acc[a] <= id
    PROVE  Until(acc, id) = acc
<1>1. acc \in [DOMAIN acc -> Nat]
    BY AccessIs
<1>2. {b \in DOMAIN acc : acc[b] <= id} = DOMAIN acc
    OBVIOUS
<1>3. Until(acc, id) = [b \in DOMAIN acc |-> acc[b]]
    BY <1>2 DEF Until
<1> QED BY <1>1, <1>3

\* The parts of a wrapper.
LEMMA WrapperIs ==
    ASSUME NEW s \in Wrappers
    PROVE  /\ s.objs \in Objects /\ s.acl \in SUBSET Addrs /\ s.revs \in Seq(Revisions)
           /\ s.nextId \in Nat /\ s.accessed \in Accesses /\ s.snapshot \in Nat
           /\ s.burned \in Nat
    BY DEF Wrappers

\* Listing an address (AddAddressToAccessList) copies its account and remembers it.
LEMMA ListingIs ==
    ASSUME NEW s \in Wrappers, NEW ledger \in Ledgers, NEW a \in Addrs,
           NEW u, u = AddAddressToAccessList(s, ledger, a)
    PROVE  /\ u \in Wrappers
           /\ u.revs = s.revs /\ u.nextId = s.nextId /\ u.snapshot = s.snapshot
           /\ u.acl = s.acl \union {a} /\ u.burned = s.burned
           /\ \A b \in Addrs \ {a} : u.objs[b] = s.objs[b]
           /\ a \in DOMAIN s.accessed => u.accessed = s.accessed /\ u.objs = s.objs
           /\ a \notin DOMAIN s.accessed =>
                 /\ u.accessed = With(s.accessed, a, s.snapshot + 1)
                 /\ u.objs[a].Balance = ledger[a].Balance /\ u.objs[a].Nonce = ledger[a].Nonce
<1>1. CASE a \in DOMAIN s.accessed
  <2>1. u = [s EXCEPT !.acl = s.acl \union {a}]
      BY <1>1 DEF AddAddressToAccessList, addAccessedObjAddr
  <2> QED BY <1>1, <2>1 DEF Wrappers
<1>2. CASE a \notin DOMAIN s.accessed
  <2> DEFINE o == Borrowed(s.objs, ledger, a)
             acc == With(s.accessed, a, s.snapshot + 1)
  <2>1. o \in Objects /\ ledger[a].Balance \in Nat /\ ledger[a].Nonce \in Nat
      BY ZenonT(90) DEF Objects, Ledgers, Wrappers, Borrowed
  <2>2. /\ o[a].Balance = ledger[a].Balance /\ o[a].Nonce = ledger[a].Nonce
        /\ \A b \in Addrs \ {a} : o[b] = s.objs[b]
      BY DEF Objects, Ledgers, Wrappers, Borrowed
  <2>3. acc \in Accesses
    <3>1. s.accessed \in Accesses /\ s.snapshot + 1 \in Nat
        BY WrapperIs
    <3> QED BY <3>1, WithIs, ZenonT(30)
  <2> DEFINE v == addAccessedObjAddr(s, ledger, a)
  <2>a. v = [s EXCEPT !.objs = o, !.accessed = acc]
      BY <1>2 DEF addAccessedObjAddr
  <2>4. u = [v EXCEPT !.acl = v.acl \union {a}]
      BY DEF AddAddressToAccessList
  <2> HIDE DEF o, acc, v
  <2>b. v \in Wrappers /\ v.objs = o /\ v.accessed = acc /\ v.acl = s.acl
        /\ v.revs = s.revs /\ v.nextId = s.nextId /\ v.snapshot = s.snapshot /\ v.burned = s.burned
      BY <2>1, <2>3, <2>a, ZenonT(30) DEF Wrappers
  <2>5. u \in Wrappers /\ u.objs = o /\ u.accessed = acc /\ u.acl = s.acl \union {a}
        /\ u.revs = s.revs /\ u.nextId = s.nextId /\ u.snapshot = s.snapshot /\ u.burned = s.burned
      BY <2>b, <2>4 DEF Wrappers
  <2> QED BY <1>2, <2>2, <2>5 DEF acc
<1> QED BY <1>1, <1>2, Zenon

\* A snapshot (Snapshot) records the state objects and the access list.
LEMMA SnapshotIs ==
    ASSUME NEW s \in Wrappers, NEW u, u = Snapshot(s)
    PROVE  /\ u \in Wrappers /\ u.objs = s.objs /\ u.acl = s.acl /\ u.accessed = s.accessed
           /\ u.nextId = s.nextId + 1 /\ u.snapshot = s.nextId /\ u.burned = s.burned
           /\ u.revs = Append(s.revs, [id |-> s.nextId, objs |-> s.objs, acl |-> s.acl, burned |-> s.burned])
<1>1. [id |-> s.nextId, objs |-> s.objs, acl |-> s.acl, burned |-> s.burned] \in Revisions
    BY DEF Wrappers, Revisions
<1> DEFINE revs == Append(s.revs, [id |-> s.nextId, objs |-> s.objs, acl |-> s.acl, burned |-> s.burned])
<1>2. revs \in Seq(Revisions)
    BY <1>1 DEF Wrappers
<1>3. u = [s EXCEPT !.revs = revs, !.nextId = s.nextId + 1, !.snapshot = s.nextId]
    BY DEF Snapshot
<1>a. s.nextId + 1 \in Nat /\ s.nextId \in Nat
    BY DEF Wrappers
<1> HIDE DEF revs
<1>4. /\ u \in Wrappers /\ u.objs = s.objs /\ u.acl = s.acl /\ u.accessed = s.accessed
      /\ u.nextId = s.nextId + 1 /\ u.snapshot = s.nextId /\ u.revs = revs /\ u.burned = s.burned
    BY <1>2, <1>3, <1>a, ZenonT(30) DEF Wrappers
<1> QED BY <1>4 DEF revs

(* The one snapshot with this number. *)
IsSnapshot(s, i, id) ==
    /\ i \in 1 .. Len(s.revs) /\ id \in Nat /\ s.revs[i].id = id
    /\ \A j \in 1 .. Len(s.revs) : s.revs[j].id = id => j = i

Reverted(s, i, id, u) ==
    /\ u \in Wrappers /\ u.objs = s.revs[i].objs /\ u.acl = s.revs[i].acl
    /\ u.accessed = Until(s.accessed, id)
    /\ u.revs = SubSeq(s.revs, 1, i - 1)
    /\ u.nextId = s.nextId /\ u.snapshot = s.snapshot /\ u.burned = s.revs[i].burned

\* A revert (RevertToSnapshot) brings back what the snapshot recorded, and
\* forgets the addresses listed since, and the snapshots taken since.
LEMMA RevertIs ==
    ASSUME NEW s \in Wrappers, NEW i, NEW id, IsSnapshot(s, i, id),
           NEW u, u = RevertToSnapshot(s, id)
    PROVE  Reverted(s, i, id, u)
<1> USE DEF IsSnapshot, Reverted
<1> DEFINE v == revertAccessedObjAddr(s, id)
<1> /\ v \in Wrappers /\ v.revs = s.revs /\ v.accessed = Until(s.accessed, id)
    /\ v.nextId = s.nextId /\ v.snapshot = s.snapshot
  <2>1. Until(s.accessed, id) \in Accesses
      BY UntilIs, WrapperIs, ZenonT(30)
  <2> QED BY <2>1 DEF revertAccessedObjAddr, Wrappers
<1>2. u = RevertStateDB(v, id)
    BY DEF RevertToSnapshot
<1> HIDE DEF v
<1> s.revs \in Seq(Revisions) /\ DOMAIN s.revs = 1 .. Len(s.revs) /\ s.revs[i] \in Revisions
    BY DEF Wrappers
<1>4. (CHOOSE j \in DOMAIN v.revs : v.revs[j].id = id) = i
    OBVIOUS
<1>5. SubSeq(s.revs, 1, i - 1) \in Seq(Revisions)
    OBVIOUS
<1>6. u = [v EXCEPT !.objs = s.revs[i].objs, !.acl = s.revs[i].acl,
                    !.burned = s.revs[i].burned, !.revs = SubSeq(s.revs, 1, i - 1)]
    BY <1>2, <1>4, ZenonT(30) DEF RevertStateDB
<1>7. s.revs[i].objs \in Objects /\ s.revs[i].acl \in SUBSET Addrs /\ s.revs[i].burned \in Nat
    BY DEF Revisions
<1> QED BY <1>5, <1>6, <1>7, ZenonT(30) DEF Wrappers

-----------------------------------------------------------------------------
(* Changes of the state objects. *)

SetBalance(s, a, x) == [s EXCEPT !.objs[a].Balance = x]
SetNonce(s, a, x) == [s EXCEPT !.objs[a].Nonce = x]

(* Only the state objects may differ, and the money that was burned. *)
SameList(s, u) ==
    /\ u \in Wrappers /\ u.acl = s.acl /\ u.revs = s.revs /\ u.nextId = s.nextId
    /\ u.accessed = s.accessed /\ u.snapshot = s.snapshot

(* Only the state objects may differ. *)
SameBut(s, u) ==
    /\ u \in Wrappers /\ u.acl = s.acl /\ u.revs = s.revs /\ u.nextId = s.nextId
    /\ u.accessed = s.accessed /\ u.snapshot = s.snapshot /\ u.burned = s.burned

(* Only the balance of one address differs, and is x in u. *)
BalanceSet(s, a, x, u) ==
    /\ SameBut(s, u) /\ u.objs[a].Balance = x
    /\ \A b \in Addrs : u.objs[b].Nonce = s.objs[b].Nonce
    /\ \A b \in Addrs \ {a} : u.objs[b] = s.objs[b]

\* A balance is set.
LEMMA SetBalanceIs ==
    ASSUME NEW s \in Wrappers, NEW a \in Addrs, NEW x \in Nat, NEW u, u = SetBalance(s, a, x)
    PROVE  BalanceSet(s, a, x, u)
<1> DEFINE o == [s.objs EXCEPT ![a].Balance = x]
<1>1. /\ o \in Objects /\ o[a].Balance = x /\ \A b \in Addrs : o[b].Nonce = s.objs[b].Nonce
      /\ \A b \in Addrs \ {a} : o[b] = s.objs[b]
    BY WrapperIs, ZenonT(90) DEF Objects
<1>2. u = [s EXCEPT !.objs = o]
    BY DEF SetBalance
<1> HIDE DEF o
<1>3. SameBut(s, u) /\ u.objs = o
    BY <1>1, <1>2 DEF Wrappers, SameBut
<1> QED BY <1>1, <1>3, Zenon DEF BalanceSet

\* A nonce is set.
LEMMA SetNonceIs ==
    ASSUME NEW s \in Wrappers, NEW a \in Addrs, NEW x \in Nat, NEW u, u = SetNonce(s, a, x)
    PROVE  /\ SameBut(s, u) /\ u.objs[a].Nonce = x
           /\ \A b \in Addrs : u.objs[b].Balance = s.objs[b].Balance
           /\ \A b \in Addrs \ {a} : u.objs[b] = s.objs[b]
<1> DEFINE o == [s.objs EXCEPT ![a].Nonce = x]
<1>1. /\ o \in Objects /\ o[a].Nonce = x /\ \A b \in Addrs : o[b].Balance = s.objs[b].Balance
      /\ \A b \in Addrs \ {a} : o[b] = s.objs[b]
    BY WrapperIs DEF Objects
<1>2. u = [s EXCEPT !.objs = o]
    BY DEF SetNonce
<1> HIDE DEF o
<1>3. SameBut(s, u) /\ u.objs = o
    BY <1>1, <1>2 DEF Wrappers, SameBut
<1> QED BY <1>1, <1>3

SetSuicided(s, a) == [s EXCEPT !.objs[a].Suicided = TRUE]
SetCode(s, a, c) == [s EXCEPT !.objs[a].Code = c]
SameBalances(s, u) == \A b \in Addrs : u.objs[b].Balance = s.objs[b].Balance
Marked(s, u) ==
    SameBut(s, u) /\ SameBalances(s, u) /\ \A b \in Addrs : u.objs[b].Nonce = s.objs[b].Nonce

\* A contract is marked as destroyed: balances and nonces stay.
LEMMA SetSuicidedIs ==
    ASSUME NEW s \in Wrappers, NEW a \in Addrs, NEW u, u = SetSuicided(s, a)
    PROVE  Marked(s, u)
<1> DEFINE o == [s.objs EXCEPT ![a].Suicided = TRUE]
<1> s.objs \in Objects
    BY WrapperIs
<1>2. \A b \in Addrs : o[b].Balance = s.objs[b].Balance /\ o[b].Nonce = s.objs[b].Nonce
    BY DEF Objects
<1>3. o \in Objects
    BY ZenonT(30) DEF Objects
<1>4. u = [s EXCEPT !.objs = o]
    BY DEF SetSuicided
<1> HIDE DEF o
<1>5. SameBut(s, u) /\ u.objs = o
    BY <1>3, <1>4 DEF Wrappers, SameBut
<1> QED BY <1>2, <1>5, Zenon DEF SameBalances, Marked

\* A contract gets its code: balances and nonces stay.
LEMMA SetCodeIs ==
    ASSUME NEW s \in Wrappers, NEW a \in Addrs, NEW c \in BOOLEAN, NEW u, u = SetCode(s, a, c)
    PROVE  Marked(s, u)
<1> DEFINE o == [s.objs EXCEPT ![a].Code = c]
<1> s.objs \in Objects
    BY WrapperIs
<1>2. \A b \in Addrs : o[b].Balance = s.objs[b].Balance /\ o[b].Nonce = s.objs[b].Nonce
    BY DEF Objects
<1>3. o \in Objects
    BY DEF Objects
<1>4. u = [s EXCEPT !.objs = o]
    BY DEF SetCode
<1> HIDE DEF o
<1>5. SameBut(s, u) /\ u.objs = o
    BY <1>3, <1>4 DEF Wrappers, SameBut
<1> QED BY <1>2, <1>5, Zenon DEF SameBalances, Marked

-----------------------------------------------------------------------------
(* What everybody holds. *)

\* Balances are natural numbers.
LEMMA HeldType ==
    ASSUME NEW ledger \in Ledgers, NEW objs \in Objects, NEW acc
    PROVE  /\ \A a \in Addrs : /\ objs[a].Balance \in Nat /\ objs[a].Nonce \in Nat
                               /\ ledger[a].Balance \in Nat /\ ledger[a].Nonce \in Nat
                               /\ Held(ledger, objs, acc)[a] \in Nat
           /\ Worth(ledger, objs, acc) \in Nat /\ Total(ledger) \in Nat
<1>1. \A a \in Addrs : /\ objs[a].Balance \in Nat /\ objs[a].Nonce \in Nat
                       /\ ledger[a].Balance \in Nat /\ ledger[a].Nonce \in Nat
    BY DEF Ledgers, Objects
<1>2. \A a \in Addrs : Held(ledger, objs, acc)[a] \in Nat
    BY <1>1 DEF Held
<1> IsFiniteSet(Addrs) /\ Nat \in {Nat, Int}
    BY EVMAssumption
<1>4. Worth(ledger, objs, acc) \in Nat
    BY <1>2, SumType DEF Worth
<1> DEFINE f == [a \in Addrs |-> ledger[a].Balance]
<1>5. \A a \in Addrs : f[a] \in Nat
    BY <1>1
<1> HIDE DEF f
<1>6. SumOf(f, Addrs) \in Nat
    BY <1>5, SumType
<1>7. Total(ledger) \in Nat
    BY <1>6 DEF Total, f
<1> QED BY <1>1, <1>2, <1>4, <1>7

\* One balance of a ledger is changed.
LEMMA TotalChange ==
    ASSUME NEW l \in Ledgers, NEW m \in Ledgers, NEW a \in Addrs,
           \A b \in Addrs \ {a} : m[b].Balance = l[b].Balance
    PROVE  Total(m) = Total(l) + (m[a].Balance - l[a].Balance)
<1> DEFINE f == [b \in Addrs |-> l[b].Balance]
           g == [b \in Addrs |-> m[b].Balance]
<1>1. /\ \A b \in Addrs : f[b] \in Int /\ g[b] \in Int
      /\ \A b \in Addrs \ {a} : f[b] = g[b]
      /\ g[a] = m[a].Balance /\ f[a] = l[a].Balance
    BY DEF Ledgers
<1> IsFiniteSet(Addrs) /\ Total(m) = SumOf(g, Addrs) /\ Total(l) = SumOf(f, Addrs)
    BY EVMAssumption DEF Total
<1> HIDE DEF f, g
<1>3. SumOf(g, Addrs) = SumOf(f, Addrs) + (g[a] - f[a])
    BY <1>1, SumChange
<1> QED BY <1>1, <1>3

\* The same holdings are worth the same.
LEMMA WorthSame ==
    ASSUME NEW ledger \in Ledgers, NEW objs \in Objects, NEW acc, NEW p \in Objects, NEW acq,
           \A a \in Addrs : Held(ledger, p, acq)[a] = Held(ledger, objs, acc)[a]
    PROVE  Worth(ledger, p, acq) = Worth(ledger, objs, acc)
<1>1. IsFiniteSet(Addrs)
    BY EVMAssumption
<1>2. \A a \in Addrs : Held(ledger, p, acq)[a] \in Int
    BY HeldType
<1> QED BY <1>1, <1>2, SumSame DEF Worth

\* One listed balance is changed.
LEMMA WorthChange ==
    ASSUME NEW ledger \in Ledgers, NEW objs \in Objects, NEW acc, NEW p \in Objects,
           NEW a \in Addrs \intersect DOMAIN acc,
           \A b \in Addrs \ {a} : p[b].Balance = objs[b].Balance
    PROVE  Worth(ledger, p, acc) = Worth(ledger, objs, acc) + (p[a].Balance - objs[a].Balance)
<1>1. IsFiniteSet(Addrs)
    BY EVMAssumption
<1> DEFINE f == Held(ledger, objs, acc)
           g == Held(ledger, p, acc)
<1>2. \A b \in Addrs : f[b] \in Int /\ g[b] \in Int
    BY HeldType
<1>3. f[a] = objs[a].Balance /\ g[a] = p[a].Balance /\ \A b \in Addrs \ {a} : f[b] = g[b]
    BY DEF Held
<1> HIDE DEF f, g
<1>4. SumOf(g, Addrs) = SumOf(f, Addrs) + (g[a] - f[a])
    BY <1>1, <1>2, <1>3, SumChange
<1> QED BY <1>3, <1>4 DEF Worth, f, g

\* Wrapper u differs from s in the balances of two addresses only, and is worth the same.
Moved(ledger, s, u, from, to) ==
    /\ SameBut(s, u) /\ \A b \in Addrs : u.objs[b].Nonce = s.objs[b].Nonce
    /\ from \in DOMAIN s.accessed /\ to \in DOMAIN s.accessed =>
          Worth(ledger, u.objs, u.accessed) = Worth(ledger, s.objs, s.accessed)

\* A transfer between listed addresses moves money and nothing else.
LEMMA TransferIs ==
    ASSUME NEW s \in Wrappers, NEW ledger \in Ledgers, NEW from \in Addrs, NEW to \in Addrs,
           NEW amt \in Nat, amt <= s.objs[from].Balance,
           NEW u, u = Transfer(s, from, to, amt)
    PROVE  Moved(ledger, s, u, from, to)
<1> DEFINE left == s.objs[from].Balance - amt
           sub == SetBalance(s, from, left)
           more == sub.objs[to].Balance + amt
<1>1. s.objs \in Objects /\ \A b \in Addrs : s.objs[b].Balance \in Nat
    BY WrapperIs, HeldType, ZenonT(30)
<1>2. left \in Nat
    BY <1>1
<1>3. u = SetBalance(sub, to, more)
    BY DEF Transfer, SetBalance
<1>4. /\ SameBut(s, sub) /\ sub.objs[from].Balance = left
      /\ \A b \in Addrs : sub.objs[b].Nonce = s.objs[b].Nonce
      /\ \A b \in Addrs \ {from} : sub.objs[b] = s.objs[b]
  <2> HIDE DEF left
  <2>1. BalanceSet(s, from, left, sub)
      BY <1>2, SetBalanceIs, Zenon
  <2> QED BY <2>1, Zenon DEF BalanceSet
<1> HIDE DEF sub
<1>5. sub \in Wrappers /\ sub.objs \in Objects /\ \A b \in Addrs : sub.objs[b].Balance \in Nat
    BY <1>4, WrapperIs, HeldType, ZenonT(30) DEF SameBut
<1>6. more \in Nat
    BY <1>5
<1>7. /\ SameBut(sub, u) /\ u.objs[to].Balance = more
      /\ \A b \in Addrs : u.objs[b].Nonce = sub.objs[b].Nonce
      /\ \A b \in Addrs \ {to} : u.objs[b] = sub.objs[b]
  <2> HIDE DEF more
  <2>1. BalanceSet(sub, to, more, u)
      BY <1>3, <1>5, <1>6, SetBalanceIs, Zenon
  <2> QED BY <2>1, Zenon DEF BalanceSet
<1>8. SameBut(s, u) /\ \A b \in Addrs : u.objs[b].Nonce = s.objs[b].Nonce
    BY <1>4, <1>7, Zenon DEF SameBut
<1>9. ASSUME from \in DOMAIN s.accessed, to \in DOMAIN s.accessed
      PROVE  Worth(ledger, u.objs, u.accessed) = Worth(ledger, s.objs, s.accessed)
  <2> DEFINE acc == s.accessed
  <2> u.accessed = acc /\ u.objs \in Objects
      BY <1>8, WrapperIs DEF SameBut
  <2>2. \A b \in Addrs \ {from} : sub.objs[b].Balance = s.objs[b].Balance
      BY <1>4
  <2>3. \A b \in Addrs \ {to} : u.objs[b].Balance = sub.objs[b].Balance
      BY <1>7
  <2> HIDE DEF left, more, acc
  <2> from \in Addrs \intersect DOMAIN acc /\ to \in Addrs \intersect DOMAIN acc
      BY <1>9 DEF acc
  <2>5. Worth(ledger, sub.objs, acc)
            = Worth(ledger, s.objs, acc) + (sub.objs[from].Balance - s.objs[from].Balance)
      BY <1>1, <1>5, <2>2, WorthChange
  <2>6. Worth(ledger, u.objs, acc)
            = Worth(ledger, sub.objs, acc) + (u.objs[to].Balance - sub.objs[to].Balance)
      BY <1>5, <2>3, WorthChange
  <2>7. Worth(ledger, s.objs, acc) \in Nat /\ Worth(ledger, sub.objs, acc) \in Nat
      BY <1>1, <1>5, HeldType, Zenon
  <2>8. Worth(ledger, u.objs, acc) = Worth(ledger, s.objs, acc)
      BY <1>1, <1>4, <1>5, <1>7, <2>5, <2>6, <2>7 DEF left, more
  <2> QED BY <2>8 DEF acc
<1> QED BY <1>8, <1>9 DEF Moved

\* Listing an address changes nobody's holding.
LEMMA ListingWorth ==
    ASSUME NEW s \in Wrappers, NEW ledger \in Ledgers, NEW a \in Addrs,
           NEW u, u = AddAddressToAccessList(s, ledger, a)
    PROVE  Worth(ledger, u.objs, u.accessed) = Worth(ledger, s.objs, s.accessed)
<1>1. /\ u \in Wrappers /\ \A b \in Addrs \ {a} : u.objs[b] = s.objs[b]
      /\ a \in DOMAIN s.accessed => u.accessed = s.accessed /\ u.objs = s.objs
      /\ a \notin DOMAIN s.accessed =>
            /\ u.accessed = With(s.accessed, a, s.snapshot + 1)
            /\ u.objs[a].Balance = ledger[a].Balance
    BY ListingIs
<1>2. s.objs \in Objects /\ u.objs \in Objects /\ s.accessed \in Accesses /\ s.snapshot + 1 \in Nat
    BY <1>1, WrapperIs
<1>3. ASSUME a \notin DOMAIN s.accessed
      PROVE  DOMAIN u.accessed = DOMAIN s.accessed \union {a}
  <2>1. u.accessed = With(s.accessed, a, s.snapshot + 1)
      BY <1>1, <1>3
  <2>2. DOMAIN With(s.accessed, a, s.snapshot + 1) = DOMAIN s.accessed \union {a}
      BY ONLY <1>2, WithIs, a \in Addrs, ZenonT(30)
  <2> QED BY <2>1, <2>2
<1>4. ASSUME NEW b \in Addrs
      PROVE  Held(ledger, u.objs, u.accessed)[b] = Held(ledger, s.objs, s.accessed)[b]
  <2>1. CASE a \in DOMAIN s.accessed
      BY <1>1, <2>1
  <2>2. CASE a \notin DOMAIN s.accessed
    <3>1. CASE b = a
        BY <1>1, <1>3, <2>2, <3>1, Zenon DEF Held
    <3>2. CASE b # a
      <4>1. u.objs[b] = s.objs[b] /\ (b \in DOMAIN u.accessed <=> b \in DOMAIN s.accessed)
          BY <1>1, <1>3, <2>2, <3>2, Zenon
      <4> QED BY <4>1 DEF Held
    <3> QED BY <3>1, <3>2
  <2> QED BY <2>1, <2>2
<1> QED BY <1>2, <1>4, WorthSame

-----------------------------------------------------------------------------
(* What keeps a running transaction sound. *)

\* A change of the state objects that leaves them sound.
LEMMA AliveSound ==
    ASSUME NEW ledger \in Ledgers, NEW t \in Txs, NEW fees \in Nat, NEW s \in Wrappers,
           Alive(ledger, t, fees, s), NEW u, SameList(s, u),
           Sound(ledger, t, fees, u.objs, u.accessed, u.burned)
    PROVE  Alive(ledger, t, fees, u)
<1>1. /\ u.acl = s.acl /\ u.revs = s.revs /\ u.nextId = s.nextId /\ u.accessed = s.accessed
      /\ u.snapshot = s.snapshot
    BY DEF SameList
<1>2. Ordered(u) /\ Restores(ledger, t, fees, u) /\ Outermost(t, u) /\ DOMAIN u.accessed = u.acl
    BY <1>1, Zenon DEF Alive, Ordered, Restores, Outermost
<1> QED BY <1>2 DEF Alive

\* A change of the state objects that keeps money and nonces.
LEMMA AliveChanged ==
    ASSUME NEW ledger \in Ledgers, NEW t \in Txs, NEW fees \in Nat, NEW s \in Wrappers,
           Alive(ledger, t, fees, s), NEW u, SameBut(s, u),
           Worth(ledger, u.objs, u.accessed) = Worth(ledger, s.objs, s.accessed),
           \A b \in Addrs : u.objs[b].Nonce = s.objs[b].Nonce
    PROVE  Alive(ledger, t, fees, u)
<1> /\ u.accessed = s.accessed /\ u.burned = s.burned /\ DOMAIN s.accessed \subseteq Addrs
    /\ SameList(s, u)
    BY WrapperIs, AccessIs DEF SameBut, SameList
<1> Sound(ledger, t, fees, s.objs, s.accessed, s.burned)
    BY DEF Alive
<1>3. \A a \in DOMAIN s.accessed : NonceOK(t, a, ledger[a].Nonce, u.objs[a].Nonce)
    BY DEF Sound
<1>4. Sound(ledger, t, fees, u.objs, u.accessed, u.burned)
    BY <1>3 DEF Sound
<1> QED BY <1>4, AliveSound

\* Another address is listed.
LEMMA AliveListed ==
    ASSUME NEW ledger \in Ledgers, NEW t \in Txs, NEW fees \in Nat, NEW s \in Wrappers,
           Alive(ledger, t, fees, s), NEW a \in Addrs,
           NEW u, u = AddAddressToAccessList(s, ledger, a)
    PROVE  /\ u \in Wrappers /\ Alive(ledger, t, fees, u)
           /\ u.revs = s.revs /\ u.nextId = s.nextId /\ u.burned = s.burned
           /\ a \in DOMAIN u.accessed /\ DOMAIN s.accessed \subseteq DOMAIN u.accessed
           /\ \A b \in DOMAIN s.accessed : u.accessed[b] = s.accessed[b]
           /\ \A b \in DOMAIN s.accessed : u.objs[b] = s.objs[b]
<1>1. /\ u \in Wrappers
      /\ u.revs = s.revs /\ u.nextId = s.nextId /\ u.snapshot = s.snapshot
      /\ u.acl = s.acl \union {a} /\ u.burned = s.burned
      /\ \A b \in Addrs \ {a} : u.objs[b] = s.objs[b]
      /\ a \in DOMAIN s.accessed => u.accessed = s.accessed /\ u.objs = s.objs
      /\ a \notin DOMAIN s.accessed =>
            /\ u.accessed = With(s.accessed, a, s.snapshot + 1)
            /\ u.objs[a].Nonce = ledger[a].Nonce
    BY ListingIs
<1>2. Worth(ledger, u.objs, u.accessed) = Worth(ledger, s.objs, s.accessed)
    BY ListingWorth
<1> DEFINE n == s.snapshot + 1
           acc == s.accessed
<1>3. /\ acc \in Accesses /\ n \in Nat /\ n = s.nextId /\ s.nextId \in Nat
      /\ DOMAIN acc \subseteq Addrs /\ s.revs \in Seq(Revisions)
      /\ \A i \in 1 .. Len(s.revs) : s.revs[i].id \in Nat /\ s.revs[i].id < n
  <2> acc \in Accesses /\ n \in Nat /\ s.nextId \in Nat /\ s.revs \in Seq(Revisions)
      BY WrapperIs
  <2>2. DOMAIN acc \subseteq Addrs
      BY AccessIs
  <2> Ordered(s) /\ n = s.nextId
      BY DEF Alive, Ordered
  <2>4. ASSUME NEW i \in 1 .. Len(s.revs) PROVE s.revs[i].id \in Nat /\ s.revs[i].id < n
    <3>1. s.revs[i] \in Revisions
        OBVIOUS
    <3> QED BY <3>1 DEF Ordered, Revisions
  <2> QED BY <2>2, <2>4
<1>4. CASE a \in DOMAIN acc
  <2> u.accessed = s.accessed /\ u.objs = s.objs /\ u.acl = s.acl
      BY <1>1, <1>4 DEF Alive
  <2>2. SameBut(s, u)
      BY <1>1 DEF SameBut
  <2>3. Alive(ledger, t, fees, u)
      BY <2>2, AliveChanged
  <2> QED BY <1>1, <1>4, <2>3
<1>5. CASE a \notin DOMAIN acc
  <2> DEFINE new == u.accessed
  <2> HIDE DEF n, acc
  <2> new = With(acc, a, n)
      BY <1>1, <1>5 DEF acc, n
  <2>2. /\ DOMAIN new = DOMAIN acc \union {a} /\ new[a] = n
        /\ \A b \in DOMAIN acc : new[b] = acc[b]
    <3>1. /\ DOMAIN With(acc, a, n) = DOMAIN acc \union {a} /\ With(acc, a, n)[a] = n
          /\ \A b \in DOMAIN acc \ {a} : With(acc, a, n)[b] = acc[b]
        BY ONLY <1>3, a \in Addrs, WithIs, ZenonT(90)
    <3> HIDE DEF new
    <3> QED BY <1>5, <3>1
  <2>3. \A i \in 1 .. Len(s.revs) : Until(new, s.revs[i].id) = Until(acc, s.revs[i].id)
    <3> TAKE i \in 1 .. Len(s.revs)
    <3>1. s.revs[i].id \in Nat /\ s.revs[i].id < n
        BY <1>3
    <3> HIDE DEF new
    <3> QED BY <1>3, <1>5, <3>1, UntilWith
  <2> HIDE DEF new
  <2>4. DOMAIN new = u.acl
      BY <1>1, <2>2, Zenon DEF Alive, acc
  <2>5. \A b \in DOMAIN acc : u.objs[b] = s.objs[b]
      BY <1>1, <1>3, <1>5, Zenon
  <2>6. Sound(ledger, t, fees, u.objs, new, u.burned)
    <3> Sound(ledger, t, fees, s.objs, acc, s.burned)
        BY DEF Alive, acc
    <3> t.from \in DOMAIN acc /\ a # t.from
        BY <1>5 DEF Sound
    <3>3. ledger[a].Nonce \in Nat
        BY DEF Ledgers
    <3>4. NonceOK(t, a, ledger[a].Nonce, u.objs[a].Nonce)
        BY <1>1, <1>5, <3>3 DEF NonceOK, acc
    <3>5. ASSUME NEW b \in DOMAIN new PROVE NonceOK(t, b, ledger[b].Nonce, u.objs[b].Nonce)
      <4>1. CASE b = a
          BY <4>1, <3>4
      <4>2. CASE b # a
        <5>1. u.objs[b] = s.objs[b] /\ b \in DOMAIN acc
            BY <4>2, <2>2, <2>5
        <5> QED BY <5>1 DEF Sound
      <4> QED BY <4>1, <4>2
    <3>6. Worth(ledger, u.objs, new) = Worth(ledger, s.objs, acc)
        BY <1>2 DEF new, acc
    <3> QED BY <1>1, <3>5, <3>6, <2>2, Zenon DEF Sound
  <2>7. Ordered(u)
    <3>1. \A b \in DOMAIN new : new[b] <= s.nextId
        BY <1>3, <2>2 DEF Alive, Ordered, acc
    <3> QED BY <1>1, <3>1, Zenon DEF Alive, Ordered, new
  <2>8. Restores(ledger, t, fees, u)
      BY <1>1, <2>3 DEF Alive, Restores, new, acc
  <2>9. Outermost(t, u)
    <3> /\ 1 \in 1 .. Len(s.revs) /\ s.revs[1].id = t.snap
        /\ s.revs[1].objs = t.before.objs /\ s.revs[1].burned = t.before.burned
        BY <1>3 DEF Alive, Outermost
    <3>2. n > t.snap
        BY <1>3
    <3>3. \A b \in DOMAIN new : new[b] > t.snap
        BY <2>2, <3>2, Zenon DEF Alive, Outermost, acc
    <3> QED BY <1>1, <3>3 DEF new, Outermost
  <2>10. Alive(ledger, t, fees, u)
      BY <2>4, <2>6, <2>7, <2>8, <2>9, ZenonT(60) DEF Alive, new
  <2> QED BY <1>1, <2>2, <2>5, <2>10, Zenon DEF new, acc
<1> QED BY <1>4, <1>5, Zenon

(* The wrapper u is s with one more snapshot. *)
OneMore(s, u) ==
    /\ u.objs = s.objs /\ u.accessed = s.accessed /\ u.burned = s.burned
    /\ u.nextId = s.nextId + 1 /\ u.snapshot = s.nextId
    /\ Len(u.revs) = Len(s.revs) + 1 /\ Len(u.revs) >= 2
    /\ u.revs[Len(u.revs)].id = s.nextId
    /\ \A i \in 1 .. Len(s.revs) : u.revs[i] = s.revs[i]

\* A snapshot is taken.
LEMMA AliveSnapshot ==
    ASSUME NEW ledger \in Ledgers, NEW t \in Txs, NEW fees \in Nat, NEW s \in Wrappers,
           Alive(ledger, t, fees, s), NEW u, u = Snapshot(s)
    PROVE  u \in Wrappers /\ Alive(ledger, t, fees, u) /\ OneMore(s, u)
<1> DEFINE n == Len(s.revs)
           r == [id |-> s.nextId, objs |-> s.objs, acl |-> s.acl, burned |-> s.burned]
<1> /\ u \in Wrappers /\ u.objs = s.objs /\ u.acl = s.acl /\ u.accessed = s.accessed
    /\ u.nextId = s.nextId + 1 /\ u.snapshot = s.nextId /\ u.revs = Append(s.revs, r)
    /\ u.burned = s.burned
    BY SnapshotIs
<1>2. /\ s.revs \in Seq(Revisions) /\ s.nextId \in Nat /\ s.accessed \in Accesses
      /\ \A i \in 1 .. n : s.revs[i] \in Revisions
    BY WrapperIs
<1> r.id = s.nextId /\ r.objs = s.objs /\ r.acl = s.acl /\ r.burned = s.burned
    OBVIOUS
<1> HIDE DEF r
<1>4. /\ Len(u.revs) = n + 1 /\ u.revs[n + 1] = r /\ n \in Nat
      /\ \A i \in 1 .. n : u.revs[i] = s.revs[i]
    BY <1>2
<1> n >= 1
    BY DEF Alive, Outermost
<1> HIDE DEF n
<1>6. DOMAIN u.accessed = u.acl /\ Sound(ledger, t, fees, u.objs, u.accessed, u.burned)
    BY DEF Alive
<1>7. \A a \in DOMAIN s.accessed : s.accessed[a] <= s.nextId /\ s.accessed[a] \in Nat
    BY <1>2, AccessIs, Zenon DEF Alive, Ordered
<1>8. \A i \in 1 .. n : s.revs[i].id < s.nextId /\ s.revs[i].id \in Nat
    BY <1>2, Zenon DEF Alive, Ordered, Revisions, n
<1>9. Ordered(u)
  <2>1. \A i \in 1 .. n + 1 : u.revs[i].id < s.nextId + 1
    <3> TAKE i \in 1 .. n + 1
    <3>1. CASE i = n + 1
        BY <1>2, <1>4, <3>1
    <3>2. CASE i # n + 1
      <4>1. i \in 1 .. n
          BY <1>4, <3>2
      <4>2. u.revs[i].id < s.nextId /\ u.revs[i].id \in Nat /\ s.nextId \in Nat
          BY <1>2, <1>4, <1>8, <4>1, Zenon
      <4> QED BY ONLY <4>2
    <3> QED BY <3>1, <3>2, ZenonT(30)
  <2>2. ASSUME NEW i \in 1 .. n + 1, NEW j \in 1 .. n + 1, i < j
        PROVE  u.revs[i].id < u.revs[j].id
    <3> i \in 1 .. n
        BY <2>2, <1>4
    <3>2. CASE j = n + 1
        BY <1>4, <1>8, <3>2, Zenon
    <3>3. CASE j # n + 1
      <4>1. j \in 1 .. n
          BY <1>4, <3>3
      <4> QED BY <1>4, <2>2, <4>1, Zenon DEF Alive, Ordered, n
    <3> QED BY <3>2, <3>3, ZenonT(30)
  <2>3. \A a \in DOMAIN s.accessed : s.accessed[a] <= s.nextId + 1
      BY <1>2, <1>7
  <2>4. u.snapshot + 1 = u.nextId
      OBVIOUS
  <2> QED BY <1>4, <2>1, <2>2, <2>3, <2>4, Zenon DEF Ordered
<1>10. Restores(ledger, t, fees, u)
  <2> SUFFICES ASSUME NEW i \in 2 .. n + 1
               PROVE  /\ u.revs[i].acl = DOMAIN Until(s.accessed, u.revs[i].id)
                      /\ Sound(ledger, t, fees, u.revs[i].objs, Until(s.accessed, u.revs[i].id),
                               u.revs[i].burned)
      BY <1>4, ZenonT(90) DEF Restores
  <2>1. CASE i = n + 1
    <3>1. Until(s.accessed, s.nextId) = s.accessed
        BY <1>2, <1>7, UntilAll, Zenon
    <3> QED BY <1>4, <2>1, <3>1, Zenon DEF Alive
  <2>2. CASE i # n + 1
    <3>1. i \in 2 .. n /\ i \in 1 .. n
        BY <1>4, <2>2
    <3> QED BY <1>4, <3>1, Zenon DEF Alive, Restores, n
  <2> QED BY <2>1, <2>2, ZenonT(30)
<1>11. Outermost(t, u)
  <2>1. 1 \in 1 .. n
      BY <1>4
  <2>2. u.revs[1] = s.revs[1] /\ Len(u.revs) >= 1
      BY <1>4, <2>1
  <2> QED BY <2>2 DEF Alive, Outermost
<1>12. Alive(ledger, t, fees, u)
    BY <1>6, <1>9, <1>10, <1>11, Zenon DEF Alive
<1> QED BY <1>4, <1>12 DEF OneMore, n

(* Wrapper u lists what s had listed by its i-th snapshot, and has the snapshots before it. *)
CutBack(s, i, u) ==
    /\ u.accessed = Until(s.accessed, s.revs[i].id)
    /\ Len(u.revs) = i - 1 /\ \A j \in 1 .. i - 1 : u.revs[j] = s.revs[j]

\* A frame is reverted.
LEMMA AliveReverted ==
    ASSUME NEW ledger \in Ledgers, NEW t \in Txs, NEW fees \in Nat, NEW s \in Wrappers,
           Alive(ledger, t, fees, s), NEW i \in 2 .. Len(s.revs),
           NEW u, u = RevertToSnapshot(s, s.revs[i].id)
    PROVE  u \in Wrappers /\ Alive(ledger, t, fees, u) /\ CutBack(s, i, u)
<1> DEFINE id == s.revs[i].id
<1>1. /\ s.revs \in Seq(Revisions) /\ s.nextId \in Nat /\ s.accessed \in Accesses
      /\ s.snapshot \in Nat /\ \A j \in 1 .. Len(s.revs) : s.revs[j] \in Revisions
      /\ Len(s.revs) \in Nat
    BY WrapperIs
<1>2. \A j \in 1 .. Len(s.revs) : s.revs[j].id \in Nat
    BY <1>1, Zenon DEF Revisions
<1> i \in 1 .. Len(s.revs) /\ id \in Nat
    BY <1>1, <1>2
<1>4. \A j \in 1 .. Len(s.revs) : s.revs[j].id = id => j = i
    BY <1>2 DEF Alive, Ordered
<1>5. \A j \in 1 .. i - 1 : s.revs[j].id < id
    BY <1>1 DEF Alive, Ordered
<1>6. id < s.nextId
    BY DEF Alive, Ordered
<1> HIDE DEF id
<1> /\ u \in Wrappers /\ u.objs = s.revs[i].objs /\ u.acl = s.revs[i].acl
    /\ u.accessed = Until(s.accessed, id)
    /\ u.revs = SubSeq(s.revs, 1, i - 1)
    /\ u.nextId = s.nextId /\ u.snapshot = s.snapshot /\ u.burned = s.revs[i].burned
  <2>1. u = RevertToSnapshot(s, id) /\ IsSnapshot(s, i, id)
      BY <1>4 DEF IsSnapshot, id
  <2>2. Reverted(s, i, id, u)
      BY <2>1, RevertIs
  <2> QED BY <2>2, Zenon DEF Reverted
<1>8. Len(u.revs) = i - 1 /\ \A j \in 1 .. i - 1 : u.revs[j] = s.revs[j]
    BY <1>1
<1>9. DOMAIN u.accessed = u.acl /\ Sound(ledger, t, fees, u.objs, u.accessed, u.burned)
    BY Zenon DEF Alive, Restores, id
<1>10. /\ DOMAIN u.accessed \subseteq DOMAIN s.accessed
       /\ \A a \in DOMAIN u.accessed : u.accessed[a] = s.accessed[a]
  <2>1. /\ DOMAIN Until(s.accessed, id) = {a \in DOMAIN s.accessed : s.accessed[a] <= id}
        /\ \A a \in DOMAIN Until(s.accessed, id) : Until(s.accessed, id)[a] = s.accessed[a]
      BY <1>1, UntilIs, ZenonT(30)
  <2> QED BY <2>1, Zenon
<1>11. Ordered(u)
  <2> 1 .. i - 1 \subseteq 1 .. Len(s.revs)
      BY <1>1
  <2> Ordered(s)
      BY Zenon DEF Alive
  <2>3. \A j \in 1 .. i - 1 : u.revs[j].id < s.nextId
      BY <1>8, Zenon DEF Ordered
  <2>4. \A j, k \in 1 .. i - 1 : j < k => u.revs[j].id < u.revs[k].id
      BY <1>8, Zenon DEF Ordered
  <2>5. \A a \in DOMAIN u.accessed : u.accessed[a] <= s.nextId
      BY <1>10, Zenon DEF Ordered
  <2>6. s.snapshot + 1 = s.nextId
      BY Zenon DEF Ordered
  <2> QED BY <1>8, <2>3, <2>4, <2>5, <2>6, ZenonT(60) DEF Ordered
<1>12. Restores(ledger, t, fees, u)
  <2> DEFINE Kept(j) == /\ s.revs[j].acl = DOMAIN Until(u.accessed, s.revs[j].id)
                        /\ Sound(ledger, t, fees, s.revs[j].objs, Until(u.accessed, s.revs[j].id),
                                 s.revs[j].burned)
  <2>1. ASSUME NEW j \in 2 .. i - 1 PROVE Kept(j) /\ j \in 1 .. i - 1
    <3>1. j \in 2 .. Len(s.revs) /\ j \in 1 .. i - 1 /\ j \in 1 .. Len(s.revs)
      <4>1. Len(s.revs) \in Nat
          BY ONLY <1>1, Zenon
      <4> QED BY ONLY <4>1, i \in 2 .. Len(s.revs), j \in 2 .. i - 1
    <3>2. s.revs[j].id \in Nat /\ id \in Nat /\ s.revs[j].id < id
        BY ONLY <1>2, <1>5, <3>1, id \in Nat, Zenon
    <3>3. s.revs[j].id <= id
        BY ONLY <3>2
    <3>4. Until(u.accessed, s.revs[j].id) = Until(s.accessed, s.revs[j].id)
      <4>1. s.accessed \in Accesses /\ u.accessed = Until(s.accessed, id)
          BY <1>1, Zenon
      <4> QED BY ONLY <3>2, <3>3, <4>1, UntilUntil
    <3> QED BY <3>1, <3>4, ZenonT(60) DEF Alive, Restores
  <2> HIDE DEF Kept
  <2>2. ASSUME NEW j \in 2 .. Len(u.revs) PROVE Kept(j) /\ u.revs[j] = s.revs[j]
      BY <1>8, <2>1, Zenon
  <2> QED BY <2>2, Zenon DEF Restores, Kept
<1>13. Outermost(t, u)
  <2>1. 1 \in 1 .. i - 1 /\ i - 1 >= 1
      OBVIOUS
  <2>2. u.revs[1] = s.revs[1] /\ Len(u.revs) >= 1
      BY <1>8, <2>1, Zenon
  <2> QED BY <1>10, <2>2, Zenon DEF Alive, Outermost
<1> QED BY <1>8, <1>9, <1>11, <1>12, <1>13, Zenon DEF Alive, CutBack, id

-----------------------------------------------------------------------------
(* The beginning of a transaction. *)

(* The listed addresses have what their accounts have. *)
Copied(s, ledger) ==
    /\ s.acl = DOMAIN s.accessed
    /\ \A a \in DOMAIN s.accessed :
          /\ s.accessed[a] = s.snapshot + 1
          /\ s.objs[a].Balance = ledger[a].Balance /\ s.objs[a].Nonce = ledger[a].Nonce

(* The wrapper u is s with more addresses listed. *)
ListedMore(s, u) ==
    /\ u \in Wrappers /\ u.revs = s.revs /\ u.nextId = s.nextId /\ u.snapshot = s.snapshot
    /\ u.burned = s.burned /\ DOMAIN s.accessed \subseteq DOMAIN u.accessed

\* Listing another address copies its account.
LEMMA CopiedListed ==
    ASSUME NEW s \in Wrappers, NEW ledger \in Ledgers, Copied(s, ledger), NEW a \in Addrs,
           NEW u, u = AddAddressToAccessList(s, ledger, a)
    PROVE  ListedMore(s, u) /\ Copied(u, ledger) /\ a \in DOMAIN u.accessed
<1>1. /\ u \in Wrappers
      /\ u.revs = s.revs /\ u.nextId = s.nextId /\ u.snapshot = s.snapshot
      /\ u.acl = s.acl \union {a} /\ u.burned = s.burned
      /\ \A b \in Addrs \ {a} : u.objs[b] = s.objs[b]
      /\ a \in DOMAIN s.accessed => u.accessed = s.accessed /\ u.objs = s.objs
      /\ a \notin DOMAIN s.accessed =>
            /\ u.accessed = With(s.accessed, a, s.snapshot + 1)
            /\ u.objs[a].Balance = ledger[a].Balance /\ u.objs[a].Nonce = ledger[a].Nonce
    BY ListingIs
<1>2. CASE a \in DOMAIN s.accessed
  <2>1. u.acl = DOMAIN u.accessed
      BY <1>1, <1>2 DEF Copied
  <2> QED BY <1>1, <1>2, <2>1 DEF Copied, ListedMore
<1>3. CASE a \notin DOMAIN s.accessed
  <2> DEFINE n == s.snapshot + 1
             acc == s.accessed
             new == u.accessed
  <2> acc \in Accesses /\ n \in Nat /\ DOMAIN acc \subseteq Addrs
      BY WrapperIs, AccessIs
  <2> new = With(acc, a, n)
      BY <1>1, <1>3
  <2> HIDE DEF acc, n, new
  <2>3. /\ DOMAIN With(acc, a, n) = DOMAIN acc \union {a} /\ With(acc, a, n)[a] = n
        /\ \A b \in DOMAIN acc \ {a} : With(acc, a, n)[b] = acc[b]
      BY WithIs, ZenonT(90)
  <2>4. ASSUME NEW b \in DOMAIN new
        PROVE  /\ new[b] = n
               /\ u.objs[b].Balance = ledger[b].Balance /\ u.objs[b].Nonce = ledger[b].Nonce
    <3>1. CASE b = a
        BY <1>1, <1>3, <2>3, <3>1, Zenon
    <3>2. CASE b # a
      <4>1. b \in DOMAIN acc /\ new[b] = acc[b] /\ u.objs[b] = s.objs[b]
          BY <1>1, <2>3, <3>2, Zenon
      <4> QED BY <4>1 DEF Copied, acc, n
    <3> QED BY <3>1, <3>2, Zenon
  <2>5. u.acl = DOMAIN new /\ a \in DOMAIN new /\ DOMAIN acc \subseteq DOMAIN new
      BY <1>1, <2>3, Zenon DEF Copied, acc
  <2> QED BY <1>1, <2>4, <2>5, ZenonT(30) DEF Copied, ListedMore, acc, n, new
<1> QED BY <1>2, <1>3

(* The wrapper u is s made ready for a transaction. *)
Ready(s, ledger, from, to, snap, u) ==
    /\ u \in Wrappers /\ u.revs = s.revs /\ u.nextId = s.nextId /\ u.snapshot = snap
    /\ u.burned = s.burned /\ Copied(u, ledger)
    /\ from \in DOMAIN u.accessed /\ (to # ZeroAddress => to \in DOMAIN u.accessed)

\* Prepare lists the sender and, when there is one, the receiver.
LEMMA PrepareIs ==
    ASSUME NEW s \in Wrappers, s.accessed = Nobody, NEW ledger \in Ledgers, NEW from \in Addrs,
           NEW to \in Addrs \union {ZeroAddress}, NEW snap \in Nat,
           NEW u, u = Prepare(s, ledger, from, to, snap)
    PROVE  Ready(s, ledger, from, to, snap, u)
<1> DEFINE fresh == [s EXCEPT !.snapshot = snap, !.acl = {}]
           sender == AddAddressToAccessList(fresh, ledger, from)
<1> /\ fresh \in Wrappers /\ fresh.revs = s.revs /\ fresh.nextId = s.nextId
    /\ fresh.snapshot = snap /\ fresh.accessed = s.accessed /\ fresh.acl = {}
    /\ fresh.burned = s.burned
    BY ZenonT(30) DEF Wrappers
<1>2. Copied(fresh, ledger)
    BY NobodyIs DEF Copied
<1> u = IF to = ZeroAddress THEN sender ELSE AddAddressToAccessList(sender, ledger, to)
    BY DEF Prepare
<1> HIDE DEF fresh
<1> ListedMore(fresh, sender) /\ Copied(sender, ledger) /\ from \in DOMAIN sender.accessed
    BY <1>2, CopiedListed
<1> HIDE DEF sender
<1>5. CASE to = ZeroAddress
  <2>1. u = sender
      BY <1>5
  <2> QED BY <1>5, <2>1 DEF ListedMore, Ready
<1>6. CASE to # ZeroAddress
  <2>1. u = AddAddressToAccessList(sender, ledger, to) /\ to \in Addrs /\ sender \in Wrappers
      BY <1>6 DEF ListedMore
  <2>2. ListedMore(sender, u) /\ Copied(u, ledger) /\ to \in DOMAIN u.accessed
      BY <2>1, CopiedListed
  <2> QED BY <2>2 DEF ListedMore, Ready
<1> QED BY <1>5, <1>6

\* Copies are worth what the ledger is.
LEMMA CopiedWorth ==
    ASSUME NEW s \in Wrappers, NEW ledger \in Ledgers, Copied(s, ledger)
    PROVE  Worth(ledger, s.objs, s.accessed) = Total(ledger)
<1> DEFINE f == Held(ledger, s.objs, s.accessed)
           g == [a \in Addrs |-> ledger[a].Balance]
<1>1. \A a \in Addrs : f[a] = g[a]
    BY DEF Held, Copied
<1>2. \A a \in Addrs : f[a] \in Int
    BY WrapperIs, HeldType
<1>3. IsFiniteSet(Addrs)
    BY EVMAssumption
<1> HIDE DEF f, g
<1>4. SumOf(f, Addrs) = SumOf(g, Addrs)
    BY <1>1, <1>2, <1>3, SumSame
<1> QED BY <1>4 DEF Worth, Total, f, g

-----------------------------------------------------------------------------
(* The end of a transaction. *)

\* A new wrapper has nothing but the state objects.
LEMMA NewWrapperIs ==
    ASSUME NEW objs \in Objects, NEW burned \in Nat, NEW u, u = NewStateDBWrapper(objs, burned)
    PROVE  /\ u \in Wrappers /\ u.revs = << >> /\ u.accessed = Nobody /\ u.objs = objs
           /\ u.burned = burned
    BY NobodyIs DEF NewStateDBWrapper, Wrappers

\* After Finish nobody is remembered.
LEMMA ForgottenIs ==
    ASSUME NEW s \in Wrappers, NEW u, u = Forgotten(s)
    PROVE  /\ u \in Wrappers /\ u.revs = s.revs /\ u.accessed = Nobody /\ u.objs = s.objs
           /\ u.burned = s.burned
    BY NobodyIs DEF Forgotten, Wrappers

\* After Finalise no snapshot is left.
LEMMA FinaliseIs ==
    ASSUME NEW s \in Wrappers, NEW u, u = Finalise(s)
    PROVE  /\ u \in Wrappers /\ u.revs = << >> /\ u.accessed = s.accessed /\ u.burned = s.burned
<1> DEFINE o == [a \in DOMAIN s.objs |-> IF s.objs[a].Suicided THEN NoObject ELSE s.objs[a]]
<1>1. o \in Objects
  <2>1. s.objs \in Objects
      BY WrapperIs
  <2>2. NoObject \in [Balance : Nat, Nonce : Nat, Code : BOOLEAN, Suicided : BOOLEAN]
      BY DEF NoObject
  <2> QED BY <2>1, <2>2 DEF Objects
<1>2. u = [s EXCEPT !.objs = o, !.revs = << >>]
    BY DEF Finalise
<1> HIDE DEF o
<1>3. << >> \in Seq(Revisions)
    OBVIOUS
<1> QED BY <1>1, <1>2, <1>3, ZenonT(30) DEF Wrappers

(* The ledger v is what the wrapper leaves of a ledger. *)
Leaves(s, ledger, v) ==
    /\ v \in Ledgers /\ Total(v) = Worth(ledger, s.objs, s.accessed)
    /\ \A a \in DOMAIN s.accessed : v[a].Nonce = s.objs[a].Nonce
    /\ \A a \in Addrs \ DOMAIN s.accessed : v[a] = ledger[a]

\* Finish writes back the listed addresses, and no other.
LEMMA WrittenBackIs ==
    ASSUME NEW s \in Wrappers, NEW ledger \in Ledgers, NEW v, v = WrittenBack(s, ledger)
    PROVE  Leaves(s, ledger, v)
<1> DOMAIN ledger = Addrs /\ DOMAIN s.accessed \subseteq Addrs /\ s.objs \in Objects
    BY WrapperIs, AccessIs DEF Ledgers
<1>2. ASSUME NEW a \in DOMAIN s.accessed
      PROVE  /\ v[a] \in [Balance : Nat, Nonce : Nat, Code : BOOLEAN]
             /\ v[a].Balance = s.objs[a].Balance /\ v[a].Nonce = s.objs[a].Nonce
  <2>1. v[a] = [ledger[a] EXCEPT !.Balance = s.objs[a].Balance, !.Nonce = s.objs[a].Nonce]
      BY ZenonT(30) DEF WrittenBack
  <2>2. /\ ledger[a] \in [Balance : Nat, Nonce : Nat, Code : BOOLEAN]
        /\ s.objs[a].Balance \in Nat /\ s.objs[a].Nonce \in Nat
      BY DEF Ledgers, Objects
  <2> QED BY <2>1, <2>2, ZenonT(30)
<1>3. \A a \in Addrs \ DOMAIN s.accessed : v[a] = ledger[a]
    BY ZenonT(30) DEF WrittenBack
<1>4. v \in Ledgers
  <2>1. \A a \in Addrs : v[a] \in [Balance : Nat, Nonce : Nat, Code : BOOLEAN]
      BY <1>2, <1>3 DEF Ledgers
  <2>2. v = [a \in Addrs |-> v[a]]
      BY ZenonT(30) DEF WrittenBack
  <2> QED BY <2>1, <2>2 DEF Ledgers
<1> DEFINE f == Held(ledger, s.objs, s.accessed)
           g == [a \in Addrs |-> v[a].Balance]
<1>5. \A a \in Addrs : f[a] = g[a]
    BY <1>2, <1>3 DEF Held
<1>6. IsFiniteSet(Addrs) /\ \A a \in Addrs : f[a] \in Int
    BY HeldType, EVMAssumption
<1> HIDE DEF f, g
<1>7. SumOf(f, Addrs) = SumOf(g, Addrs)
    BY <1>5, <1>6, SumSame
<1>8. Total(v) = Worth(ledger, s.objs, s.accessed)
    BY <1>7 DEF Worth, Total, f, g
<1> QED BY <1>2, <1>3, <1>4, <1>8, Zenon DEF Leaves

(* The wrapper u and the ledger v are as before the transaction. *)
Undone(s, ledger, u, v) ==
    /\ u \in Wrappers /\ u.revs = << >> /\ u.accessed = Nobody /\ u.objs = s.revs[1].objs
    /\ u.burned = s.revs[1].burned /\ v = ledger

(* Everything was listed within the transaction. *)
AllSince(s, snap) == \A a \in DOMAIN s.accessed : s.accessed[a] > snap

\* A transaction that fails is undone.
LEMMA FailedIs ==
    ASSUME NEW s \in Wrappers, NEW ledger \in Ledgers, NEW snap, IsSnapshot(s, 1, snap),
           AllSince(s, snap), NEW back, back = RevertToSnapshot(s, snap),
           NEW u, u = Forgotten(back), NEW v, v = WrittenBack(back, ledger)
    PROVE  Undone(s, ledger, u, v)
<1> snap \in Nat /\ s.accessed \in Accesses /\ s.accessed \in [DOMAIN s.accessed -> Nat]
      /\ s.revs \in Seq(Revisions)
    BY WrapperIs, AccessIs DEF IsSnapshot
<1> Reverted(s, 1, snap, back)
    BY RevertIs
<1> /\ back \in Wrappers /\ back.objs = s.revs[1].objs /\ back.accessed = Until(s.accessed, snap)
    /\ back.burned = s.revs[1].burned
    BY DEF Reverted
<1>4. back.revs = << >>
  <2>1. back.revs = SubSeq(s.revs, 1, 0)
      BY DEF Reverted
  <2> QED BY <2>1
<1>5. DOMAIN back.accessed = {}
  <2>1. DOMAIN Until(s.accessed, snap) = {a \in DOMAIN s.accessed : s.accessed[a] <= snap}
      BY UntilIs, ZenonT(30)
  <2>2. \A a \in DOMAIN s.accessed : ~(s.accessed[a] <= snap)
      BY DEF AllSince
  <2> QED BY <2>1, <2>2
<1>6. /\ u \in Wrappers /\ u.revs = back.revs /\ u.accessed = Nobody /\ u.objs = back.objs
      /\ u.burned = back.burned
    BY ForgottenIs
<1>7. Leaves(back, ledger, v)
    BY WrittenBackIs
<1>8. v = ledger
  <2>1. v \in Ledgers /\ \A a \in Addrs : v[a] = ledger[a]
      BY <1>5, <1>7 DEF Leaves
  <2> QED BY <2>1 DEF Ledgers
<1> QED BY <1>4, <1>6, <1>8 DEF Undone

-----------------------------------------------------------------------------
(* The first frame. *)

(* The wrapper s is w made ready, its only snapshot the transaction's. *)
Begun(s, from, to) ==
    /\ s \in Wrappers /\ Copied(s, accts)
    /\ from \in DOMAIN s.accessed /\ (to # ZeroAddress => to \in DOMAIN s.accessed)
    /\ IsSnapshot(s, 1, w.nextId) /\ AllSince(s, w.nextId) /\ s.revs[1].objs = w.objs
    /\ s.burned = w.burned /\ s.revs[1].burned = w.burned
    /\ Len(s.revs) = 1 /\ s.snapshot = w.nextId /\ s.nextId = w.nextId + 1

\* ExecuteTrx takes its snapshot and prepares the wrapper.
LEMMA PreparedIs ==
    ASSUME w \in Wrappers, w.revs = << >>, w.accessed = Nobody, accts \in Ledgers,
           NEW from \in Senders, NEW to \in Addrs \union {ZeroAddress},
           NEW s, s = Prepared(from, to)
    PROVE  Begun(s, from, to)
<1> DEFINE u == Snapshot(w)
           r == [id |-> w.nextId, objs |-> w.objs, acl |-> w.acl, burned |-> w.burned]
<1> /\ u \in Wrappers /\ u.accessed = Nobody /\ u.nextId = w.nextId + 1
    /\ u.revs = Append(w.revs, r) /\ u.burned = w.burned
    BY SnapshotIs
<1> /\ r.id = w.nextId /\ r.objs = w.objs /\ r.burned = w.burned
    /\ w.nextId \in Nat /\ from \in Addrs
    BY WrapperIs, EVMAssumption
<1>3. s = Prepare(u, accts, from, to, w.nextId)
    BY DEF Prepared
<1> HIDE DEF u, r
<1> Ready(u, accts, from, to, w.nextId, s)
    BY <1>3, PrepareIs, ZenonT(30)
<1> Len(u.revs) = 1 /\ u.revs[1] = r
    OBVIOUS
<1>6. IsSnapshot(s, 1, w.nextId)
    BY DEF Ready, IsSnapshot
<1>7. AllSince(s, w.nextId)
    BY DEF Ready, Copied, AllSince
<1> QED BY <1>6, <1>7 DEF Begun, Ready

Paid(s, from, gas) == SetBalance(s, from, s.objs[from].Balance - gas)

(* The wrapper u is s after the gas was paid for. *)
HasPaid(s, from, gas, amt, u) ==
    /\ SameBut(s, u) /\ u.objs[from].Balance >= amt
    /\ IsSnapshot(u, 1, w.nextId) /\ AllSince(u, w.nextId)
    /\ \A b \in Addrs : u.objs[b].Nonce = s.objs[b].Nonce
    /\ Worth(accts, u.objs, u.accessed) + gas = Total(accts)

\* The gas is bought: the failing paths of ExecuteTrx still find their snapshot.
LEMMA BoughtIs ==
    ASSUME w \in Wrappers, accts \in Ledgers, NEW from \in Senders,
           NEW to \in Addrs \union {ZeroAddress}, NEW s, Begun(s, from, to),
           NEW gas \in Nat, NEW amt \in Nat, accts[from].Balance >= gas + amt,
           NEW u, u = Paid(s, from, gas)
    PROVE  HasPaid(s, from, gas, amt, u)
<1> DEFINE x == s.objs[from].Balance - gas
<1> from \in Addrs /\ s \in Wrappers /\ from \in DOMAIN s.accessed
    BY EVMAssumption DEF Begun
<1>2. s.objs \in Objects /\ s.objs[from].Balance = accts[from].Balance
      /\ \A b \in Addrs : accts[b].Balance \in Nat
    BY WrapperIs, Zenon DEF Begun, Copied, Ledgers
<1> x \in Nat /\ x >= amt /\ x = s.objs[from].Balance - gas
    BY <1>2
<1>4. u = SetBalance(s, from, x)
    BY DEF Paid
<1> HIDE DEF x
<1>5. /\ SameBut(s, u) /\ u.objs[from].Balance = x
      /\ \A b \in Addrs : u.objs[b].Nonce = s.objs[b].Nonce
      /\ \A b \in Addrs \ {from} : u.objs[b] = s.objs[b]
  <2>1. BalanceSet(s, from, x, u)
      BY <1>4, SetBalanceIs, Zenon
  <2> QED BY <2>1, Zenon DEF BalanceSet
<1> u \in Wrappers /\ u.objs \in Objects /\ u.accessed = s.accessed /\ u.revs = s.revs
    BY <1>5, WrapperIs, Zenon DEF SameBut
<1>7. Worth(accts, s.objs, s.accessed) = Total(accts) /\ Worth(accts, s.objs, s.accessed) \in Nat
    BY <1>2, CopiedWorth, HeldType, ZenonT(60) DEF Begun
<1>8. Worth(accts, u.objs, s.accessed)
          = Worth(accts, s.objs, s.accessed) + (u.objs[from].Balance - s.objs[from].Balance)
  <2>1. from \in Addrs \intersect DOMAIN s.accessed
      OBVIOUS
  <2>2. \A b \in Addrs \ {from} : u.objs[b].Balance = s.objs[b].Balance
      BY <1>5, ZenonT(60)
  <2> QED BY <1>2, <2>1, <2>2, WorthChange
<1>9. Worth(accts, u.objs, u.accessed) + gas = Total(accts)
    BY <1>2, <1>5, <1>7, <1>8
<1>10. IsSnapshot(u, 1, w.nextId) /\ AllSince(u, w.nextId)
    BY Zenon DEF Begun, IsSnapshot, AllSince
<1> QED BY <1>5, <1>9, <1>10, ZenonT(60) DEF HasPaid

(* A transaction with its first frame. *)
Starts(t) ==
    /\ t \in Txs /\ t.snap = w.nextId
    /\ t.before = [accts |-> accts, objs |-> w.objs, burned |-> w.burned]
    /\ Creates(t) => /\ <<t.from, accts[t.from].Nonce>> \in DOMAIN CreateAddress
                     /\ t.callee = CreateAddress[<<t.from, accts[t.from].Nonce>>]
    /\ ~Creates(t) => t.callee = t.to
    /\ t.frames = <<Frame(t.callee, w.nextId + 1)>>

TakeNonce(s, a) == SetNonce(s, a, s.objs[a].Nonce + 1)

\* The sender has paid and its nonce is taken: the transaction is sound.
LEMMA CountedIs ==
    ASSUME w \in Wrappers, accts \in Ledgers, sumFee \in Nat, Total(accts) + sumFee + w.burned = Supply,
           NEW t, Starts(t), NEW s, Begun(s, t.from, t.to), NEW u,
           HasPaid(s, t.from, t.gas, t.amount, u), NEW v, v = TakeNonce(u, t.from)
    PROVE  SameBut(s, v) /\ Alive(accts, t, sumFee, v) /\ SameBalances(u, v)
<1>0. /\ SameBut(s, u) /\ \A b \in Addrs : u.objs[b].Nonce = s.objs[b].Nonce
      /\ Worth(accts, u.objs, u.accessed) + t.gas = Total(accts)
    BY DEF HasPaid
<1> DEFINE x == u.objs[t.from].Nonce + 1
<1> /\ s \in Wrappers /\ u \in Wrappers /\ u.accessed = s.accessed /\ t.from \in Addrs
    /\ t.from \in Senders /\ t.gas \in Nat /\ t.callee \in Addrs /\ t.snap \in Nat
    BY <1>0, EVMAssumption, Zenon DEF SameBut, Begun, Starts, Txs
<1>2. /\ u.objs \in Objects /\ s.objs \in Objects /\ w.nextId \in Nat
      /\ \A b \in Addrs : accts[b].Nonce \in Nat
    BY WrapperIs DEF Ledgers
<1>3. x \in Nat
  <2>1. u.objs[t.from].Nonce \in Nat
      BY <1>2 DEF Objects
  <2> QED BY ONLY <2>1
<1> HIDE DEF x
<1>4. /\ SameBut(u, v) /\ v.objs[t.from].Nonce = x
      /\ \A b \in Addrs : v.objs[b].Balance = u.objs[b].Balance
      /\ \A b \in Addrs \ {t.from} : v.objs[b] = u.objs[b]
  <2>1. v = SetNonce(u, t.from, x)
      BY DEF x, TakeNonce
  <2> QED BY <1>3, <2>1, SetNonceIs
<1> /\ SameBut(s, v) /\ v.objs \in Objects /\ v.accessed = s.accessed /\ v.acl = s.acl
    /\ v.revs = s.revs /\ v.nextId = s.nextId /\ v.snapshot = s.snapshot /\ v.burned = w.burned
    BY <1>0, <1>4, WrapperIs, ZenonT(60) DEF SameBut, Begun
<1>6. Worth(accts, v.objs, v.accessed) = Worth(accts, u.objs, u.accessed)
  <2>1. \A a \in Addrs :
            Held(accts, v.objs, v.accessed)[a] = Held(accts, u.objs, u.accessed)[a]
      BY <1>4, ZenonT(60) DEF Held
  <2>2. u.objs \in Objects /\ v.objs \in Objects /\ accts \in Ledgers
      BY <1>2
  <2> QED BY ONLY <2>1, <2>2, WorthSame
<1>7. ASSUME NEW a \in DOMAIN v.accessed
      PROVE  NonceOK(t, a, accts[a].Nonce, v.objs[a].Nonce)
  <2>1. a \in Addrs /\ s.objs[a].Nonce = accts[a].Nonce /\ u.objs[a].Nonce = accts[a].Nonce
        /\ accts[a].Nonce \in Nat
      BY <1>0, <1>2, <1>7, WrapperIs, AccessIs, ZenonT(30) DEF Begun, Copied
  <2>2. CASE a = t.from
    <3>1. v.objs[a].Nonce = accts[a].Nonce + 1
        BY <1>4, <2>1, <2>2, Zenon DEF x
    <3> QED BY ONLY <2>1, <2>2, <3>1 DEF NonceOK
  <2>3. CASE a # t.from
    <3>1. v.objs[a].Nonce = accts[a].Nonce
        BY <1>4, <2>1, <2>3, Zenon
    <3> QED BY ONLY <2>1, <2>3, <3>1 DEF NonceOK
  <2> QED BY <2>2, <2>3, Zenon
<1>8. Sound(accts, t, sumFee, v.objs, v.accessed, v.burned)
  <2>1. Worth(accts, v.objs, v.accessed) \in Nat /\ Total(accts) \in Nat
      BY HeldType, Zenon
  <2>2. Worth(accts, v.objs, v.accessed) + t.gas + sumFee + v.burned = Supply
      BY <1>0, <1>6, <2>1, ZenonT(60)
  <2>3. t.from \in DOMAIN v.accessed
      BY DEF Begun
  <2> QED BY <1>7, <2>2, <2>3, Zenon DEF Sound
<1>9. DOMAIN v.accessed = v.acl /\ \A a \in DOMAIN v.accessed : v.accessed[a] = w.nextId + 1
    BY ZenonT(90) DEF Begun, Copied
<1>10. /\ Len(v.revs) = 1 /\ v.revs[1].id = w.nextId /\ v.revs[1].objs = w.objs
       /\ v.revs[1].burned = w.burned
    BY DEF Begun, IsSnapshot
<1>11. Ordered(v)
  <2>1. v.snapshot + 1 = v.nextId /\ v.nextId = w.nextId + 1
      BY <1>2, Zenon DEF Begun
  <2>2. \A i \in 1 .. 1 : v.revs[i].id < v.nextId
    <3>1. v.revs[1].id < v.nextId
        BY ONLY <1>2, <1>10, <2>1
    <3> QED BY ONLY <3>1
  <2>3. \A i, j \in 1 .. 1 : ~(i < j)
      OBVIOUS
  <2>4. \A a \in DOMAIN v.accessed : v.accessed[a] <= v.nextId
      BY <1>2, <1>9, <2>1
  <2> QED BY <1>10, <2>1, <2>2, <2>3, <2>4, ZenonT(60) DEF Ordered
<1>12. Restores(accts, t, sumFee, v)
  <2>1. 2 .. Len(v.revs) = {}
      BY ONLY <1>10
  <2> QED BY ONLY <2>1 DEF Restores
<1>13. Outermost(t, v)
  <2>1. t.snap = w.nextId /\ t.before.objs = w.objs /\ t.before.burned = w.burned
      BY DEF Starts
  <2>2. \A a \in DOMAIN v.accessed : v.accessed[a] > t.snap
      BY <1>2, <1>9, <2>1
  <2> QED BY ONLY <1>10, <2>1, <2>2 DEF Outermost
<1>14. Alive(accts, t, sumFee, v)
    BY <1>8, <1>9, <1>11, <1>12, <1>13, ZenonT(60) DEF Alive
<1> QED BY <1>4, <1>14, ZenonT(60) DEF SameBalances

\* A contract's address has a new owner: nobody has it, and it was not used.
LEMMA CalleeIs ==
    ASSUME accts \in Ledgers, Unused(accts), NEW t, Starts(t), Creates(t)
    PROVE  t.callee # t.from /\ accts[t.callee].Nonce = 0
<1> DEFINE x == <<t.from, accts[t.from].Nonce>>
<1> x \in DOMAIN CreateAddress /\ t.callee = CreateAddress[x] /\ t.from \in Senders
    BY DEF Starts, Txs
<1>2. x[1] = t.from /\ x[2] = accts[t.from].Nonce /\ accts[t.from].Nonce \in Nat
    BY EVMAssumption DEF Ledgers
<1> HIDE DEF x
<1>3. t.callee \notin Senders
    BY CreateAssumption
<1>4. x[2] >= accts[x[1]].Nonce
    BY <1>2
<1>5. accts[CreateAddress[x]].Nonce = 0
    BY <1>4 DEF Unused
<1> QED BY <1>3, <1>5

\* The nonce of a contract that was not there is zero before and one after.
LEMMA NonceNew ==
    ASSUME NEW t, Creates(t), NEW a, a = t.callee, a # t.from
    PROVE  NonceOK(t, a, 0, 1)
    BY DEF NonceOK

\* A new contract's nonce is set to one.
LEMMA MadeIs ==
    ASSUME accts \in Ledgers, sumFee \in Nat, Unused(accts), NEW t, Starts(t), Creates(t),
           NEW s \in Wrappers, Alive(accts, t, sumFee, s),
           NEW u, u = SetNonce(s, t.callee, 1)
    PROVE  SameBut(s, u) /\ Alive(accts, t, sumFee, u) /\ SameBalances(s, u)
<1> t.callee \in Addrs /\ t \in Txs /\ 1 \in Nat
    BY DEF Starts, Txs
<1>2. t.callee # t.from /\ accts[t.callee].Nonce = 0
    BY CalleeIs
<1>3. /\ SameBut(s, u) /\ u.objs[t.callee].Nonce = 1
      /\ \A b \in Addrs : u.objs[b].Balance = s.objs[b].Balance
      /\ \A b \in Addrs \ {t.callee} : u.objs[b] = s.objs[b]
    BY SetNonceIs
<1>4. /\ u.accessed = s.accessed /\ s.objs \in Objects /\ u.objs \in Objects
      /\ DOMAIN s.accessed \subseteq Addrs
    BY <1>3, WrapperIs, AccessIs, ZenonT(60) DEF SameBut
<1>5. Worth(accts, u.objs, u.accessed) = Worth(accts, s.objs, s.accessed)
  <2>1. \A a \in Addrs :
            Held(accts, u.objs, u.accessed)[a] = Held(accts, s.objs, s.accessed)[a]
      BY <1>3, <1>4, Zenon DEF Held
  <2>2. accts \in Ledgers
      OBVIOUS
  <2> QED BY ONLY <1>4, <2>1, <2>2, WorthSame
<1> Sound(accts, t, sumFee, s.objs, s.accessed, s.burned)
    BY DEF Alive
<1>7. ASSUME NEW a \in DOMAIN s.accessed
      PROVE  NonceOK(t, a, accts[a].Nonce, u.objs[a].Nonce)
  <2>1. CASE a = t.callee
    <3>1. accts[a].Nonce = 0 /\ u.objs[a].Nonce = 1 /\ a # t.from
        BY <1>2, <1>3, <2>1, Zenon
    <3>2. NonceOK(t, a, 0, 1)
        BY <2>1, <3>1, NonceNew, ZenonT(60)
    <3> QED BY ONLY <3>1, <3>2, Zenon
  <2>2. CASE a # t.callee
    <3>1. u.objs[a] = s.objs[a]
        BY <1>3, <1>4, <2>2, Zenon
    <3> QED BY <3>1 DEF Sound
  <2> QED BY <2>1, <2>2, Zenon
<1>8. Sound(accts, t, sumFee, u.objs, u.accessed, u.burned) /\ SameList(s, u)
    BY <1>3, <1>4, <1>5, <1>7, ZenonT(60) DEF Sound, SameBut, SameList
<1>9. Alive(accts, t, sumFee, u)
    BY <1>3, <1>8, AliveSound, ZenonT(60)
<1> QED BY <1>3, <1>9, ZenonT(60) DEF SameBalances

(* The wrapper s is ready for the first frame of t. *)
Entering(t, s) ==
    /\ s \in Wrappers /\ Alive(accts, t, sumFee, s) /\ t.from \in DOMAIN s.accessed
    /\ s.nextId = w.nextId + 1 /\ Len(s.revs) = 1

\* A contract that is created is listed; any other callee is listed already.
LEMMA CalleeListed ==
    ASSUME accts \in Ledgers, sumFee \in Nat, NEW t, Starts(t), NEW s, Entering(t, s),
           t.to # ZeroAddress => t.to \in DOMAIN s.accessed,
           NEW u, u = IF t.to = ZeroAddress
                      THEN AddAddressToAccessList(s, accts, t.callee) ELSE s
    PROVE  /\ Entering(t, u) /\ t.callee \in DOMAIN u.accessed
           /\ u.objs[t.from].Balance = s.objs[t.from].Balance
<1>1. CASE Creates(t)
  <2>1. u = AddAddressToAccessList(s, accts, t.callee) /\ t \in Txs /\ t.callee \in Addrs
      BY <1>1, ZenonT(60) DEF Creates, Starts, Txs
  <2> QED BY <2>1, AliveListed DEF Entering
<1>2. CASE ~Creates(t)
    BY <1>2 DEF Creates, Starts
<1> QED BY <1>1, <1>2, ZenonT(60)

\* The wrapper when the first frame of transaction t is made from wrapper s, and what is
\* known of it.
Framing(t, s) ==
    IF t.to = ZeroAddress THEN SetNonce(Snapshot(s), t.callee, 1) ELSE Snapshot(s)

Framed(t, s, u) ==
    /\ u \in Wrappers /\ Alive(accts, t, sumFee, u) /\ u.accessed = s.accessed
    /\ u.snapshot = w.nextId + 1 /\ Len(u.revs) = 2 /\ u.revs[2].id = w.nextId + 1
    /\ t.from \in Addrs => u.objs[t.from].Balance = s.objs[t.from].Balance

\* The snapshot of the first frame is taken, and a new contract counts from one.
LEMMA FirstSnapshot ==
    ASSUME accts \in Ledgers, sumFee \in Nat, w.nextId \in Nat, Unused(accts),
           NEW t, Starts(t), NEW s, Entering(t, s)
    PROVE  Framed(t, s, Framing(t, s))
<1> DEFINE shot == Snapshot(s)
           u == Framing(t, s)
<1> u = IF t.to = ZeroAddress THEN SetNonce(shot, t.callee, 1) ELSE shot
    BY DEF Framing
<1> HIDE DEF shot, u
<1>1. shot \in Wrappers /\ Alive(accts, t, sumFee, shot) /\ OneMore(s, shot)
    BY AliveSnapshot, Zenon DEF Entering, Starts, shot
<1>2. SameBut(shot, u) /\ Alive(accts, t, sumFee, u) /\ SameBalances(shot, u)
  <2>1. CASE Creates(t)
      BY <1>1, <2>1, MadeIs, Zenon DEF Creates
  <2>2. CASE ~Creates(t)
    <3>1. u = shot
        BY <2>2 DEF Creates
    <3> QED BY <1>1, <3>1, ZenonT(60) DEF SameBut, SameBalances
  <2> QED BY <2>1, <2>2
<1>3. /\ shot.accessed = s.accessed /\ shot.objs = s.objs /\ shot.snapshot = w.nextId + 1
      /\ Len(shot.revs) = 2 /\ shot.revs[Len(shot.revs)].id = w.nextId + 1
    BY <1>1 DEF OneMore, Entering
<1> Framed(t, s, u)
    BY <1>2, <1>3, Zenon DEF SameBut, SameBalances, Framed
<1> QED BY DEF u

\* The sender has paid and its nonce is taken; it can pay the amount still.
LEMMA SenderReady ==
    ASSUME w \in Wrappers, w.revs = << >>, w.accessed = Nobody, accts \in Ledgers,
           sumFee \in Nat, Total(accts) + sumFee + w.burned = Supply,
           NEW t, Starts(t), accts[t.from].Balance >= t.gas + t.amount,
           NEW bought, bought = Paid(Prepared(t.from, t.to), t.from, t.gas),
           NEW u, u = TakeNonce(bought, t.from)
    PROVE  /\ Entering(t, u) /\ (t.to # ZeroAddress => t.to \in DOMAIN u.accessed)
           /\ u.objs[t.from].Balance \in Nat /\ t.amount <= u.objs[t.from].Balance
<1> DEFINE s == Prepared(t.from, t.to)
<1>1. /\ t.from \in Senders /\ t.from \in Addrs /\ t.gas \in Nat /\ t.amount \in Nat
      /\ t.to \in Addrs \union {ZeroAddress}
    BY EVMAssumption, ZenonT(60) DEF Starts, Txs
<1>2. bought = Paid(s, t.from, t.gas)
    OBVIOUS
<1>3. Begun(s, t.from, t.to)
    BY <1>1, PreparedIs
<1> HIDE DEF s
<1>4. HasPaid(s, t.from, t.gas, t.amount, bought)
    BY <1>1, <1>2, <1>3, BoughtIs, Zenon
<1>5. SameBut(s, u) /\ Alive(accts, t, sumFee, u) /\ SameBalances(bought, u)
    BY <1>3, <1>4, CountedIs, ZenonT(30)
<1>6. /\ u \in Wrappers /\ u.nextId = w.nextId + 1 /\ Len(u.revs) = 1
      /\ t.from \in DOMAIN u.accessed /\ (t.to # ZeroAddress => t.to \in DOMAIN u.accessed)
    BY <1>3, <1>5, Zenon DEF SameBut, Begun
<1>7. u.objs[t.from].Balance \in Nat
  <2>1. u.objs \in Objects
      BY <1>6, WrapperIs, Zenon
  <2> QED BY <1>1, <2>1, Zenon DEF Objects
<1>8. bought.objs[t.from].Balance >= t.amount /\ u.objs[t.from].Balance = bought.objs[t.from].Balance
    BY <1>1, <1>4, <1>5, ZenonT(60) DEF HasPaid, SameBalances
<1> QED BY <1>1, <1>5, <1>6, <1>7, <1>8, Zenon DEF Entering

\* The first frame of a transaction is the only one, and its snapshot the last.
LEMMA FirstFrame ==
    ASSUME NEW t, Starts(t), NEW u, Len(u.revs) = 2, u.revs[2].id = w.nextId + 1,
           t.callee \in DOMAIN u.accessed, u.accessed[t.callee] <= w.nextId + 1
    PROVE  FramesOK(t, u)
<1>1. Len(t.frames) = 1 /\ t.frames[1].addr = t.callee /\ t.frames[1].id = w.nextId + 1
    BY DEF Starts, Frame
<1>2. 2 \in 2 .. Len(u.revs)
    OBVIOUS
<1> QED BY <1>1, <1>2 DEF FramesOK

\* The first frame is entered: the transaction runs.
LEMMA EnterIs ==
    ASSUME w \in Wrappers, w.revs = << >>, w.accessed = Nobody,
           accts \in Ledgers, sumFee \in Nat, Total(accts) + sumFee + w.burned = Supply,
           Unused(accts),
           NEW t, Starts(t), accts[t.from].Balance >= t.gas + t.amount,
           NEW bought, bought = Paid(Prepared(t.from, t.to), t.from, t.gas),
           NEW u, u = Enter(bought, t)
    PROVE  u \in Wrappers /\ Running(accts, t, sumFee, u) /\ u.snapshot = w.nextId + 1
<1> DEFINE counted == TakeNonce(bought, t.from)
           listed == IF t.to = ZeroAddress
                     THEN AddAddressToAccessList(counted, accts, t.callee) ELSE counted
           made == Framing(t, listed)
<1>1. u = Transfer(made, t.from, t.callee, t.amount)
    BY ZenonT(30) DEF Enter, SetNonce, TakeNonce, Framing
<1> HIDE DEF counted, listed, made
<1>2. /\ t \in Txs /\ t.from \in Addrs /\ t.callee \in Addrs /\ t.amount \in Nat /\ w.nextId \in Nat
    BY EVMAssumption, WrapperIs, Zenon DEF Starts, Txs
<1>3. /\ Entering(t, counted) /\ (t.to # ZeroAddress => t.to \in DOMAIN counted.accessed)
      /\ counted.objs[t.from].Balance \in Nat /\ t.amount <= counted.objs[t.from].Balance
    BY SenderReady, Zenon DEF counted
<1>4. /\ Entering(t, listed) /\ t.callee \in DOMAIN listed.accessed
      /\ listed.objs[t.from].Balance = counted.objs[t.from].Balance
    BY <1>3, CalleeListed, Zenon DEF listed
<1>5. /\ made \in Wrappers /\ Alive(accts, t, sumFee, made) /\ made.accessed = listed.accessed
      /\ made.snapshot = w.nextId + 1 /\ Len(made.revs) = 2 /\ made.revs[2].id = w.nextId + 1
      /\ made.objs[t.from].Balance = listed.objs[t.from].Balance
  <2>1. Framed(t, listed, made)
      BY <1>2, <1>4, FirstSnapshot, Zenon DEF made
  <2> QED BY <1>2, <2>1, Zenon DEF Framed
<1>6. /\ SameBut(made, u) /\ \A b \in Addrs : u.objs[b].Nonce = made.objs[b].Nonce
      /\ Worth(accts, u.objs, u.accessed) = Worth(accts, made.objs, made.accessed)
  <2>1. t.from \in DOMAIN made.accessed /\ t.callee \in DOMAIN made.accessed
      BY <1>4, <1>5, Zenon DEF Entering
  <2>2. t.amount <= made.objs[t.from].Balance
      BY <1>3, <1>4, <1>5, ZenonT(60)
  <2>3. made \in Wrappers /\ t.from \in Addrs /\ t.callee \in Addrs /\ t.amount \in Nat
      BY <1>2, <1>5, ZenonT(60)
  <2>4. Moved(accts, made, u, t.from, t.callee)
      BY <1>1, <2>2, <2>3, TransferIs, ZenonT(60)
  <2> QED BY <2>1, <2>4, ZenonT(60) DEF Moved
<1>7. Alive(accts, t, sumFee, u)
    BY <1>2, <1>5, <1>6, AliveChanged, ZenonT(60)
<1>8. /\ u \in Wrappers /\ u.accessed = listed.accessed /\ u.revs = made.revs
      /\ u.snapshot = w.nextId + 1
    BY <1>5, <1>6, Zenon DEF SameBut
<1>9. FramesOK(t, u)
  <2>1. listed.accessed[t.callee] <= w.nextId + 1
      BY <1>4, ZenonT(60) DEF Entering, Alive, Ordered
  <2> QED BY <1>2, <1>4, <1>5, <1>8, <2>1, FirstFrame, ZenonT(60)
<1>10. t.before.accts = accts /\ t.before.burned = w.burned
    BY DEF Starts
<1>11. Creates(t) => /\ <<t.from, accts[t.from].Nonce>> \in DOMAIN CreateAddress
                     /\ t.callee = CreateAddress[<<t.from, accts[t.from].Nonce>>]
    BY ZenonT(60) DEF Starts
<1>12. Total(accts) + sumFee + w.burned = Supply
    OBVIOUS
<1>13. Running(accts, t, sumFee, u)
    BY ONLY <1>7, <1>9, <1>10, <1>11, <1>12, ZenonT(60) DEF Running
<1> QED BY ONLY <1>8, <1>13, Zenon
=============================================================================
