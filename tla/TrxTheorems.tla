---------------------------- MODULE TrxTheorems ----------------------------
(***************************************************************************)
(* What the operators of Trx and TrxExecutor do, for any set of addresses, *)
(* amounts, payloads and chains.                                           *)
(*                                                                         *)
(* First the encodings: what a client signs is what the node computes from *)
(* the message it decodes.  Then the accounts: what a transaction, valid   *)
(* or not, does to balances, nonces and the accounts there are.  Last the  *)
(* count of the transactions of a sender.                                  *)
(***************************************************************************)
EXTENDS TrxExecutor, FoldTheorems

-----------------------------------------------------------------------------
(* Amounts and their bytes. *)

Digits == 0 .. Base - 1
Amount == 0 .. Word - 1

\* Division by the base splits off the last digit.
LEMMA DivMod ==
    ASSUME NEW n \in Nat, n > 0
    PROVE  /\ n \div Base \in 0 .. n - 1 /\ n % Base \in Digits
           /\ (n \div Base) * Base + (n % Base) = n
    BY TrxAssumption DEF Digits

IsBytes(k, g) ==
    \A n \in 0 .. k : g[n] = IF n = 0 THEN << >> ELSE Append(g[n \div Base], n % Base)

\* The recursion of Bytes has a solution up to every number.
LEMMA BytesExists == \A k \in Nat : \E g \in [0 .. k -> Seq(Digits)] : IsBytes(k, g)
<1> DEFINE Good == {k \in Nat : \E g \in [0 .. k -> Seq(Digits)] : IsBytes(k, g)}
<1>1. ASSUME NEW k \in Nat, \A m \in 0 .. k - 1 : m \in Good PROVE k \in Good
  <2>1. CASE k = 0
    <3> DEFINE g == [n \in 0 .. k |-> << >>]
    <3>1. g \in [0 .. k -> Seq(Digits)] /\ IsBytes(k, g)
        BY <2>1 DEF IsBytes
    <3> QED BY <3>1
  <2>2. CASE k > 0
    <3>1. PICK g \in [0 .. k - 1 -> Seq(Digits)] : IsBytes(k - 1, g)
        BY <1>1, <2>2
    <3> DEFINE last == Append(g[k \div Base], k % Base)
               h == [n \in 0 .. k |-> IF n = k THEN last ELSE g[n]]
    <3>2. k \div Base \in 0 .. k - 1 /\ k % Base \in Digits
        BY <2>2, DivMod
    <3>3. last \in Seq(Digits)
        BY <3>2
    <3> HIDE DEF last
    <3>4. h \in [0 .. k -> Seq(Digits)]
        BY <3>3
    <3>5. ASSUME NEW n \in 0 .. k
          PROVE  h[n] = IF n = 0 THEN << >> ELSE Append(h[n \div Base], n % Base)
      <4>1. CASE n = k
          BY <2>2, <3>2, <4>1 DEF last
      <4>2. CASE n = 0
          BY <2>2, <3>1, <4>2 DEF IsBytes
      <4>3. CASE n # k /\ n # 0
        <5>1. n \in 0 .. k - 1 /\ n \div Base \in 0 .. n - 1
            BY <4>3, DivMod
        <5>2. g[n] = Append(g[n \div Base], n % Base)
            BY <3>1, <4>3, <5>1, ZenonT(30) DEF IsBytes
        <5>3. h[n] = g[n] /\ h[n \div Base] = g[n \div Base]
            BY <4>3, <5>1
        <5> QED BY <4>3, <5>2, <5>3, ZenonT(30)
      <4> QED BY <4>1, <4>2, <4>3
    <3> HIDE DEF h
    <3> QED BY <3>4, <3>5, ZenonT(30) DEF IsBytes
  <2> QED BY <2>1, <2>2
<1>2. \A k \in Nat : k \in Good
  <2> HIDE DEF Good
  <2> QED BY <1>1, NatInductionFor
<1> QED BY <1>2, ZenonT(30)

\* Bytes is what its definition says.
LEMMA BytesIs ==
    ASSUME NEW n \in Amount
    PROVE  Bytes[n] = IF n = 0 THEN << >> ELSE Append(Bytes[n \div Base], n % Base)
<1> DEFINE Is(g) == g = [k \in 0 .. Word - 1 |->
                            IF k = 0 THEN << >> ELSE Append(g[k \div Base], k % Base)]
<1>0. Word - 1 \in Nat
    BY TrxAssumption DEF Amount
<1>1. PICK g \in [0 .. Word - 1 -> Seq(Digits)] : IsBytes(Word - 1, g)
    BY <1>0, BytesExists
<1>2. Is(g)
  <2> DEFINE at(k) == IF k = 0 THEN << >> ELSE Append(g[k \div Base], k % Base)
  <2>1. \A k \in 0 .. Word - 1 : g[k] = at(k)
      BY <1>1 DEF IsBytes
  <2>2. g = [k \in 0 .. Word - 1 |-> at(k)]
    <3> HIDE DEF at
    <3> QED BY <2>1
  <2> QED BY <2>2, Zenon
<1>3. Bytes = CHOOSE h : Is(h)
    BY DEF Bytes
<1>4. Is(Bytes)
  <2> HIDE DEF Is
  <2> QED BY <1>2, <1>3
<1> QED BY <1>4, ZenonT(30) DEF Amount

\* The bytes of an amount are digits.
LEMMA BytesType == \A n \in Amount : Bytes[n] \in Seq(Digits)
<1> DEFINE Good == {n \in Nat : n \in Amount => Bytes[n] \in Seq(Digits)}
<1>1. ASSUME NEW n \in Nat, \A m \in 0 .. n - 1 : m \in Good PROVE n \in Good
  <2> SUFFICES ASSUME n \in Amount PROVE Bytes[n] \in Seq(Digits)
      OBVIOUS
  <2>1. CASE n = 0
    <3>1. Bytes[n] = << >>
        BY <2>1, BytesIs
    <3> QED BY <3>1
  <2>2. CASE n # 0
    <3>1. n \div Base \in 0 .. n - 1 /\ n % Base \in Digits
        BY <2>2, DivMod
    <3>2. n \div Base \in Amount
        BY <3>1, TrxAssumption DEF Amount
    <3>3. Bytes[n \div Base] \in Seq(Digits)
        BY <1>1, <3>1, <3>2
    <3>4. Bytes[n] = Append(Bytes[n \div Base], n % Base)
        BY <2>2, BytesIs, ZenonT(30)
    <3> QED BY <3>1, <3>3, <3>4
  <2> QED BY <2>1, <2>2
<1>2. \A n \in Nat : n \in Good
  <2> HIDE DEF Good
  <2> QED BY <1>1, NatInductionFor
<1> QED BY <1>2 DEF Amount

\* What SetBytes computes over the positions of bz.
IsSetBytes(bz, g) ==
    g = [t \in SUBSET DOMAIN bz |->
            IF t = {} THEN 0 ELSE (g[t \ {Largest(t)}] * Base + bz[Largest(t)]) % Word]

\* SetBytes as the choice of a function on sets of positions.
LEMMA SetBytesUnfolds ==
    ASSUME NEW bz PROVE SetBytes(bz) = (CHOOSE g : IsSetBytes(bz, g))[DOMAIN bz]
    BY DEF SetBytes, IsSetBytes, Largest, FoldLeft, Fold!MapThenFoldSet

Shift == [p \in Digits \X Amount |-> (p[2] * Base + p[1]) % Word]

\* The word is not empty.
LEMMA WordType == Word \in Nat /\ Word > 0
    BY TrxAssumption

\* What is left modulo the word is an amount.
LEMMA ModType == ASSUME NEW n \in Int PROVE n % Word \in Amount
    BY WordType DEF Amount

\* Shifting a digit into an amount gives an amount.
LEMMA ShiftType == Shift \in [Digits \X Amount -> Amount] /\ 0 \in Amount
<1>1. ASSUME NEW p \in Digits \X Amount PROVE (p[2] * Base + p[1]) % Word \in Amount
  <2>1. p[2] * Base + p[1] \in Int
      BY TrxAssumption DEF Digits, Amount
  <2> QED BY <2>1, ModType
<1>2. 0 \in Amount
    BY WordType DEF Amount
<1> QED BY <1>1, <1>2 DEF Shift

\* The recursion of SetBytes has a solution on every string of digits.
LEMMA SetBytesExists ==
    ASSUME NEW bz \in Seq(Digits)
    PROVE  \E g \in [SUBSET DOMAIN bz -> Amount] : IsSetBytes(bz, g) /\ FoldsTo(Len(bz), 0, Shift, bz, g)
<1> DEFINE n == Len(bz)
<1>1. n \in Nat /\ DOMAIN bz = 1 .. n /\ \A i \in 1 .. n : bz[i] \in Digits
    OBVIOUS
<1> HIDE DEF n
<1>2. PICK g \in [SUBSET (1 .. n) -> Amount] : FoldsTo(n, 0, Shift, bz, g)
    BY <1>1, ShiftType, FoldToExists, ZenonT(30)
<1>3. ASSUME NEW t \in SUBSET (1 .. n), t # {}
      PROVE  g[t] = (g[t \ {Largest(t)}] * Base + bz[Largest(t)]) % Word
  <2>1. Largest(t) \in t
      BY <1>1, <1>3, TopIs, ZenonT(30)
  <2>2. <<bz[Largest(t)], g[t \ {Largest(t)}]>> \in Digits \X Amount
      BY <1>1, <2>1, ZenonT(30)
  <2>3. g[t] = Shift[<<bz[Largest(t)], g[t \ {Largest(t)}]>>]
      BY <1>2, <1>3, ZenonT(30) DEF FoldsTo
  <2> QED BY <2>2, <2>3 DEF Shift
<1>4. g[{}] = 0
    BY <1>2, ZenonT(30) DEF FoldsTo
<1>5. IsSetBytes(bz, g)
    BY <1>1, <1>3, <1>4, ZenonT(30) DEF IsSetBytes
<1> QED BY <1>1, <1>2, <1>5 DEF n

\* Such a solution, at one set of positions.
LEMMA SetBytesAt ==
    ASSUME NEW bz, NEW g, IsSetBytes(bz, g), NEW t \in SUBSET DOMAIN bz
    PROVE  g[t] = IF t = {} THEN 0 ELSE (g[t \ {Largest(t)}] * Base + bz[Largest(t)]) % Word
<1>1. g[t] = [s \in SUBSET DOMAIN bz |->
                IF s = {} THEN 0 ELSE (g[s \ {Largest(s)}] * Base + bz[Largest(s)]) % Word][t]
    BY ZenonT(30) DEF IsSetBytes
<1> QED BY <1>1

\* SetBytes shifts in one digit after the other.
LEMMA SetBytesFolds ==
    ASSUME NEW bz \in Seq(Digits)
    PROVE  \E g : /\ FoldsTo(Len(bz), 0, Shift, bz, g)
                  /\ SetBytes(bz) = g[1 .. Len(bz)] /\ SetBytes(bz) \in Amount
<1> DEFINE S == DOMAIN bz
           h == CHOOSE k : IsSetBytes(bz, k)
<1>1. PICK g \in [SUBSET S -> Amount] : IsSetBytes(bz, g) /\ FoldsTo(Len(bz), 0, Shift, bz, g)
    BY SetBytesExists, ZenonT(30)
<1>2. IsSetBytes(bz, h) /\ SetBytes(bz) = h[S]
    BY <1>1, SetBytesUnfolds
<1> HIDE DEF h
<1>3. S = 1 .. Len(bz) /\ Len(bz) \in Nat /\ IsFiniteSet(S)
    BY FinitePositions
<1> DEFINE Same == {s \in SUBSET S : h[s] = g[s]}
<1>4. ASSUME NEW s \in SUBSET S, \A t \in SUBSET s : t # s => t \in Same PROVE s \in Same
  <2>1. CASE s = {}
      BY <1>1, <1>2, <2>1, SetBytesAt, ZenonT(30)
  <2>2. CASE s # {}
    <3> DEFINE t == s \ {Largest(s)}
    <3>1. Largest(s) \in s
        BY <1>3, <2>2, TopIs, ZenonT(30)
    <3>2. h[t] = g[t]
        BY <1>4, <3>1
    <3>3. h[s] = (h[t] * Base + bz[Largest(s)]) % Word
        BY <1>2, <2>2, SetBytesAt, ZenonT(30)
    <3>4. g[s] = (g[t] * Base + bz[Largest(s)]) % Word
        BY <1>1, <2>2, SetBytesAt
    <3> QED BY <3>2, <3>3, <3>4
  <2> QED BY <2>1, <2>2
<1>5. \A s \in SUBSET S : s \in Same
  <2>1. IsFiniteSet(S)
      BY <1>3
  <2> HIDE DEF S, Same
  <2> QED BY ONLY <1>4, <2>1, SubsetInduction
<1>6. h[S] = g[S] /\ g[S] \in Amount
    BY <1>5
<1> QED BY <1>1, <1>2, <1>3, <1>6

\* One more digit is one more shift.
LEMMA SetBytesAppend ==
    ASSUME NEW bz \in Seq(Digits), NEW d \in Digits
    PROVE  SetBytes(Append(bz, d)) = (SetBytes(bz) * Base + d) % Word
<1> DEFINE n == Len(bz)
           bz1 == Append(bz, d)
<1>1. bz1 \in Seq(Digits) /\ n \in Nat /\ Len(bz1) = n + 1 /\ bz1[n + 1] = d
    OBVIOUS
<1>2. \A i \in 1 .. n : bz[i] = bz1[i]
    OBVIOUS
<1> HIDE DEF n, bz1
<1>3. PICK g : FoldsTo(n, 0, Shift, bz, g) /\ SetBytes(bz) = g[1 .. n] /\ SetBytes(bz) \in Amount
    BY SetBytesFolds DEF n
<1>4. PICK h : FoldsTo(n + 1, 0, Shift, bz1, h) /\ SetBytes(bz1) = h[1 .. n + 1]
    BY <1>1, SetBytesFolds
<1>5. h[1 .. n + 1] = Shift[<<bz1[n + 1], g[1 .. n]>>]
  <2>1. n \in Nat /\ FoldsTo(n, 0, Shift, bz, g) /\ FoldsTo(n + 1, 0, Shift, bz1, h)
      BY <1>1, <1>3, <1>4
  <2> DEFINE m == n + 1
  <2>2. m = n + 1 /\ FoldsTo(m, 0, Shift, bz1, h)
      BY <2>1
  <2> HIDE DEF m
  <2>3. h[1 .. m] = Shift[<<bz1[m], g[1 .. n]>>]
      BY ONLY <1>2, <2>1, <2>2, FoldToStep
  <2> QED BY <2>3 DEF m
<1>6. SetBytes(bz1) = Shift[<<d, SetBytes(bz)>>]
    BY <1>1, <1>3, <1>4, <1>5
<1> QED BY <1>3, <1>6 DEF Shift, bz1

\* An amount survives its bytes.
LEMMA SetBytesOfBytes == \A n \in Amount : SetBytes(Bytes[n]) = n
<1> DEFINE Good == {n \in Nat : n \in Amount => SetBytes(Bytes[n]) = n}
<1>1. ASSUME NEW n \in Nat, \A m \in 0 .. n - 1 : m \in Good PROVE n \in Good
  <2> SUFFICES ASSUME n \in Amount PROVE SetBytes(Bytes[n]) = n
      OBVIOUS
  <2>1. CASE n = 0
    <3>1. Bytes[n] = << >> /\ << >> \in Seq(Digits) /\ Len(<< >>) = 0
        BY <2>1, BytesIs
    <3>2. PICK g : FoldsTo(0, 0, Shift, << >>, g) /\ SetBytes(<< >>) = g[1 .. 0]
        BY <3>1, SetBytesFolds, ZenonT(30)
    <3>3. 1 .. 0 = {}
        OBVIOUS
    <3>4. g[{}] = 0
        BY <3>2, ZenonT(30) DEF FoldsTo
    <3> QED BY <2>1, <3>1, <3>2, <3>3, <3>4
  <2>2. CASE n # 0
    <3> DEFINE q == n \div Base
               r == n % Base
    <3>1. q \in 0 .. n - 1 /\ r \in Digits /\ q * Base + r = n
        BY <2>2, DivMod
    <3>2. Bytes[n] = Append(Bytes[q], r)
        BY <2>2, BytesIs, ZenonT(30)
    <3> HIDE DEF q, r
    <3>3. q \in Amount
        BY <3>1, WordType DEF Amount
    <3>4. SetBytes(Bytes[q]) = q /\ Bytes[q] \in Seq(Digits)
        BY <1>1, <3>1, <3>3, BytesType
    <3>5. SetBytes(Bytes[n]) = (q * Base + r) % Word
        BY <3>1, <3>2, <3>4, SetBytesAppend
    <3>6. n % Word = n
        BY WordType DEF Amount
    <3> QED BY <3>1, <3>5, <3>6
  <2> QED BY <2>1, <2>2
<1>2. \A n \in Nat : n \in Good
  <2> HIDE DEF Good
  <2> QED BY <1>1, NatInductionFor
<1> QED BY <1>2 DEF Amount

-----------------------------------------------------------------------------
(* Payloads and transactions survive both encodings. *)

IsCodec(c) ==
    /\ 1 \in DOMAIN c.zero /\ c.ints \subseteq DOMAIN c.zero /\ c.amounts \subseteq DOMAIN c.zero
    /\ c.ints \intersect c.amounts = {}

\* Every payload type has a codec.
LEMMA CodecOf ==
    ASSUME NEW type \in PayloadTypes PROVE IsCodec(Codec(type)) /\ ~NoPayload(type)
<1>1. /\ TRX_UNSTAKING # TRX_PROPOSAL /\ TRX_UNSTAKING # TRX_VOTING
      /\ TRX_UNSTAKING # TRX_CONTRACT /\ TRX_UNSTAKING # TRX_SETDOC
      /\ TRX_UNSTAKING # TRX_WITHDRAW /\ TRX_PROPOSAL # TRX_VOTING
      /\ TRX_PROPOSAL # TRX_CONTRACT /\ TRX_PROPOSAL # TRX_SETDOC
      /\ TRX_PROPOSAL # TRX_WITHDRAW /\ TRX_VOTING # TRX_CONTRACT
      /\ TRX_VOTING # TRX_SETDOC /\ TRX_VOTING # TRX_WITHDRAW
      /\ TRX_CONTRACT # TRX_SETDOC /\ TRX_CONTRACT # TRX_WITHDRAW /\ TRX_SETDOC # TRX_WITHDRAW
    BY DEF TRX_UNSTAKING, TRX_PROPOSAL, TRX_VOTING, TRX_CONTRACT, TRX_SETDOC, TRX_WITHDRAW
<1>2. type \in {TRX_UNSTAKING, TRX_PROPOSAL, TRX_VOTING, TRX_CONTRACT, TRX_SETDOC, TRX_WITHDRAW}
    BY DEF PayloadTypes, TRX_UNSTAKING, TRX_PROPOSAL, TRX_VOTING, TRX_CONTRACT, TRX_SETDOC,
           TRX_WITHDRAW
<1>3. /\ type = TRX_UNSTAKING => Codec(type) = TrxPayloadUnstaking
      /\ type = TRX_PROPOSAL => Codec(type) = TrxPayloadProposal
      /\ type = TRX_VOTING => Codec(type) = TrxPayloadVoting
      /\ type = TRX_CONTRACT => Codec(type) = TrxPayloadContract
      /\ type = TRX_SETDOC => Codec(type) = TrxPayloadSetDoc
      /\ type = TRX_WITHDRAW => Codec(type) = TrxPayloadWithdraw
    BY <1>1, Zenon DEF Codec
<1>4. /\ IsCodec(TrxPayloadUnstaking) /\ IsCodec(TrxPayloadProposal) /\ IsCodec(TrxPayloadVoting)
      /\ IsCodec(TrxPayloadContract) /\ IsCodec(TrxPayloadSetDoc) /\ IsCodec(TrxPayloadWithdraw)
    BY DEF IsCodec, TrxPayloadUnstaking, TrxPayloadProposal, TrxPayloadVoting,
           TrxPayloadContract, TrxPayloadSetDoc, TrxPayloadWithdraw
<1>5. ~NoPayload(type)
    BY DEF NoPayload, PayloadTypes, TRX_TRANSFER, TRX_STAKING, TRX_UNSTAKING, TRX_WITHDRAW
<1> QED BY <1>2, <1>3, <1>4, <1>5

\* A signed integer survives its unsigned form in RLP.
LEMMA SignedOfUnsigned ==
    ASSUME NEW i \in -(IntValues \div 2) .. (IntValues \div 2) - 1
    PROVE  Signed(Unsigned(i)) = i
<1>1. CASE i >= 0
  <2>1. i % IntValues = i
      BY <1>1, TrxAssumption
  <2> QED BY <1>1, <2>1, TrxAssumption DEF Signed, Unsigned
<1>2. CASE i < 0
  <2>1. i % IntValues = i + IntValues
      BY <1>2, TrxAssumption
  <2> QED BY <1>2, <2>1, TrxAssumption DEF Signed, Unsigned
<1> QED BY <1>1, <1>2

\* The amounts among the fields of a payload survive their bytes.
LEMMA AmountsSurvive ==
    ASSUME NEW type \in PayloadTypes, NEW fields, IsPayload(type, fields)
    PROVE  BytesToAmount(type, AmountToBytes(type, fields)) = fields
<1> DEFINE c == Codec(type)
           bz == AmountToBytes(type, fields)
<1>1. \A i \in c.amounts : fields[i] \in Amount
    BY DEF IsPayload, Amount
<1>2. DOMAIN bz = DOMAIN fields /\ \A i \in DOMAIN fields :
            bz[i] = IF i \in c.amounts THEN Bytes[fields[i]] ELSE fields[i]
    BY DEF AmountToBytes
<1>3. \A i \in DOMAIN fields : (IF i \in c.amounts THEN SetBytes(bz[i]) ELSE bz[i]) = fields[i]
    BY <1>1, <1>2, SetBytesOfBytes
<1>4. BytesToAmount(type, bz) = [i \in DOMAIN fields |-> fields[i]]
    BY <1>2, <1>3 DEF BytesToAmount
<1> QED BY <1>4 DEF IsPayload

\* So do the signed integers, through RLP.
LEMMA IntsSurvive ==
    ASSUME NEW type \in PayloadTypes, NEW fields, IsPayload(type, fields)
    PROVE  UnsignedToInts(type, IntsToUnsigned(type, AmountToBytes(type, fields)))
           = AmountToBytes(type, fields)
<1> DEFINE c == Codec(type)
           bz == AmountToBytes(type, fields)
           us == IntsToUnsigned(type, bz)
<1>1. c.ints \intersect c.amounts = {}
    BY CodecOf DEF IsCodec
<1>2. DOMAIN bz = DOMAIN fields /\ \A i \in DOMAIN fields :
            bz[i] = IF i \in c.amounts THEN Bytes[fields[i]] ELSE fields[i]
    BY DEF AmountToBytes
<1>3. bz = [i \in DOMAIN fields |-> bz[i]]
    BY DEF AmountToBytes
<1>4. DOMAIN us = DOMAIN fields /\ \A i \in DOMAIN fields :
            us[i] = IF i \in c.ints THEN Unsigned(bz[i]) ELSE bz[i]
    BY <1>2 DEF IntsToUnsigned
<1>5. \A i \in c.ints : fields[i] \in -(IntValues \div 2) .. (IntValues \div 2) - 1
    BY DEF IsPayload
<1> HIDE DEF c, bz, us
<1>6. ASSUME NEW i \in DOMAIN fields
      PROVE  (IF i \in c.ints THEN Signed(us[i]) ELSE us[i]) = bz[i]
  <2>1. CASE i \in c.ints
    <3>1. us[i] = Unsigned(fields[i]) /\ bz[i] = fields[i]
        BY <1>1, <1>2, <1>4, <2>1
    <3> QED BY <1>5, <2>1, <3>1, SignedOfUnsigned
  <2>2. CASE i \notin c.ints
      BY <1>4, <2>2
  <2> QED BY <2>1, <2>2
<1>7. UnsignedToInts(type, us) = [i \in DOMAIN fields |-> bz[i]]
    BY <1>4, <1>6 DEF UnsignedToInts, c
<1> QED BY <1>3, <1>7 DEF bz, us

\* A payload survives both encodings.
LEMMA PayloadSurvives ==
    ASSUME NEW type \in PayloadTypes, NEW fields, IsPayload(type, fields)
    PROVE  /\ DecodePayload(type, EncodePayload(type, fields)) = fields
           /\ DecodePayloadRLP(type, EncodePayloadRLP(type, fields)) = fields
<1> DEFINE c == Codec(type)
           bz == AmountToBytes(type, fields)
<1>1. BytesToAmount(type, bz) = fields
    BY AmountsSurvive
<1>2. bz # << >>
  <2>1. 1 \in DOMAIN bz
      BY CodecOf DEF AmountToBytes, IsPayload, IsCodec
  <2> QED BY <2>1
<1>3. ~NoPayload(type)
    BY CodecOf
<1>4. UnsignedToInts(type, IntsToUnsigned(type, bz)) = bz
    BY IntsSurvive
<1> HIDE DEF bz
<1>5. DecodePayload(type, EncodePayload(type, fields)) = fields
    BY <1>1, <1>2, <1>3 DEF DecodePayload, EncodePayload, bz
<1>6. DecodePayloadRLP(type, EncodePayloadRLP(type, fields)) = fields
    BY <1>1, <1>3, <1>4 DEF DecodePayloadRLP, EncodePayloadRLP, bz
<1> QED BY <1>5, <1>6

\* The payloads of transfers, and of the transactions that have one.
Fits(type, fields) ==
    \/ type = TRX_TRANSFER /\ fields = << >>
    \/ type \in PayloadTypes /\ IsPayload(type, fields)

\* A draft of a client has the fields of its Go types.
LEMMA DraftIs ==
    ASSUME NEW draft \in Drafts
    PROVE  \E from \in Addrs, to \in Addrs, nonce \in Nat, amt \in Amount : \E type, fields :
              draft = NewTrx(from, to, nonce, amt, type, fields) /\ Fits(type, fields)
<1>1. CASE \E from \in Senders, to \in Receivers, nonce \in Nonces, amt \in Amounts :
              draft = NewTrx(from, to, nonce, amt, TRX_TRANSFER, << >>)
  <2>1. PICK from \in Senders, to \in Receivers, nonce \in Nonces, amt \in Amounts :
              draft = NewTrx(from, to, nonce, amt, TRX_TRANSFER, << >>)
      BY <1>1
  <2>2. from \in Addrs /\ to \in Addrs /\ nonce \in Nat /\ amt \in Amount
      BY ExecutorAssumption DEF Amount
  <2>3. Fits(TRX_TRANSFER, << >>)
      BY DEF Fits
  <2> QED BY <2>1, <2>2, <2>3
<1>2. CASE \E from \in Senders, nonce \in Nonces, p \in Payloads :
              draft = NewTrx(from, IF p[1] = TRX_WITHDRAW THEN from ELSE ZeroAddress, nonce, 0, p[1], p[2])
  <2>1. PICK from \in Senders, nonce \in Nonces, p \in Payloads :
              draft = NewTrx(from, IF p[1] = TRX_WITHDRAW THEN from ELSE ZeroAddress, nonce, 0, p[1], p[2])
      BY <1>2
  <2> DEFINE to == IF p[1] = TRX_WITHDRAW THEN from ELSE ZeroAddress
  <2>2. from \in Addrs /\ to \in Addrs /\ nonce \in Nat /\ 0 \in Amount
      BY ExecutorAssumption, ShiftType
  <2>3. Fits(p[1], p[2])
      BY PayloadAssumption DEF Fits
  <2> HIDE DEF to
  <2> QED BY <2>1, <2>2, <2>3 DEF to
<1> QED BY <1>1, <1>2 DEF Drafts

\* What the node decodes of the transaction a client made and signed.
Decoded(from, to, nonce, amt, type, fields, chain) ==
    [From |-> from, To |-> to, Nonce |-> nonce, Amount |-> amt, Type |-> type,
     Payload |-> IF NoPayload(type) THEN Nil ELSE fields,
     Sig |-> [key |-> from,
              preimg |-> <<chain, EncodeRLP(NewTrx(from, to, nonce, amt, type, fields))>>]]

\* What fromProto makes of a draft that was signed and sent.
LEMMA DecodedIs ==
    ASSUME NEW from, NEW to, NEW nonce, NEW amt \in Amount, NEW type, NEW fields, NEW chain,
           Fits(type, fields)
    PROVE  fromProto(toProto(SignTrxRLP(from, NewTrx(from, to, nonce, amt, type, fields), chain)))
           = Decoded(from, to, nonce, amt, type, fields, chain)
<1> DEFINE draft == NewTrx(from, to, nonce, amt, type, fields)
           sig == [key |-> from, preimg |-> <<chain, EncodeRLP(draft)>>]
           wire == IF fields = Nil THEN << >> ELSE EncodePayload(type, fields)
<1>1. WithSig(draft, Nil) = draft
    BY DEF NewTrx, WithSig
<1>2. SignTrxRLP(from, draft, chain)
      = [From |-> from, To |-> to, Nonce |-> nonce, Amount |-> amt, Type |-> type,
         Payload |-> fields, Sig |-> sig]
  <2>1. SignTrxRLP(from, draft, chain) = WithSig(draft, sig)
      BY <1>1 DEF SignTrxRLP, Sign, PreImageToSignTrxRLP
  <2> HIDE DEF sig
  <2> QED BY <2>1 DEF WithSig, NewTrx
<1> HIDE DEF sig
<1>3. toProto(SignTrxRLP(from, draft, chain))
      = [From |-> from, To |-> to, Nonce |-> nonce, Amount |-> Bytes[amt], Type |-> type,
         Payload |-> wire, Sig |-> sig]
    BY <1>2 DEF toProto, WithData
<1>4. (IF NoPayload(type) THEN Nil ELSE DecodePayload(type, wire))
      = IF NoPayload(type) THEN Nil ELSE fields
  <2>1. CASE NoPayload(type)
      BY <2>1
  <2>2. CASE type \in PayloadTypes /\ IsPayload(type, fields)
    <3>1. fields # Nil
        BY <2>2 DEF IsPayload
    <3> QED BY <2>2, <3>1, PayloadSurvives
  <2> QED BY <2>1, <2>2 DEF Fits, NoPayload
<1> HIDE DEF wire
<1>5. SetBytes(Bytes[amt]) = amt
    BY SetBytesOfBytes
<1>6. fromProto(toProto(SignTrxRLP(from, draft, chain)))
      = [From |-> from, To |-> to, Nonce |-> nonce, Amount |-> amt, Type |-> type,
         Payload |-> IF NoPayload(type) THEN Nil ELSE fields, Sig |-> sig]
    BY <1>3, <1>4, <1>5 DEF fromProto, WithData
<1> QED BY <1>6 DEF Decoded, sig

\* What fromProto makes of any message of a client.
LEMMA MessageIs ==
    ASSUME NEW m \in Messages
    PROVE  \E from \in Addrs, to \in Addrs, nonce \in Nat, amt \in Amount, chain \in ChainIds :
              \E type, fields :
                /\ fromProto(m) = Decoded(from, to, nonce, amt, type, fields, chain)
                /\ Fits(type, fields)
<1>1. PICK draft \in Drafts, chain \in ChainIds : m = toProto(SignTrxRLP(draft.From, draft, chain))
    BY DEF Messages
<1>2. PICK from \in Addrs, to \in Addrs, nonce \in Nat, amt \in Amount : \E type, fields :
              draft = NewTrx(from, to, nonce, amt, type, fields) /\ Fits(type, fields)
    BY DraftIs
<1>3. PICK type, fields :
              draft = NewTrx(from, to, nonce, amt, type, fields) /\ Fits(type, fields)
    BY <1>2
<1>4. draft.From = from
    BY <1>3 DEF NewTrx
<1>5. fromProto(m) = Decoded(from, to, nonce, amt, type, fields, chain)
    BY <1>1, <1>3, <1>4, DecodedIs
<1> QED BY <1>3, <1>5

\* What is signed can be computed from what is decoded, and decodes to it.
LEMMA PreImageSurvives ==
    ASSUME NEW from, NEW to, NEW nonce, NEW amt \in Amount, NEW type, NEW fields, NEW chain,
           Fits(type, fields), NEW tx, tx = Decoded(from, to, nonce, amt, type, fields, chain)
    PROVE  /\ tx.Sig.preimg = PreImageToSignTrxRLP(tx, chain)
           /\ DecodeRLP(EncodeRLP(WithSig(tx, Nil))) = WithSig(tx, Nil)
<1> DEFINE draft == NewTrx(from, to, nonce, amt, type, fields)
           bare == [From |-> from, To |-> to, Nonce |-> nonce, Amount |-> amt, Type |-> type,
                    Payload |-> IF NoPayload(type) THEN Nil ELSE fields, Sig |-> Nil]
           code == IF NoPayload(type) THEN << >> ELSE EncodePayloadRLP(type, fields)
           rlp == [From |-> from, To |-> to, Nonce |-> nonce, Amount |-> Bytes[amt], Type |-> type,
                   Payload |-> code, Sig |-> Nil]
<1>1. WithSig(tx, Nil) = bare
    BY DEF Decoded, WithSig
<1>2. (IF fields = Nil THEN << >> ELSE EncodePayloadRLP(type, fields)) = code
  <2>1. CASE NoPayload(type)
      BY <2>1 DEF EncodePayloadRLP
  <2>2. CASE ~NoPayload(type)
    <3>1. fields # Nil
        BY <2>2 DEF Fits, IsPayload, NoPayload
    <3> QED BY <2>2, <3>1
  <2> QED BY <2>1, <2>2
<1>3. (IF (IF NoPayload(type) THEN Nil ELSE fields) = Nil THEN << >>
       ELSE EncodePayloadRLP(type, IF NoPayload(type) THEN Nil ELSE fields)) = code
    BY <1>2
<1>4. EncodeRLP(draft) = rlp
    BY <1>2 DEF EncodeRLP, WithData, NewTrx
<1>5. EncodeRLP(bare) = rlp
    BY <1>3 DEF EncodeRLP, WithData
<1>6. (IF code = << >> THEN Nil ELSE DecodePayloadRLP(type, code))
      = IF NoPayload(type) THEN Nil ELSE fields
  <2>1. CASE NoPayload(type)
      BY <2>1
  <2>2. CASE ~NoPayload(type)
    <3>1. type \in PayloadTypes /\ IsPayload(type, fields)
        BY <2>2 DEF Fits, NoPayload
    <3>2. code # << >>
        BY <2>2 DEF EncodePayloadRLP
    <3> QED BY <2>2, <3>1, <3>2, PayloadSurvives
  <2> QED BY <2>1, <2>2
<1>7. SetBytes(Bytes[amt]) = amt
    BY SetBytesOfBytes
<1> HIDE DEF code
<1>8. DecodeRLP(rlp) = bare
    BY <1>6, <1>7 DEF DecodeRLP, WithData
<1>9. tx.Sig.preimg = <<chain, EncodeRLP(draft)>>
    BY DEF Decoded
<1> QED BY <1>1, <1>4, <1>5, <1>8, <1>9 DEF PreImageToSignTrxRLP

\* The node verifies what a client has signed for its chain, and decodes the bytes that
\* were signed to the transaction they are compared with.
LEMMA MessageVerifies ==
    ASSUME NEW m \in Messages, NEW tx, tx = fromProto(m)
    PROVE  /\ \A chain : tx.Sig.preimg[1] = chain => VerifyTrxRLP(tx, chain)
           /\ DecodeRLP(EncodeRLP(WithSig(tx, Nil))) = WithSig(tx, Nil)
<1>1. PICK from \in Addrs, to \in Addrs, nonce \in Nat, amt \in Amount, chain \in ChainIds :
          \E type, fields :
              /\ tx = Decoded(from, to, nonce, amt, type, fields, chain)
              /\ Fits(type, fields)
    BY MessageIs
<1>2. PICK type, fields :
          /\ tx = Decoded(from, to, nonce, amt, type, fields, chain)
          /\ Fits(type, fields)
    BY <1>1
<1>3. /\ DecodeRLP(EncodeRLP(WithSig(tx, Nil))) = WithSig(tx, Nil)
      /\ tx.Sig.preimg = PreImageToSignTrxRLP(tx, chain)
    BY <1>2, PreImageSurvives
<1>4. tx.Sig.preimg[1] = chain
    BY <1>3 DEF PreImageToSignTrxRLP
<1>5. tx.Sig.key = tx.From
    BY <1>2 DEF Decoded
<1>6. VerifyTrxRLP(tx, chain)
    BY <1>3, <1>5 DEF VerifyTrxRLP, Sig2Addr
<1> QED BY <1>3, <1>4, <1>6

-----------------------------------------------------------------------------
(* Accounts in an overlay. *)

Acct == [Balance : Nat, Nonce : Nat]
Accts == [Addrs -> Acct \union {None}]
Overlays == [upd : Accts, rem : {{}}]
Txs == {fromProto(m) : m \in Messages}

Supply == SumOf(Holders, DOMAIN Holders)
Balances(t) == [a \in Addrs |-> BalanceOf(t, a)]
Total(t) == SumOf(Balances(t), Addrs)

\* An account is never taken for a missing one.
LEMMA NotNone == ASSUME NEW x \in Acct PROVE x # None
    BY ExecutorAssumption DEF Acct

\* Looking up an account finds it in the merged tree, as nothing is ever removed.
LEMMA MergeIs ==
    ASSUME NEW o \in Overlays, NEW t \in Accts
    PROVE  Merge(o, t) \in Accts /\ \A a \in Addrs : Lookup(o, t, a) = Merge(o, t)[a]
    BY DEF Merge, Lookup, Overlays, Accts

Change(t, a, x) == [t EXCEPT ![a] = x]

\* Setting an account changes it in the merged tree, and no other.
LEMMA PutIs ==
    ASSUME NEW o \in Overlays, NEW t \in Accts, NEW a \in Addrs, NEW x \in Acct
    PROVE  /\ Put(o, a, x) \in Overlays
           /\ Merge(Put(o, a, x), t) = Change(Merge(o, t), a, x)
<1>1. Put(o, a, x) \in Overlays
    BY DEF Put, Overlays, Accts
<1>2. Merge(Put(o, a, x), t) = Change(Merge(o, t), a, x)
    BY NotNone, ZenonT(60) DEF Merge, Put, Overlays, Accts, Change
<1> QED BY <1>1, <1>2

\* An empty overlay shows the tree.
LEMMA NewOverlayIs ==
    /\ NewOverlay(Addrs) \in Overlays /\ NewTree(Addrs) \in Accts
    /\ \A t \in Accts : Merge(NewOverlay(Addrs), t) = t
    BY DEF NewOverlay, NewTree, Overlays, Accts, Merge

\* A new account is empty.
LEMMA NewAccountIs == NewAccount \in Acct /\ NewAccount.Balance = 0 /\ NewAccount.Nonce = 0
    BY DEF NewAccount, Acct

\* Balances and nonces are natural numbers.
LEMMA BalanceType ==
    ASSUME NEW t \in Accts, NEW a \in Addrs PROVE BalanceOf(t, a) \in Nat /\ NonceOf(t, a) \in Nat
<1>1. CASE t[a] = None
    BY <1>1 DEF BalanceOf, NonceOf
<1>2. CASE t[a] \in Acct
    BY <1>2, NotNone DEF BalanceOf, NonceOf, Acct
<1> QED BY <1>1, <1>2 DEF Accts

\* So is all the money.
LEMMA TotalType == ASSUME NEW t \in Accts PROVE Total(t) \in Nat
<1>1. IsFiniteSet(Addrs) /\ \A a \in Addrs : Balances(t)[a] \in Nat
    BY BalanceType, ExecutorAssumption DEF Balances
<1> QED BY <1>1, SumType DEF Total

\* No account has more than all of them, nor have two of them.
LEMMA TotalBound ==
    ASSUME NEW t \in Accts, NEW a \in Addrs
    PROVE  /\ BalanceOf(t, a) <= Total(t)
           /\ \A b \in Addrs : a # b => BalanceOf(t, a) + BalanceOf(t, b) <= Total(t)
<1>1. IsFiniteSet(Addrs) /\ \A x \in Addrs : Balances(t)[x] = BalanceOf(t, x) /\ Balances(t)[x] \in Nat
    BY BalanceType, ExecutorAssumption DEF Balances
<1>2. Balances(t)[a] <= SumOf(Balances(t), Addrs)
    BY <1>1, SumBound
<1>3. ASSUME NEW b \in Addrs, a # b PROVE Balances(t)[a] + Balances(t)[b] <= SumOf(Balances(t), Addrs)
    BY <1>1, <1>3, SumBoundTwo
<1> QED BY <1>1, <1>2, <1>3 DEF Total

\* The account a of t has become x, and no other has changed.
AccountSet(t, u, a, x) ==
    /\ u \in Accts /\ Total(u) = Total(t) + (x.Balance - BalanceOf(t, a))
    /\ u[a] = x /\ BalanceOf(u, a) = x.Balance /\ NonceOf(u, a) = x.Nonce
    /\ \A b \in Addrs \ {a} :
          u[b] = t[b] /\ BalanceOf(u, b) = BalanceOf(t, b) /\ NonceOf(u, b) = NonceOf(t, b)

\* Setting an account changes the sum by what it changes the account's balance.
LEMMA TotalSet ==
    ASSUME NEW t \in Accts, NEW a \in Addrs, NEW x \in Acct, NEW u, u = Change(t, a, x)
    PROVE  AccountSet(t, u, a, x)
<1>1. u \in Accts /\ u[a] = x /\ \A b \in Addrs \ {a} : u[b] = t[b]
    BY DEF Accts, Change
<1>2. BalanceOf(u, a) = x.Balance /\ NonceOf(u, a) = x.Nonce
    BY <1>1, NotNone DEF BalanceOf, NonceOf
<1>3. \A b \in Addrs \ {a} : BalanceOf(u, b) = BalanceOf(t, b) /\ NonceOf(u, b) = NonceOf(t, b)
    BY <1>1 DEF BalanceOf, NonceOf
<1>4. IsFiniteSet(Addrs)
    BY ExecutorAssumption
<1> DEFINE f == Balances(t)
           g == Balances(u)
<1>5. \A b \in Addrs : f[b] = BalanceOf(t, b) /\ g[b] = BalanceOf(u, b)
    BY DEF Balances
<1>6. \A b \in Addrs : BalanceOf(t, b) \in Int /\ BalanceOf(u, b) \in Int
    BY <1>1, BalanceType
<1> HIDE DEF f, g
<1>7. SumOf(g, Addrs) = SumOf(f, Addrs) + (g[a] - f[a])
  <2>1. /\ \A b \in Addrs : f[b] \in Int /\ g[b] \in Int
        /\ \A b \in Addrs \ {a} : f[b] = g[b]
      BY <1>3, <1>5, <1>6
  <2> QED BY <1>4, <2>1, SumChange
<1>8. Total(u) = Total(t) + (x.Balance - BalanceOf(t, a))
    BY <1>2, <1>5, <1>7 DEF Total, f, g
<1> QED BY <1>1, <1>2, <1>3, <1>8 DEF AccountSet

\* So does setting it in an overlay.
LEMMA PutSets ==
    ASSUME NEW o \in Overlays, NEW t \in Accts, NEW a \in Addrs, NEW x \in Acct
    PROVE  Put(o, a, x) \in Overlays /\ AccountSet(Merge(o, t), Merge(Put(o, a, x), t), a, x)
    BY MergeIs, PutIs, TotalSet

\* What is found of an account there is.
LEMMA HeldIs ==
    ASSUME NEW o \in Overlays, NEW t \in Accts, NEW v, v = Merge(o, t), NEW a \in Addrs,
           v[a] # None
    PROVE  LET x == Lookup(o, t, a)
           IN  x \in Acct /\ x.Balance = BalanceOf(v, a) /\ x.Nonce = NonceOf(v, a)
    BY MergeIs DEF Accts, BalanceOf, NonceOf

\* An account with another balance.
LEMMA WithBalance ==
    ASSUME NEW x \in Acct, NEW n PROVE [x EXCEPT !.Balance = n] = [Balance |-> n, Nonce |-> x.Nonce]
    BY DEF Acct

\* The genesis accounts hold all the money, and none of them has sent anything.
LEMMA GenesisIs ==
    /\ InitLedger \in Overlays /\ Total(Merge(InitLedger, NewTree(Addrs))) = Supply
    /\ \A a \in Addrs : NonceOf(Merge(InitLedger, NewTree(Addrs)), a) = 0
    /\ Supply \in Nat
<1> DEFINE v == Merge(InitLedger, NewTree(Addrs))
           D == DOMAIN Holders
           acct(a) == IF a \in D THEN [Balance |-> Holders[a], Nonce |-> 0]
                      ELSE IF a = Proposer THEN NewAccount ELSE None
<1>1. D \subseteq Addrs /\ \A a \in D : Holders[a] \in Nat
    BY ExecutorAssumption
<1>2. \A a \in D : [Balance |-> Holders[a], Nonce |-> 0] \in Acct
    BY <1>1 DEF Acct
<1>3. \A a \in Addrs : acct(a) \in Acct \union {None}
    BY <1>2, NewAccountIs
<1>4. InitLedger = [upd |-> [a \in Addrs |-> acct(a)], rem |-> {}]
    BY DEF InitLedger
<1>5. InitLedger \in Overlays
  <2> HIDE DEF acct
  <2> QED BY <1>3, <1>4 DEF Overlays, Accts
<1>6. \A a \in Addrs : v[a] = acct(a)
  <2> HIDE DEF acct
  <2> QED BY <1>4 DEF Merge, NewTree
<1>7. ASSUME NEW a \in Addrs
      PROVE  /\ a \in D => BalanceOf(v, a) = Holders[a]
             /\ a \notin D => BalanceOf(v, a) = 0
             /\ NonceOf(v, a) = 0
  <2>1. CASE a \in D
    <3>1. v[a] = [Balance |-> Holders[a], Nonce |-> 0] /\ v[a] # None
        BY <1>2, <1>6, <2>1, NotNone, Zenon
    <3> QED BY <2>1, <3>1 DEF BalanceOf, NonceOf
  <2>2. CASE a \notin D
    <3>1. v[a] = NewAccount \/ v[a] = None
        BY <1>6, <2>2, ZenonT(30)
    <3> QED BY <2>2, <3>1, NewAccountIs, NotNone, Zenon DEF BalanceOf, NonceOf
  <2> QED BY <2>1, <2>2
<1>8. IsFiniteSet(Addrs) /\ IsFiniteSet(D)
    BY <1>1, ExecutorAssumption, FiniteSubset
<1> HIDE DEF v, D, acct
<1>9. /\ \A a \in Addrs : Balances(v)[a] \in Int
      /\ \A a \in Addrs \ D : Balances(v)[a] = 0
      /\ \A a \in D : Balances(v)[a] \in Int /\ Balances(v)[a] = Holders[a]
    BY <1>1, <1>7 DEF Balances
<1>10. SumOf(Balances(v), Addrs) = SumOf(Balances(v), D)
    BY <1>1, <1>8, <1>9, SumSupport, ZenonT(60)
<1>11. SumOf(Balances(v), D) = SumOf(Holders, D)
    BY <1>8, <1>9, SumSame
<1>12. SumOf(Holders, D) \in Nat
    BY <1>1, <1>8, SumType
<1> QED BY <1>5, <1>7, <1>10, <1>11, <1>12, Zenon DEF Supply, Total, v, D

\* All the money there is and a fee fit in the machine word.
LEMMA SupplyFits == Supply \in Nat /\ Supply + Fee < Word
    BY SupplyAssumption, GenesisIs DEF Supply

-----------------------------------------------------------------------------
(* What a transaction does to the accounts. *)

\* The fields of a decoded transaction.
LEMMA TxType ==
    ASSUME NEW tx \in Txs
    PROVE  tx.From \in Addrs /\ tx.To \in Addrs /\ tx.Nonce \in Nat /\ tx.Amount \in Amount
<1>1. PICK m \in Messages : tx = fromProto(m)
    BY DEF Txs
<1> QED BY <1>1, MessageIs DEF Decoded

\* The account a is there, and nothing else has changed.
Opened(v, w, a) ==
    /\ v \in Accts /\ w \in Accts /\ Total(w) = Total(v)
    /\ w[a] # None /\ \A b \in Addrs : v[b] # None => w[b] = v[b]
    /\ \A b \in Addrs : BalanceOf(w, b) = BalanceOf(v, b) /\ NonceOf(w, b) = NonceOf(v, b)

\* NewTrxContext gives the receiver an account.
LEMMA ContextIs ==
    ASSUME tree \in Accts, NEW o \in Overlays, NEW tx \in Txs
    PROVE  /\ NewTrxContext(o, tx) \in Overlays
           /\ Opened(Merge(o, tree), Merge(NewTrxContext(o, tx), tree), tx.To)
<1> DEFINE v == Merge(o, tree)
           a == tx.To
<1>1. a \in Addrs /\ v \in Accts /\ Lookup(o, tree, a) = v[a]
    BY TxType, MergeIs
<1>2. CASE v[a] # None
  <2>1. NewTrxContext(o, tx) = o
      BY <1>1, <1>2 DEF NewTrxContext
  <2> QED BY <1>1, <1>2, <2>1, Zenon DEF Opened
<1>3. CASE v[a] = None
  <2> DEFINE p == Put(o, a, NewAccount)
             w == Merge(p, tree)
  <2>1. NewTrxContext(o, tx) = p
      BY <1>1, <1>3 DEF NewTrxContext
  <2>2. p \in Overlays /\ AccountSet(v, w, a, NewAccount)
      BY <1>1, NewAccountIs, PutSets
  <2>3. BalanceOf(v, a) = 0 /\ NonceOf(v, a) = 0
      BY <1>3 DEF BalanceOf, NonceOf
  <2> HIDE DEF a, v, w, p
  <2>4. w \in Accts /\ Total(w) = Total(v)
      BY <1>1, <2>2, <2>3, NewAccountIs, TotalType DEF AccountSet
  <2>5. \A b \in Addrs : BalanceOf(w, b) = BalanceOf(v, b) /\ NonceOf(w, b) = NonceOf(v, b)
      BY <2>2, <2>3, NewAccountIs DEF AccountSet
  <2>6. w[a] # None /\ \A b \in Addrs : v[b] # None => w[b] = v[b]
      BY <1>3, <2>2, NewAccountIs, NotNone, Zenon DEF AccountSet
  <2>7. Opened(v, w, a)
      BY <1>1, <2>4, <2>5, <2>6, Zenon DEF Opened
  <2> QED BY <2>1, <2>2, <2>7 DEF w, v, a
<1> QED BY <1>2, <1>3

\* The amount has gone from one account to the other, which may be the same.
Transferred(v, w, tx) ==
    /\ w \in Accts /\ Total(w) = Total(v)
    /\ BalanceOf(w, tx.From) + tx.Amount >= BalanceOf(v, tx.From)
    /\ \A a \in Addrs : v[a] # None => w[a] # None
    /\ \A a \in Addrs : NonceOf(w, a) = NonceOf(v, a)
    /\ \A a \in Addrs : a # tx.To => BalanceOf(w, a) <= BalanceOf(v, a)

\* Taking the amount from the sender, then giving it to the receiver.
LEMMA TransferAdds ==
    ASSUME NEW tx \in Txs, NEW v \in Accts, NEW u, NEW w, NEW less \in Acct, NEW more \in Acct,
           AccountSet(v, u, tx.From, less), AccountSet(u, w, tx.To, more),
           less.Balance = BalanceOf(v, tx.From) - tx.Amount, less.Nonce = NonceOf(v, tx.From),
           more.Balance = BalanceOf(u, tx.To) + tx.Amount, more.Nonce = NonceOf(u, tx.To)
    PROVE  Transferred(v, w, tx)
<1>1. tx.From \in Addrs /\ tx.To \in Addrs /\ tx.Amount \in Nat
    BY TxType DEF Amount
<1>2. /\ u \in Accts /\ w \in Accts /\ BalanceOf(v, tx.From) \in Nat /\ BalanceOf(u, tx.To) \in Nat
      /\ Total(v) \in Nat
    BY <1>1, BalanceType, TotalType, ZenonT(60) DEF AccountSet
<1>3. Total(w) = Total(v)
    BY <1>1, <1>2 DEF AccountSet
<1>4. \A a \in Addrs : NonceOf(w, a) = NonceOf(v, a)
    BY DEF AccountSet
<1>5. \A a \in Addrs : v[a] # None => w[a] # None
    BY NotNone, ZenonT(60) DEF AccountSet
<1>6. \A a \in Addrs : a # tx.To => BalanceOf(w, a) <= BalanceOf(v, a)
  <2> SUFFICES ASSUME NEW a \in Addrs, a # tx.To PROVE BalanceOf(w, a) <= BalanceOf(v, a)
      OBVIOUS
  <2>1. BalanceOf(w, a) = BalanceOf(u, a) /\ BalanceOf(v, a) \in Nat
      BY BalanceType, ZenonT(60) DEF AccountSet
  <2> QED BY <1>1, <2>1 DEF AccountSet
<1>7. BalanceOf(w, tx.From) + tx.Amount >= BalanceOf(v, tx.From)
    BY <1>1, <1>2 DEF AccountSet
<1> QED BY <1>2, <1>3, <1>4, <1>5, <1>6, <1>7, ZenonT(60) DEF Transferred

\* A transfer that is covered is carried out, and no sum wraps around.
LEMMA TransferIs ==
    ASSUME tree \in Accts, NEW o \in Overlays, NEW tx \in Txs, NEW v, v = Merge(o, tree),
           v[tx.From] # None, v[tx.To] # None, BalanceOf(v, tx.From) >= tx.Amount,
           Total(v) < Word
    PROVE  transfer(o, tx) \in Overlays /\ Transferred(v, Merge(transfer(o, tx), tree), tx)
<1> DEFINE less == [Balance |-> BalanceOf(v, tx.From) - tx.Amount, Nonce |-> NonceOf(v, tx.From)]
           paid == Put(o, tx.From, less)
           u == Merge(paid, tree)
           more == [Balance |-> BalanceOf(u, tx.To) + tx.Amount, Nonce |-> NonceOf(u, tx.To)]
           done == Put(paid, tx.To, more)
<1>1. /\ tx.To \in Addrs /\ tx.From \in Addrs /\ tx.Amount \in Nat /\ v \in Accts
      /\ BalanceOf(v, tx.From) \in Nat /\ NonceOf(v, tx.From) \in Nat
    BY TxType, MergeIs, BalanceType DEF Amount
<1>2. less \in Acct /\ less.Balance = BalanceOf(v, tx.From) - tx.Amount /\ less.Nonce = NonceOf(v, tx.From)
    BY <1>1 DEF Acct
<1>3. Put(o, tx.From, [Lookup(o, tree, tx.From) EXCEPT !.Balance = @ - tx.Amount]) = paid
    BY <1>1, HeldIs, WithBalance
<1> HIDE DEF less
<1>4. paid \in Overlays /\ AccountSet(v, u, tx.From, less)
    BY <1>1, <1>2, PutSets, Zenon
<1> HIDE DEF paid
<1>5. u \in Accts /\ u[tx.To] # None /\ BalanceOf(u, tx.To) \in Nat /\ NonceOf(u, tx.To) \in Nat
    BY <1>1, <1>2, <1>4, NotNone, BalanceType, ZenonT(60) DEF AccountSet
<1>6. BalanceOf(u, tx.To) + tx.Amount \in 0 .. Word - 1
  <2>1. BalanceOf(u, tx.To) <= Total(u) /\ Total(u) \in Nat /\ Total(v) \in Nat
      BY <1>1, <1>5, TotalBound, TotalType, ZenonT(60)
  <2>2. Total(u) = Total(v) + (less.Balance - BalanceOf(v, tx.From))
      BY <1>4 DEF AccountSet
  <2> QED BY <1>1, <1>2, <1>5, <2>1, <2>2, WordType
<1>7. /\ more \in Acct
      /\ more.Balance = BalanceOf(u, tx.To) + tx.Amount /\ more.Nonce = NonceOf(u, tx.To)
    BY <1>1, <1>5 DEF Acct
<1>8. transfer(o, tx) = done
  <2> DEFINE x == Lookup(paid, tree, tx.To)
  <2>1. x \in Acct /\ x.Balance = BalanceOf(u, tx.To) /\ x.Nonce = NonceOf(u, tx.To)
    <3>1. paid \in Overlays /\ tx.To \in Addrs /\ u[tx.To] # None
        BY <1>1, <1>4, <1>5, Zenon
    <3> QED BY ONLY tree \in Accts, <3>1, HeldIs
  <2>2. (x.Balance + tx.Amount) % Word = BalanceOf(u, tx.To) + tx.Amount
    <3>1. \A k \in 0 .. Word - 1 : k % Word = k
        BY WordType
    <3> QED BY <1>6, <2>1, <3>1, Zenon
  <2> HIDE DEF x
  <2>3. [x EXCEPT !.Balance = (@ + tx.Amount) % Word] = more
      BY <2>1, <2>2, WithBalance, Zenon
  <2> HIDE DEF more
  <2> QED BY <1>3, <2>3, ZenonT(60) DEF transfer, x
<1> HIDE DEF more
<1>9. done \in Overlays /\ AccountSet(u, Merge(done, tree), tx.To, more)
    BY <1>1, <1>4, <1>7, PutSets, Zenon
<1> HIDE DEF u, done
<1>10. Transferred(v, Merge(done, tree), tx)
    BY <1>1, <1>2, <1>4, <1>7, <1>9, TransferAdds, ZenonT(60)
<1> QED BY <1>8, <1>9, <1>10, Zenon

\* The fee is gone from the sender's account, and the transaction counts.
Settled(v, w, tx) ==
    /\ w \in Accts /\ Total(w) = Total(v) - Fee
    /\ \A a \in Addrs : v[a] # None => w[a] # None
    /\ NonceOf(w, tx.From) = NonceOf(v, tx.From) + 1
    /\ \A a \in Addrs : a # tx.From => NonceOf(w, a) = NonceOf(v, a)
    /\ \A a \in Addrs : BalanceOf(w, a) <= BalanceOf(v, a)

\* postRunTrx takes the fee from the sender and counts the transaction.
LEMMA PostIs ==
    ASSUME tree \in Accts, NEW o \in Overlays, NEW tx \in Txs, NEW v, v = Merge(o, tree),
           v[tx.From] # None, BalanceOf(v, tx.From) >= Fee
    PROVE  postRunTrx(o, tx) \in Overlays /\ Settled(v, Merge(postRunTrx(o, tx), tree), tx)
<1> DEFINE acct == [Balance |-> BalanceOf(v, tx.From) - Fee, Nonce |-> NonceOf(v, tx.From) + 1]
           w == Merge(postRunTrx(o, tx), tree)
<1>1. /\ tx.From \in Addrs /\ v \in Accts /\ Fee \in Nat /\ Total(v) \in Nat
      /\ \A a \in Addrs : BalanceOf(v, a) \in Nat /\ NonceOf(v, a) \in Nat
    BY TxType, MergeIs, BalanceType, TotalType, ExecutorAssumption, ZenonT(60)
<1>2. /\ acct \in Acct
      /\ acct.Balance = BalanceOf(v, tx.From) - Fee /\ acct.Nonce = NonceOf(v, tx.From) + 1
    BY <1>1 DEF Acct
<1>3. postRunTrx(o, tx) = Put(o, tx.From, acct)
    BY <1>1, HeldIs DEF postRunTrx
<1> HIDE DEF acct
<1>4. postRunTrx(o, tx) \in Overlays /\ AccountSet(v, w, tx.From, acct)
    BY <1>1, <1>2, <1>3, PutSets, ZenonT(60)
<1> HIDE DEF w
<1>5. w \in Accts /\ Total(w) = Total(v) - Fee
    BY <1>1, <1>2, <1>4 DEF AccountSet
<1>6. \A a \in Addrs : v[a] # None => w[a] # None
    BY <1>2, <1>4, NotNone, Zenon DEF AccountSet
<1>7. /\ NonceOf(w, tx.From) = NonceOf(v, tx.From) + 1
      /\ \A a \in Addrs : a # tx.From => NonceOf(w, a) = NonceOf(v, a)
    BY <1>2, <1>4, ZenonT(60) DEF AccountSet
<1>8. \A a \in Addrs : BalanceOf(w, a) <= BalanceOf(v, a)
    BY <1>1, <1>2, <1>4 DEF AccountSet
<1>9. Settled(v, w, tx)
    BY <1>5, <1>6, <1>7, <1>8, ZenonT(60) DEF Settled
<1> QED BY <1>4, <1>9 DEF w

\* What validation has found out of a transfer: the account covers amount and fee, although the sum
\* it was compared with had wrapped around if it could.
LEMMA AcceptedIs ==
    ASSUME tree \in Accts, NEW o \in Overlays, NEW tx \in Txs, NEW v, v = Merge(o, tree),
           v[tx.From] # None, Total(v) <= Supply,
           commonValidation1(o, tx), Affords(o, tx), tx.Type = TRX_TRANSFER
    PROVE  BalanceOf(v, tx.From) >= tx.Amount + Fee
<1>1. /\ tx.From \in Addrs /\ v \in Accts /\ Fee \in Nat /\ Fee > 0
      /\ tx.Amount \in Nat /\ tx.Amount < Word
    BY TxType, MergeIs, WordType, ExecutorAssumption DEF Amount
<1>2. Lookup(o, tree, tx.From).Balance = BalanceOf(v, tx.From)
    BY <1>1, MergeIs, ZenonT(60) DEF BalanceOf
<1>3. /\ BalanceOf(v, tx.From) >= (Fee + tx.Amount) % Word /\ BalanceOf(v, tx.From) >= tx.Amount
    BY <1>2, ZenonT(60) DEF commonValidation1, Affords
<1>4. Fee + tx.Amount < Word
  <2>1. BalanceOf(v, tx.From) <= Total(v) /\ BalanceOf(v, tx.From) \in Nat /\ Total(v) \in Nat
      BY <1>1, TotalBound, BalanceType, TotalType, Zenon
  <2>2. BalanceOf(v, tx.From) >= tx.Amount
      BY <1>3, Zenon
  <2>3. Word \in Nat
      BY WordType
  <2> QED BY ONLY <1>1, <2>1, <2>2, <2>3, Total(v) <= Supply, SupplyFits
<1>5. (Fee + tx.Amount) % Word = Fee + tx.Amount
    BY <1>1, <1>4, WordType
<1> QED BY <1>1, <1>3, <1>5

\* What a transaction that succeeds has done: the accounts have paid its fee, it counts
\* in its sender's nonce, and nobody is richer but its receiver.
Ran(v, w, tx) ==
    /\ w \in Accts /\ Total(w) = Total(v) - Fee
    /\ w[tx.To] # None /\ \A a \in Addrs : v[a] # None => w[a] # None
    /\ tx.Nonce = NonceOf(v, tx.From) /\ NonceOf(w, tx.From) = NonceOf(v, tx.From) + 1
    /\ \A a \in Addrs : a # tx.From => NonceOf(w, a) = NonceOf(v, a)
    /\ \A a \in Addrs : a # tx.To => BalanceOf(w, a) <= BalanceOf(v, a)
    /\ BalanceOf(v, tx.From) > 0

\* It has its receiver's account, moves the amount and settles the fee.
LEMMA StepsRun ==
    ASSUME NEW tx \in Txs, NEW v, NEW u, NEW x, NEW w,
           Opened(v, u, tx.To), Transferred(u, x, tx), Settled(x, w, tx),
           BalanceOf(u, tx.From) >= Fee, tx.Nonce = NonceOf(u, tx.From)
    PROVE  Ran(v, w, tx)
<1>1. /\ tx.From \in Addrs /\ tx.To \in Addrs /\ tx.Amount \in Nat /\ Fee \in Nat /\ Fee > 0
    BY TxType, ExecutorAssumption DEF Amount
<1>2. v \in Accts /\ u \in Accts /\ x \in Accts /\ w \in Accts
    BY DEF Opened, Transferred, Settled
<1>3. \A a \in Addrs : BalanceOf(u, a) \in Nat /\ BalanceOf(x, a) \in Nat /\ BalanceOf(w, a) \in Nat
    BY <1>2, BalanceType
<1>4. w \in Accts /\ Total(w) = Total(v) - Fee
    BY DEF Opened, Transferred, Settled
<1>5. w[tx.To] # None /\ \A a \in Addrs : v[a] # None => w[a] # None
    BY <1>1, Zenon DEF Opened, Transferred, Settled
<1>6. /\ tx.Nonce = NonceOf(v, tx.From) /\ NonceOf(w, tx.From) = NonceOf(v, tx.From) + 1
      /\ \A a \in Addrs : a # tx.From => NonceOf(w, a) = NonceOf(v, a)
    BY <1>1, ZenonT(60) DEF Opened, Transferred, Settled
<1>7. \A a \in Addrs : a # tx.To => BalanceOf(w, a) <= BalanceOf(v, a)
    BY <1>3 DEF Opened, Transferred, Settled
<1>8. BalanceOf(v, tx.From) > 0
    BY <1>1, <1>3 DEF Opened
<1> QED BY <1>4, <1>5, <1>6, <1>7, <1>8, ZenonT(60) DEF Ran

\* What the handler of a transaction that passes validation leaves to postRunTrx: after a
\* transfer there is enough left for the fee.
LEMMA HandledIs ==
    ASSUME tree \in Accts, NEW o \in Overlays, NEW tx \in Txs, NEW v, v = Merge(o, tree),
           v[tx.From] # None, Total(v) <= Supply,
           NEW c, c = NewTrxContext(o, tx), commonValidation1(c, tx), Affords(c, tx),
           NEW u, u = Merge(c, tree), NEW x, x = Merge(ExecuteTrx(c, tx), tree)
    PROVE  /\ ExecuteTrx(c, tx) \in Overlays /\ x \in Accts /\ x[tx.From] # None
           /\ Opened(v, u, tx.To) /\ Transferred(u, x, tx) /\ tx.Nonce = NonceOf(u, tx.From)
           /\ tx.Type = TRX_TRANSFER =>
                  BalanceOf(u, tx.From) >= Fee /\ BalanceOf(x, tx.From) >= Fee
           /\ tx.Type # TRX_TRANSFER => ExecuteTrx(c, tx) = c
<1>1. /\ tx.From \in Addrs /\ tx.To \in Addrs /\ tx.Amount \in Nat /\ Fee \in Nat /\ Fee > 0
    BY TxType, ExecutorAssumption DEF Amount
<1>2. c \in Overlays /\ Opened(v, u, tx.To)
    BY ContextIs
<1>3. /\ u \in Accts /\ u[tx.From] # None /\ u[tx.To] # None /\ Total(u) <= Supply
      /\ BalanceOf(u, tx.From) \in Nat /\ Total(u) \in Nat
    BY <1>1, <1>2, BalanceType, TotalType, Zenon DEF Opened
<1>4. tx.Nonce = NonceOf(u, tx.From)
  <2>1. Lookup(c, tree, tx.From).Nonce = NonceOf(u, tx.From)
      BY <1>1, <1>2, <1>3, MergeIs, ZenonT(60) DEF NonceOf
  <2> QED BY <2>1, Zenon DEF commonValidation1
<1>5. Total(u) < Word
    BY ONLY <1>1, <1>3, SupplyFits, WordType
<1>6. CASE tx.Type = TRX_TRANSFER
  <2>1. BalanceOf(u, tx.From) >= tx.Amount + Fee
      BY <1>2, <1>3, <1>6, AcceptedIs, ZenonT(60)
  <2>2. BalanceOf(u, tx.From) >= tx.Amount /\ BalanceOf(u, tx.From) >= Fee
      BY ONLY <1>1, <1>3, <2>1
  <2>3. ExecuteTrx(c, tx) = transfer(c, tx)
      BY <1>6, Zenon DEF ExecuteTrx
  <2>4. transfer(c, tx) \in Overlays /\ Transferred(u, Merge(transfer(c, tx), tree), tx)
      BY <1>2, <1>3, <1>5, <2>2, TransferIs, Zenon
  <2>5. ExecuteTrx(c, tx) \in Overlays /\ Transferred(u, x, tx)
      BY <2>3, <2>4, Zenon
  <2>6. /\ x \in Accts /\ x[tx.From] # None
        /\ BalanceOf(x, tx.From) + tx.Amount >= BalanceOf(u, tx.From)
      BY <1>1, <1>3, <2>5, Zenon DEF Transferred
  <2>7. BalanceOf(x, tx.From) \in Nat
      BY <1>1, <2>6, BalanceType, Zenon
  <2>8. BalanceOf(x, tx.From) >= Fee
      BY ONLY <1>1, <1>3, <2>1, <2>6, <2>7
  <2> QED BY <1>2, <1>4, <1>6, <2>2, <2>5, <2>6, <2>8, Zenon
<1>7. CASE tx.Type # TRX_TRANSFER
  <2>1. ExecuteTrx(c, tx) = c /\ x = u
      BY <1>7, Zenon DEF ExecuteTrx
  <2>2. \A a \in Addrs : BalanceOf(u, a) \in Nat
      BY <1>3, BalanceType
  <2>3. Transferred(u, u, tx)
      BY ONLY <1>1, <1>3, <2>2 DEF Transferred
  <2> QED BY <1>2, <1>3, <1>4, <1>7, <2>1, <2>3, Zenon
<1> QED BY <1>6, <1>7, Zenon

\* A transaction that fails leaves no trace but its receiver: its fee is not refused after
\* its handler has run.
LEMMA RefusedIs ==
    ASSUME tree \in Accts, NEW o \in Overlays, NEW tx \in Txs, NEW v, v = Merge(o, tree),
           v[tx.From] # None, Total(v) <= Supply,
           NEW c, c = NewTrxContext(o, tx), NEW exec
    PROVE  Refused(c, tx, exec) = c
<1>1. CASE ~Handled(c, tx, exec)
    BY <1>1, Zenon DEF Refused
<1>2. CASE Handled(c, tx, exec)
  <2> DEFINE x == Merge(ExecuteTrx(c, tx), tree)
  <2>1. /\ ExecuteTrx(c, tx) \in Overlays /\ x[tx.From] # None
        /\ tx.Type = TRX_TRANSFER => BalanceOf(x, tx.From) >= Fee
        /\ tx.Type # TRX_TRANSFER => ExecuteTrx(c, tx) = c
      BY <1>2, HandledIs, ZenonT(60) DEF Handled
  <2>2. tx.From \in Addrs
      BY TxType
  <2>3. Lookup(ExecuteTrx(c, tx), tree, tx.From).Balance = BalanceOf(x, tx.From)
      BY <2>1, <2>2, MergeIs, ZenonT(60) DEF BalanceOf
  <2> QED BY <2>1, <2>3, ZenonT(60) DEF Refused, PaysFee
<1> QED BY <1>1, <1>2, Zenon

\* A transaction that passes validation and pays its fee is carried out in full.
LEMMA RunIs ==
    ASSUME tree \in Accts, NEW o \in Overlays, NEW tx \in Txs, NEW v, v = Merge(o, tree),
           v[tx.From] # None, Total(v) <= Supply,
           NEW c, c = NewTrxContext(o, tx), NEW exec,
           Handled(c, tx, exec), PaysFee(ExecuteTrx(c, tx), tx)
    PROVE  runTrx(c, tx) \in Overlays /\ Ran(v, Merge(runTrx(c, tx), tree), tx)
<1> DEFINE u == Merge(c, tree)
           moved == ExecuteTrx(c, tx)
           x == Merge(moved, tree)
<1>1. /\ moved \in Overlays /\ x \in Accts /\ x[tx.From] # None
      /\ Opened(v, u, tx.To) /\ Transferred(u, x, tx) /\ tx.Nonce = NonceOf(u, tx.From)
      /\ tx.Type = TRX_TRANSFER => BalanceOf(u, tx.From) >= Fee
      /\ tx.Type # TRX_TRANSFER => x = u
    BY HandledIs, ZenonT(60) DEF Handled
<1>2. tx.From \in Addrs
    BY TxType
<1>3. BalanceOf(x, tx.From) >= Fee
  <2>1. Lookup(moved, tree, tx.From).Balance = BalanceOf(x, tx.From)
      BY <1>1, <1>2, MergeIs, ZenonT(60) DEF BalanceOf
  <2> QED BY <2>1, Zenon DEF PaysFee
<1>4. BalanceOf(u, tx.From) >= Fee
    BY <1>1, <1>3, Zenon
<1>5. runTrx(c, tx) = postRunTrx(moved, tx)
    BY DEF runTrx
<1> HIDE DEF moved, u
<1>6. postRunTrx(moved, tx) \in Overlays /\ Settled(x, Merge(postRunTrx(moved, tx), tree), tx)
    BY <1>1, <1>3, PostIs, Zenon
<1> HIDE DEF x
<1> QED BY <1>1, <1>4, <1>5, <1>6, StepsRun, ZenonT(60)

-----------------------------------------------------------------------------
(* Counting transactions. *)

\* The transactions of s have led to the accounts of t.
Counted(s, t) ==
    /\ \A i \in DOMAIN s : s[i].Nonce = CountOf(s, i - 1, s[i].From)
    /\ \A a \in Addrs : NonceOf(t, a) = CountOf(s, Len(s), a)

\* Sequences that begin alike count alike.
LEMMA CountPrefix ==
    ASSUME NEW s, NEW u, NEW n \in Nat, \A i \in 1 .. n : s[i] = u[i], NEW a
    PROVE  CountOf(s, n, a) = CountOf(u, n, a)
<1>1. [i \in 1 .. n |-> IF s[i].From = a THEN 1 ELSE 0] = [i \in 1 .. n |-> IF u[i].From = a THEN 1 ELSE 0]
    OBVIOUS
<1> QED BY <1>1 DEF CountOf

\* One more transaction counts for its sender.
LEMMA CountOne ==
    ASSUME NEW s, NEW n \in Nat, NEW a
    PROVE  /\ CountOf(s, n, a) \in Nat
           /\ CountOf(s, n + 1, a) = CountOf(s, n, a) + (IF s[n + 1].From = a THEN 1 ELSE 0)
<1> DEFINE f == [i \in 1 .. n |-> IF s[i].From = a THEN 1 ELSE 0]
           g == [i \in 1 .. n + 1 |-> IF s[i].From = a THEN 1 ELSE 0]
<1>1. CountOf(s, n, a) = SumOf(f, 1 .. n) /\ CountOf(s, n + 1, a) = SumOf(g, 1 .. n + 1)
    BY DEF CountOf
<1>2. /\ \A i \in 1 .. n : f[i] \in Nat /\ g[i] \in Int /\ f[i] \in Int /\ g[i] = f[i]
      /\ \A i \in 1 .. n + 1 : g[i] \in Int
      /\ g[n + 1] = IF s[n + 1].From = a THEN 1 ELSE 0
    OBVIOUS
<1>3. (1 .. n + 1) \ {n + 1} = 1 .. n /\ n + 1 \in 1 .. n + 1 /\ n + 1 \in Nat
    OBVIOUS
<1> HIDE DEF f, g
<1>4. IsFiniteSet(1 .. n) /\ IsFiniteSet(1 .. n + 1)
    BY <1>3, FinitePositions
<1>5. SumOf(g, 1 .. n + 1) = g[n + 1] + SumOf(g, 1 .. n)
  <2> DEFINE P == 1 .. n + 1
             k == n + 1
  <2>1. /\ IsFiniteSet(P) /\ k \in P /\ P \ {k} = 1 .. n
        /\ \A i \in P : g[i] \in Int
      BY <1>2, <1>3, <1>4, ZenonT(60)
  <2> HIDE DEF P, k
  <2>2. SumOf(g, P) = g[k] + SumOf(g, P \ {k})
      BY ONLY <2>1, SumRemove
  <2> QED BY <2>1, <2>2, ZenonT(30) DEF P, k
<1>6. SumOf(g, 1 .. n) = SumOf(f, 1 .. n) /\ SumOf(f, 1 .. n) \in Nat
    BY <1>2, <1>4, SumSame, SumType, ZenonT(30)
<1> QED BY ONLY <1>1, <1>2, <1>5, <1>6

\* One more at the end of a sequence, the others stay.
LEMMA AppendIs ==
    ASSUME NEW S, NEW q \in Seq(S), NEW x \in S
    PROVE  /\ Append(q, x) \in Seq(S) /\ DOMAIN Append(q, x) = 1 .. Len(q) + 1
           /\ Append(q, x)[Len(q) + 1] = x
           /\ \A i \in 1 .. Len(q) : Append(q, x)[i] = q[i]
    OBVIOUS

\* One more transaction with the nonce its sender has.
LEMMA CountedAppend ==
    ASSUME NEW s \in Seq(Txs), NEW tx \in Txs, NEW v, NEW w, Counted(s, v),
           tx.Nonce = NonceOf(v, tx.From), NonceOf(w, tx.From) = NonceOf(v, tx.From) + 1,
           \A a \in Addrs : a # tx.From => NonceOf(w, a) = NonceOf(v, a)
    PROVE  Counted(Append(s, tx), w)
<1> DEFINE u == Append(s, tx)
           n == Len(s)
<1>1. /\ n \in Nat /\ DOMAIN s = 1 .. n /\ Len(u) = n + 1 /\ DOMAIN u = 1 .. n + 1 /\ u[n + 1] = tx
      /\ \A i \in 1 .. n : u[i] = s[i]
    OBVIOUS
<1>2. tx.From \in Addrs
    BY TxType
<1> HIDE DEF u, n
<1>3. \A a : CountOf(u, n, a) = CountOf(s, n, a)
    BY <1>1, CountPrefix
<1>4. ASSUME NEW i \in DOMAIN u PROVE u[i].Nonce = CountOf(u, i - 1, u[i].From)
  <2>1. CASE i = n + 1
    <3>1. i - 1 = n
        BY <1>1, <2>1
    <3>2. u[i] = tx
        BY <1>1, <2>1
    <3>3. NonceOf(v, tx.From) = CountOf(s, n, tx.From)
        BY <1>2 DEF Counted, n
    <3> QED BY <1>3, <3>1, <3>2, <3>3, ZenonT(60)
  <2>2. CASE i \in 1 .. n
    <3>1. i - 1 \in Nat /\ \A j \in 1 .. i - 1 : u[j] = s[j]
        BY <1>1, <2>2
    <3>2. CountOf(u, i - 1, u[i].From) = CountOf(s, i - 1, u[i].From)
        BY ONLY <3>1, CountPrefix
    <3> QED BY <1>1, <2>2, <3>2, ZenonT(60) DEF Counted
  <2> QED BY <1>1, <2>1, <2>2
<1>5. ASSUME NEW a \in Addrs PROVE NonceOf(w, a) = CountOf(u, Len(u), a)
  <2>1. /\ CountOf(u, n, a) \in Nat
        /\ CountOf(u, n + 1, a) = CountOf(u, n, a) + (IF u[n + 1].From = a THEN 1 ELSE 0)
      BY <1>1, CountOne
  <2>2. NonceOf(v, a) = CountOf(u, n, a)
      BY <1>3 DEF Counted, n
  <2>3. CASE a = tx.From
      BY <1>1, <2>1, <2>2, <2>3, ZenonT(60)
  <2>4. CASE a # tx.From
      BY <1>1, <2>1, <2>2, <2>4
  <2> QED BY <2>3, <2>4
<1> QED BY <1>4, <1>5 DEF Counted, u

\* Accounts with the same nonces have the same history.
LEMMA CountedSame ==
    ASSUME NEW s, NEW v, NEW w, Counted(s, v), \A a \in Addrs : NonceOf(w, a) = NonceOf(v, a)
    PROVE  Counted(s, w)
    BY DEF Counted

\* Nothing has been carried out when nobody has a nonce.
LEMMA CountedNone ==
    ASSUME NEW v, \A a \in Addrs : NonceOf(v, a) = 0 PROVE Counted(<< >>, v)
<1>1. \A a : CountOf(<< >>, 0, a) = 0
  <2>1. 1 .. 0 = {}
      OBVIOUS
  <2> QED BY <2>1, SumEmpty DEF CountOf
<1>2. Len(<< >>) = 0 /\ \A i : i \notin DOMAIN << >>
    OBVIOUS
<1> QED BY <1>1, <1>2 DEF Counted

=============================================================================
