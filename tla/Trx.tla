---------------------------------- MODULE Trx ----------------------------------
(***************************************************************************)
(* Transactions and their two encodings (ctrlers/types/trx*.go): protocol  *)
(* buffers on the wire, RLP for what is signed.  Version, time, gas and    *)
(* gas price are constants of a chain here and left out.                   *)
(*                                                                         *)
(* Amounts are numbers below 2^256 as strings of at most 32 bytes; here    *)
(* they have AmountLen digits in base Base.  The signed integers of        *)
(* payloads are unsigned in RLP; here they have IntValues values.  Protocol*)
(* buffers leave out what is zero, so that a message of zeros is empty.    *)
(***************************************************************************)
EXTENDS Folding, Integers, Sequences

CONSTANTS Nil, Base, AmountLen, IntValues

Word == Base ^ AmountLen

ASSUME TrxAssumption ==
    /\ Base \in Nat /\ Base > 1 /\ AmountLen \in Nat /\ AmountLen > 0
    /\ Word \in Nat \ {0}
    /\ IntValues \in Nat /\ IntValues > 1

TRX_TRANSFER == 1
TRX_STAKING == 2
TRX_UNSTAKING == 3
TRX_PROPOSAL == 4
TRX_VOTING == 5
TRX_CONTRACT == 6
TRX_SETDOC == 7
TRX_WITHDRAW == 8

\* uint256.Int's Bytes and SetBytes: no leading zeros; the last digits count.
Bytes[n \in 0 .. Word - 1] ==
    IF n = 0 THEN << >> ELSE Append(Bytes[n \div Base], n % Base)
SetBytes(bz) == FoldLeft(LAMBDA n, d : (n * Base + d) % Word, 0, bz)

\* A bug: the sign is dropped.
UnsignedAbs(i) == IF i < 0 THEN -i ELSE i

\* The conversions of int32 and int64 to the unsigned types of RLP, and back.
Unsigned(i) == i % IntValues
Signed(u) == IF 2 * u < IntValues THEN u ELSE u - IntValues

--------------------------------------------------------------------------------
(* Payloads, as the sequences of their fields.  What the codecs of a       *)
(* payload type do depends on its zero value, on which fields are signed   *)
(* integers, and on which are amounts.                                     *)

TrxPayloadUnstaking == [zero |-> <<"">>, ints |-> {}, amounts |-> {}]
TrxPayloadProposal == [zero |-> <<"", 0, 0, 0, 0, << >>>>, ints |-> 2 .. 5, amounts |-> {}]
TrxPayloadVoting == [zero |-> <<"", 0>>, ints |-> {2}, amounts |-> {}]
TrxPayloadContract == [zero |-> <<"">>, ints |-> {}, amounts |-> {}]
TrxPayloadSetDoc == [zero |-> <<"", "">>, ints |-> {}, amounts |-> {}]
TrxPayloadWithdraw == [zero |-> << << >> >>, ints |-> {}, amounts |-> {1}]

NoPayload(type) == type \in {TRX_TRANSFER, TRX_STAKING}

Codec(type) ==
    CASE type = TRX_UNSTAKING -> TrxPayloadUnstaking
      [] type = TRX_PROPOSAL -> TrxPayloadProposal
      [] type = TRX_VOTING -> TrxPayloadVoting
      [] type = TRX_CONTRACT -> TrxPayloadContract
      [] type = TRX_SETDOC -> TrxPayloadSetDoc
      [] type = TRX_WITHDRAW -> TrxPayloadWithdraw

\* The fields that a Go struct of the type can have.
PayloadTypes == TRX_UNSTAKING .. TRX_WITHDRAW
IsPayload(type, fields) ==
    /\ fields # Nil /\ fields = [i \in DOMAIN Codec(type).zero |-> fields[i]]
    /\ \A i \in Codec(type).ints :
            fields[i] \in -(IntValues \div 2) .. (IntValues \div 2) - 1
    /\ \A i \in Codec(type).amounts : fields[i] \in 0 .. Word - 1

\* An amount goes through its bytes in both encodings.
AmountToBytes(type, fields) ==
    [i \in DOMAIN fields |-> IF i \in Codec(type).amounts THEN Bytes[fields[i]] ELSE fields[i]]
BytesToAmount(type, fields) ==
    [i \in DOMAIN fields |-> IF i \in Codec(type).amounts THEN SetBytes(fields[i]) ELSE fields[i]]

\* A signed integer goes through an unsigned one in RLP.
IntsToUnsigned(type, fields) ==
    [i \in DOMAIN fields |-> IF i \in Codec(type).ints THEN Unsigned(fields[i]) ELSE fields[i]]
UnsignedToInts(type, fields) ==
    [i \in DOMAIN fields |-> IF i \in Codec(type).ints THEN Signed(fields[i]) ELSE fields[i]]

\* Encode and Decode of the payload types.
EncodePayload(type, fields) ==
    IF NoPayload(type) \/ AmountToBytes(type, fields) = Codec(type).zero
    THEN << >> ELSE AmountToBytes(type, fields)
DecodePayload(type, bz) ==
    BytesToAmount(type, IF bz = << >> THEN Codec(type).zero ELSE bz)

\* EncodeRLP and DecodeRLP of the payload types; transfers and stakes write nothing,
\* everything else at least a header.
EncodePayloadRLP(type, fields) ==
    IF NoPayload(type) THEN << >>
    ELSE <<IntsToUnsigned(type, AmountToBytes(type, fields))>>
DecodePayloadRLP(type, bz) ==
    IF NoPayload(type) THEN << >>
    ELSE BytesToAmount(type, UnsignedToInts(type, bz[1]))

--------------------------------------------------------------------------------
\* NewTrx.
NewTrx(from, to, nonce, amt, type, fields) ==
    [From |-> from, To |-> to, Nonce |-> nonce, Amount |-> amt,
     Type |-> type, Payload |-> fields, Sig |-> Nil]

\* The messages of the encodings have the fields of a transaction.
WithData(tx, amt, payload) ==
    [From |-> tx.From, To |-> tx.To, Nonce |-> tx.Nonce, Amount |-> amt,
     Type |-> tx.Type, Payload |-> payload, Sig |-> tx.Sig]

WithSig(tx, sig) ==
    [From |-> tx.From, To |-> tx.To, Nonce |-> tx.Nonce, Amount |-> tx.Amount,
     Type |-> tx.Type, Payload |-> tx.Payload, Sig |-> sig]

toProto(tx) ==
    WithData(tx, Bytes[tx.Amount],
             IF tx.Payload = Nil THEN << >> ELSE EncodePayload(tx.Type, tx.Payload))

\* fromProto: a transfer or a stake comes out without its (empty) payload.
fromProto(pm) ==
    WithData(pm, SetBytes(pm.Amount),
             IF NoPayload(pm.Type) THEN Nil ELSE DecodePayload(pm.Type, pm.Payload))

EncodeRLP(tx) ==
    WithData(tx, Bytes[tx.Amount],
             IF tx.Payload = Nil THEN << >> ELSE EncodePayloadRLP(tx.Type, tx.Payload))

DecodeRLP(rtx) ==
    WithData(rtx, SetBytes(rtx.Amount),
             IF rtx.Payload = << >> THEN Nil ELSE DecodePayloadRLP(rtx.Type, rtx.Payload))

\* Trx.Equal: an empty payload equals a missing one.
Equal(tx, tx0) ==
    /\ [tx EXCEPT !.Payload = Nil] = [tx0 EXCEPT !.Payload = Nil]
    /\ \/ tx.Payload # Nil /\ NoPayload(tx.Type)
       \/ tx.Payload = tx0.Payload

\* A bug: the old signature is part of what is signed.
PreImageWithSig(tx, chainId) == <<chainId, EncodeRLP(tx)>>

PreImageToSignTrxRLP(tx, chainId) == <<chainId, EncodeRLP(WithSig(tx, Nil))>>

\* External: a signature names its key and message; from another message it
\* recovers some address that nobody has.
Sign(key, preimg) == [key |-> key, preimg |-> preimg]
Sig2Addr(preimg, sig) == IF sig.preimg = preimg THEN sig.key ELSE Nil

\* Wallet.SignTrxRLP.
SignTrxRLP(key, tx, chainId) ==
    WithSig(tx, Sign(key, PreImageToSignTrxRLP(tx, chainId)))

VerifyTrxRLP(tx, chainId) ==
    Sig2Addr(PreImageToSignTrxRLP(tx, chainId), tx.Sig) = tx.From
================================================================================
