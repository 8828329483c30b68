------------------------------- MODULE WalletKey -------------------------------
(***************************************************************************)
(* A private key under a passphrase (types/crypto/wallet_key.go) and the   *)
(* AES-CBC encryption shared with the secret feeder                        *)
(* (sfeeder/common/crypto.go).  A ciphertext is the pair of the key it was *)
(* made with and its plaintext.  The only check of a decryption is its     *)
(* PKCS#7 padding, so that bytes decrypted with another key are mostly     *)
(* refused, and sometimes (once in about 256 times) taken for a plaintext. *)
(***************************************************************************)
CONSTANTS Nil,      \* a nil slice
          Error,    \* a returned error
          Garbage   \* bytes nobody encrypted

\* Enc: aes.NewCipher refuses a key of length 0.
Enc(sk, plaintext) ==
    IF sk = Nil THEN Error ELSE [sk |-> sk, text |-> plaintext]

\* Dec and PKCS7UnPadding: the possible results.
Dec(sk, ciphertext) ==
    IF sk = Nil THEN {Error}
    ELSE IF ciphertext.sk = sk THEN {ciphertext.text}
    ELSE {Error, Garbage}

NewWalletKeyWith(key, pass) ==
    [Address |-> key, Text |-> Enc(pass, key), prvKey |-> Nil]

\* Unlock with a passphrase: the possible results.  The decrypted key is not
\* compared with the address of the file.
Unlock(wk, s) ==
    IF wk.prvKey # Nil THEN {wk}
    ELSE {IF k = Error THEN Error ELSE [wk EXCEPT !.prvKey = k] : k \in Dec(s, wk.Text)}

Lock(wk) == [wk EXCEPT !.prvKey = Nil]

LockWith(wk, pass) ==
    IF wk.prvKey = Nil THEN wk
    ELSE Lock([wk EXCEPT !.Text = Enc(pass, wk.prvKey)])

\* Save writes everything but the private key; OpenWalletKey reads it back.
Saved(wk) == [Address |-> wk.Address, Text |-> wk.Text]
OpenWalletKey(file) == [Address |-> file.Address, Text |-> file.Text, prvKey |-> Nil]
================================================================================
