----------------------------- MODULE MCEncrypter -----------------------------
(***************************************************************************)
(* Model values for Encrypter: two 32-byte keys (so a key change can be    *)
(* observed) and a 16-byte one (rejected by New and the Key32 helpers);    *)
(* a short secret (5 bytes, below the 12-byte nonce) and a long one, so    *)
(* both branches of Aesgcm.Decrypt are taken; two slots.                   *)
(***************************************************************************)
EXTENDS Encrypter

MCKeySize == [k \in Keys |-> IF k = "k16" THEN 16 ELSE 32]
MCTextLen == [t \in Texts |-> IF t = "short" THEN 5 ELSE 40]

=============================================================================
