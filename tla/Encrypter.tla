------------------------------ MODULE Encrypter ------------------------------
(***************************************************************************)
(* The Encrypter strategies of src/encrypt: None (plain text) and Aesgcm   *)
(* (AES-GCM with a random nonce, and a Compat flag that turns a failed     *)
(* decryption into a pass-through), plus the key-taking helpers            *)
(* AesGcmEncrypt/AesGcmDecrypt and their 32-byte-key variants.             *)
(*                                                                         *)
(* The strategies are driven by the store that uses them: secret values    *)
(* live in Slots, are written with the configured strategy's Encrypt and   *)
(* read back with its Decrypt, and the store's operator may reconfigure    *)
(* it (None, then Aesgcm in compat mode, then strict mode, or a new key)   *)
(* while old values stay where they were.  Storage may corrupt a sealed    *)
(* value.                                                                  *)
(*                                                                         *)
(* Cryptography is symbolic: a sealed value records the key and the text;  *)
(* opening it succeeds exactly when it is intact and opened with the same  *)
(* key (the AEAD guarantee).  Lengths are kept, since Decrypt branches on  *)
(* len(ciphertext) < NonceSize.                                            *)
(***************************************************************************)
EXTENDS Naturals

CONSTANTS
    Keys,       \* key material the operator may configure
    KeySize,    \* KeySize[k]: length in bytes of key k
    Texts,      \* secret values callers write
    TextLen,    \* TextLen[t]: length in bytes of text t
    Slots,      \* places in the store that hold one secret each
    NonceSize,  \* gcm.NonceSize(), 12 for AES-GCM
    TagSize,    \* GCM authentication tag, 16 bytes
    NoText,     \* model value: no text (unwritten slot, failed call)
    CipherText  \* model value: ciphertext bytes read as a string

ASSUME KeySize \in [Keys -> Nat] /\ TextLen \in [Texts -> Nat]
ASSUME NoText \notin Texts /\ CipherText \notin Texts

VARIABLES
    enc,      \* the Encrypter the store is configured with
    store,    \* store[s]: the bytes held in slot s
    written,  \* history: written[s] is the text last written to slot s
    last      \* the outcome of the last call, for the properties

vars == <<enc, store, written, last>>

(***************************************************************************)
(* Byte strings held in the store.                                         *)
(***************************************************************************)
Raw(t)        == [kind |-> "raw", text |-> t]                \* []byte(plaintext)
Sealed(k, t)  == [kind |-> "sealed", key |-> k, text |-> t]  \* nonce || gcm.Seal
Corrupted(v)  == [v EXCEPT !.kind = "corrupt"]               \* a byte flipped
Unset         == [kind |-> "unset"]

\* Every sealing path (New, AesGcmKey32Encrypt) admits only 32-byte keys.
Values == {Raw(t) : t \in Texts}
            \cup {[kind |-> c, key |-> k, text |-> t] :
                    c \in {"sealed", "corrupt"}, k \in {k \in Keys : KeySize[k] = 32},
                    t \in Texts}

ByteLen(v) == IF v.kind = "raw" THEN TextLen[v.text]
              ELSE NonceSize + TextLen[v.text] + TagSize

\* string(ciphertext): the stored bytes read as a string.  For a raw value
\* that is its text; for a sealed one it is ciphertext, no secret at all.
AsString(v) == IF v.kind = "raw" THEN v.text ELSE CipherText

(***************************************************************************)
(* gcm.Open: authentic only for an intact value sealed under the same key. *)
(***************************************************************************)
Open(k, v) == IF v.kind = "sealed" /\ v.key = k
              THEN [ok |-> TRUE, val |-> v.text]
              ELSE [ok |-> FALSE, val |-> NoText]

\* aes.NewCipher accepts AES-128, AES-192 and AES-256 keys.
CipherKey(k) == KeySize[k] \in {16, 24, 32}

Result(op, s, ok, v, mode, k) ==
    [op |-> op, slot |-> s, ok |-> ok, val |-> v, mode |-> mode, key |-> k]

(***************************************************************************)
(* Mutants of Decrypt (plausible slips in aesgcm.go:54-86), defined before *)
(* it: the compat test dropped on a failed Open, and on the short branch.  *)
(***************************************************************************)
DecryptIgnoringCompat(e, v) ==
    IF ByteLen(v) < NonceSize
    THEN IF e.compat THEN [ok |-> TRUE, val |-> AsString(v)]
                     ELSE [ok |-> FALSE, val |-> NoText]
    ELSE IF ~Open(e.key, v).ok THEN [ok |-> TRUE, val |-> AsString(v)]
         ELSE Open(e.key, v)

DecryptShortStrict(e, v) ==
    IF ByteLen(v) < NonceSize
    THEN [ok |-> FALSE, val |-> NoText]
    ELSE IF ~Open(e.key, v).ok /\ e.compat THEN [ok |-> TRUE, val |-> AsString(v)]
         ELSE Open(e.key, v)

(***************************************************************************)
(* Aesgcm.Decrypt: a value shorter than a nonce is malformed, or passed    *)
(* through in compat mode; a failed Open is an error, or passed through in *)
(* compat mode.                                                            *)
(***************************************************************************)
Decrypt(e, v) ==
    IF ByteLen(v) < NonceSize
    THEN IF e.compat THEN [ok |-> TRUE, val |-> AsString(v)]
                     ELSE [ok |-> FALSE, val |-> NoText]
    ELSE IF ~Open(e.key, v).ok /\ e.compat THEN [ok |-> TRUE, val |-> AsString(v)]
         ELSE Open(e.key, v)

\* AesGcmDecrypt: the same without compat mode, after aes.NewCipher(key).
AesGcmDecrypt(k, v) ==
    IF ~CipherKey(k) \/ ByteLen(v) < NonceSize
    THEN [ok |-> FALSE, val |-> NoText]
    ELSE Open(k, v)

-----------------------------------------------------------------------------
Init ==
    /\ enc = [kind |-> "none", key |-> CHOOSE k \in Keys : TRUE, compat |-> FALSE]
    /\ store = [s \in Slots |-> Unset]
    /\ written = [s \in Slots |-> NoText]
    /\ last = Result("init", CHOOSE s \in Slots : TRUE, TRUE, NoText, "none", enc.key)

(***************************************************************************)
(* The operator configures the store.  New(key) builds an Aesgcm and must  *)
(* reject a key that is not 32 bytes; Compat is set once, at construction. *)
(***************************************************************************)
UseNone ==
    /\ enc' = [enc EXCEPT !.kind = "none", !.compat = FALSE]
    /\ last' = Result("new", last.slot, TRUE, NoText, "none", enc.key)
    /\ UNCHANGED <<store, written>>

New(k, compat) ==
    /\ \/ /\ KeySize[k] = 32
          /\ enc' = [kind |-> "aesgcm", key |-> k, compat |-> compat]
          /\ last' = Result("new", last.slot, TRUE, NoText, "none", k)
       \/ /\ KeySize[k] # 32
          /\ last' = Result("new", last.slot, FALSE, NoText, "none", k)
          /\ UNCHANGED enc
    /\ UNCHANGED <<store, written>>

(***************************************************************************)
(* Encrypt(t) into slot s with the configured strategy.  Aesgcm.Encrypt    *)
(* fails, and nothing is stored, when reading the nonce from rand fails.   *)
(***************************************************************************)
Store(s, v, t) ==
    /\ store' = [store EXCEPT ![s] = v]
    /\ written' = [written EXCEPT ![s] = t]
    /\ last' = Result("encrypt", s, TRUE, NoText, "none", enc.key)

EncryptNone(s, t) ==
    /\ enc.kind = "none"
    /\ Store(s, Raw(t), t)
    /\ UNCHANGED enc

EncryptAesgcm(s, t) ==
    /\ enc.kind = "aesgcm"
    /\ \/ Store(s, Sealed(enc.key, t), t)
       \/ /\ last' = Result("encrypt", s, FALSE, NoText, "none", enc.key)
          /\ UNCHANGED <<store, written>>
    /\ UNCHANGED enc

\* Mutant of Key32Encrypt, defined before it: the length check dropped, so
\* any AES key size is accepted by AesGcmEncrypt.
Key32EncryptAnyKey(s, t, k) ==
    /\ \/ /\ CipherKey(k)
          /\ store' = [store EXCEPT ![s] = Sealed(k, t)]
          /\ written' = [written EXCEPT ![s] = t]
          /\ last' = Result("encrypt", s, TRUE, NoText, "none", k)
       \/ /\ ~CipherKey(k)
          /\ last' = Result("encrypt", s, FALSE, NoText, "none", k)
          /\ UNCHANGED <<store, written>>
    /\ UNCHANGED enc

\* AesGcmKey32Encrypt(key, t): errKeySize unless key is 32 bytes.
Key32Encrypt(s, t, k) ==
    /\ \/ /\ KeySize[k] = 32
          /\ store' = [store EXCEPT ![s] = Sealed(k, t)]
          /\ written' = [written EXCEPT ![s] = t]
          /\ last' = Result("encrypt", s, TRUE, NoText, "none", k)
       \/ /\ KeySize[k] # 32
          /\ last' = Result("encrypt", s, FALSE, NoText, "none", k)
          /\ UNCHANGED <<store, written>>
    /\ UNCHANGED enc

(***************************************************************************)
(* Decrypt slot s with the configured strategy, or with an explicit key.   *)
(***************************************************************************)
DecryptNone(s) ==
    /\ enc.kind = "none"
    /\ store[s] # Unset
    /\ last' = Result("decrypt", s, TRUE, AsString(store[s]), "none", enc.key)
    /\ UNCHANGED <<enc, store, written>>

DecryptAesgcm(s) ==
    /\ enc.kind = "aesgcm"
    /\ store[s] # Unset
    /\ LET r == Decrypt(enc, store[s]) IN
       last' = Result("decrypt", s, r.ok, r.val,
                      IF enc.compat THEN "compat" ELSE "strict", enc.key)
    /\ UNCHANGED <<enc, store, written>>

\* AesGcmKey32Decrypt(key, c): errKeySize unless 32 bytes, then AesGcmDecrypt.
Key32Decrypt(s, k) ==
    /\ store[s] # Unset
    /\ LET r == IF KeySize[k] = 32 THEN AesGcmDecrypt(k, store[s])
                ELSE [ok |-> FALSE, val |-> NoText] IN
       last' = Result("decrypt", s, r.ok, r.val, "strict", k)
    /\ UNCHANGED <<enc, store, written>>

(***************************************************************************)
(* Storage corrupts a sealed value (one byte flipped, length unchanged).   *)
(***************************************************************************)
Corrupt(s) ==
    /\ store[s].kind = "sealed"
    /\ store' = [store EXCEPT ![s] = Corrupted(store[s])]
    /\ last' = Result("corrupt", s, TRUE, NoText, "none", enc.key)
    /\ UNCHANGED <<enc, written>>

Next ==
    \/ UseNone
    \/ \E k \in Keys, c \in BOOLEAN : New(k, c)
    \/ \E s \in Slots, t \in Texts :
          EncryptNone(s, t) \/ EncryptAesgcm(s, t)
    \/ \E s \in Slots, t \in Texts, k \in Keys : Key32Encrypt(s, t, k)
    \/ \E s \in Slots : DecryptNone(s) \/ DecryptAesgcm(s) \/ Corrupt(s)
    \/ \E s \in Slots, k \in Keys : Key32Decrypt(s, k)

Spec == Init /\ [][Next]_vars

-----------------------------------------------------------------------------
Modes == {"none", "compat", "strict"}

TypeOK ==
    /\ enc \in [kind : {"none", "aesgcm"}, key : Keys, compat : BOOLEAN]
    /\ store \in [Slots -> Values \cup {Unset}]
    /\ written \in [Slots -> Texts \cup {NoText}]
    /\ last.op \in {"init", "new", "encrypt", "decrypt", "corrupt"}
    /\ last.mode \in Modes /\ last.ok \in BOOLEAN

(***************************************************************************)
(* Mixed-mode migration: in compat mode, a slot written before encryption  *)
(* was enabled (by None, whatever its length) or written by Aesgcm under   *)
(* the current key and intact reads back as the text last written to it.   *)
(***************************************************************************)
Legible(v, k) == v.kind = "raw" \/ (v.kind = "sealed" /\ v.key = k)

CompatReadsBothFormats ==
    (last.op = "decrypt" /\ last.mode = "compat" /\ Legible(store[last.slot], last.key))
        => last.ok /\ last.val = written[last.slot]

-----------------------------------------------------------------------------
(***************************************************************************)
(* Refinement of SecretStore.  The abstract contents are the texts last    *)
(* written; an Encrypt call (any strategy, or AesGcmKey32Encrypt) is a     *)
(* write or a refused write, and a decryption without compat mode          *)
(* (Aesgcm.Decrypt with Compat off, AesGcmKey32Decrypt) is an              *)
(* authenticated read.  Reconfiguration, None and compat reads and storage *)
(* faults are the abstract Other.                                          *)
(***************************************************************************)
StoreReply ==
    CASE last.op = "encrypt" ->
           [op |-> "write", slot |-> last.slot, ok |-> last.ok, val |-> NoText]
      [] last.op = "decrypt" /\ last.mode = "strict" ->
           [op |-> "read", slot |-> last.slot, ok |-> last.ok, val |-> last.val]
      [] OTHER ->
           [op |-> "none", slot |-> CHOOSE s \in Slots : TRUE, ok |-> TRUE, val |-> NoText]

Abstract == INSTANCE SecretStore WITH contents <- written, reply <- StoreReply

(***************************************************************************)
(* The Encrypter strategies implement a secret store: every write reports  *)
(* success exactly when it stored its text, and a strict decryption that   *)
(* succeeds returns exactly the text last written to that slot, whatever   *)
(* strategy or key wrote it and whatever storage did to it since.          *)
(***************************************************************************)
SecretStoreRefined == Abstract!Spec

=============================================================================
