------------------------------- MODULE License -------------------------------
(***************************************************************************)
(* License encryption of src/encrypt/license.go.  EncryptLicense derives   *)
(* an AES key from (sourceKey, shiftKey, shiftArray): transferBytes picks  *)
(* sourceKey[index % len(sourceKey)] for every index of shiftArray, and    *)
(* transformBytes maps each picked byte r to (r + shift) % 128 + 128 in    *)
(* byte arithmetic; it then AES-GCM-encrypts the license with that key and *)
(* base64-encodes it.  DecryptLicense derives the key again from the       *)
(* parameters it is given and decrypts.                                    *)
(*                                                                         *)
(* An issuer encrypts licenses under its parameters; a verifier decrypts   *)
(* any issued license under parameters of its own, which may differ.       *)
(* Bytes and indexes are concrete integers; AES-GCM is symbolic (a sealed  *)
(* license opens only intact and under the same key).                      *)
(***************************************************************************)
EXTENDS Integers, Sequences, FiniteSets

CONSTANTS
    Texts,        \* license plaintexts
    SourceKeys,   \* candidate sourceKey byte sequences
    Shifts,       \* candidate shiftKey bytes
    ShiftArrays,  \* candidate shiftArray int64 sequences
    MaxLicenses   \* bound on the number of issued licenses

ASSUME \A k \in SourceKeys : \A i \in DOMAIN k : k[i] \in 0..255
ASSUME Shifts \subseteq 0..255

VARIABLES
    issued,   \* licenses handed out, with the parameters they were made with
    last      \* the outcome of the last call, for the properties

vars == <<issued, last>>

Params == [source : SourceKeys, shift : Shifts, array : ShiftArrays]

\* Go's % truncates toward zero: a negative index leaves a negative remainder.
GoRem(a, b) == IF a >= 0 THEN a % b ELSE -((-a) % b)

(***************************************************************************)
(* transferBytes: source[int(index) % sourceLen] for every index.  The     *)
(* division panics for an empty source, the indexing for a negative        *)
(* remainder.                                                              *)
(***************************************************************************)
TransferPanics(source, indexArray) ==
    IF Len(source) = 0 THEN TRUE
    ELSE \E i \in DOMAIN indexArray : GoRem(indexArray[i], Len(source)) < 0

TransferBytes(source, indexArray) ==
    [i \in DOMAIN indexArray |-> source[GoRem(indexArray[i], Len(source)) + 1]]

(***************************************************************************)
(* Mutants of TransformBytes (license.go:34-43), defined before it: a      *)
(* shift taken modulo 127 instead of 128, and the + 128 left out.          *)
(***************************************************************************)
TransformBytesMod127(source, shift) ==
    [i \in DOMAIN source |-> (((source[i] + shift) % 256) % 127) + 128]

TransformBytesNoHigh(source, shift) ==
    [i \in DOMAIN source |-> ((source[i] + shift) % 256) % 128]

\* transformBytes: ascii := (r + shift) % 128 in byte arithmetic; ascii + 128.
TransformBytes(source, shift) ==
    [i \in DOMAIN source |-> (((source[i] + shift) % 256) % 128) + 128]

DeriveKey(p) == TransformBytes(TransferBytes(p.source, p.array), p.shift)

\* aes.NewCipher: AES-128, AES-192 or AES-256.
CipherKey(key) == Len(key) \in {16, 24, 32}

Call(op, lic, p, status, val) ==
    [op |-> op, lic |-> lic, params |-> p, status |-> status, val |-> val]

NoText == "none"

(***************************************************************************)
(* Mutant of DecryptLicense (license.go:24-32), defined before it: the key *)
(* re-derived without the transformBytes step.                             *)
(***************************************************************************)
DecryptLicenseNoTransform(lic, p) ==
    LET key == TransferBytes(p.source, p.array) IN
    CASE ~lic.b64                       -> [status |-> "err", val |-> NoText]
      [] TransferPanics(p.source, p.array) -> [status |-> "panic", val |-> NoText]
      [] ~CipherKey(key)                -> [status |-> "err", val |-> NoText]
      [] lic.intact /\ lic.key = key    -> [status |-> "ok", val |-> lic.text]
      [] OTHER                          -> [status |-> "err", val |-> NoText]

(***************************************************************************)
(* DecryptLicense: base64-decode, derive the key, AesGcmDecrypt.           *)
(***************************************************************************)
DecryptLicense(lic, p) ==
    LET key == TransformBytes(TransferBytes(p.source, p.array), p.shift) IN
    CASE ~lic.b64                       -> [status |-> "err", val |-> NoText]
      [] TransferPanics(p.source, p.array) -> [status |-> "panic", val |-> NoText]
      [] ~CipherKey(key)                -> [status |-> "err", val |-> NoText]
      [] lic.intact /\ lic.key = key    -> [status |-> "ok", val |-> lic.text]
      [] OTHER                          -> [status |-> "err", val |-> NoText]

-----------------------------------------------------------------------------
NoLicense == [b64 |-> FALSE, intact |-> FALSE, key |-> <<>>, text |-> NoText,
              params |-> CHOOSE p \in Params : TRUE]

Init ==
    /\ issued = {}
    /\ last = Call("init", NoLicense, NoLicense.params, "ok", NoText)

(***************************************************************************)
(* EncryptLicense(text, sourceKey, shiftKey, shiftArray).  It panics where *)
(* transferBytes does, fails when the derived key is not an AES key size   *)
(* or the nonce cannot be read, and otherwise issues the license.          *)
(***************************************************************************)
EncryptLicense(t, p) ==
    /\ Cardinality(issued) < MaxLicenses
    /\ \/ /\ TransferPanics(p.source, p.array)
          /\ last' = Call("encrypt", NoLicense, p, "panic", NoText)
          /\ UNCHANGED issued
       \/ /\ ~TransferPanics(p.source, p.array)
          /\ LET key == DeriveKey(p)
                 lic == [b64 |-> TRUE, intact |-> TRUE, key |-> key, text |-> t, params |-> p]
             IN \/ /\ CipherKey(key)
                   /\ issued' = issued \cup {lic}
                   /\ last' = Call("encrypt", lic, p, "ok", NoText)
                \* aes.NewCipher rejects the key, or rand cannot fill the nonce
                \* (which may happen for any key).
                \/ /\ last' = Call("encrypt", NoLicense, p, "err", NoText)
                   /\ UNCHANGED issued

\* DecryptLicense called by a verifier on an issued license.
Verify(lic, p) ==
    /\ LET r == DecryptLicense(lic, p) IN
       last' = Call("decrypt", lic, p, r.status, r.val)
    /\ UNCHANGED issued

\* The license text is damaged in transit: base64 broken, or a byte flipped.
Damage(lic) ==
    /\ Cardinality(issued) < MaxLicenses
    /\ lic.b64 /\ lic.intact
    /\ \E d \in {[lic EXCEPT !.b64 = FALSE], [lic EXCEPT !.intact = FALSE]} :
          issued' = issued \cup {d}
    /\ UNCHANGED last

Next ==
    \/ \E t \in Texts, p \in Params : EncryptLicense(t, p)
    \/ \E lic \in issued, p \in Params : Verify(lic, p)
    \/ \E lic \in issued : Damage(lic)

Spec == Init /\ [][Next]_vars

-----------------------------------------------------------------------------
Statuses == {"ok", "err", "panic"}

TypeOK ==
    /\ \A lic \in issued : lic.params \in Params /\ lic.text \in Texts
                          /\ lic.b64 \in BOOLEAN /\ lic.intact \in BOOLEAN
                          /\ CipherKey(lic.key) /\ lic.key \in Seq(128..255)
    /\ last.op \in {"init", "encrypt", "decrypt"} /\ last.status \in Statuses
    /\ last.val \in Texts \cup {NoText}

(***************************************************************************)
(* Reference derivation of spec 4.3: source[i mod len(source)] for every   *)
(* index, then ((r + shift) mod 128) + 128, in unbounded arithmetic.       *)
(***************************************************************************)
SpecKey(p) ==
    [i \in DOMAIN p.array |->
        ((p.source[(p.array[i] % Len(p.source)) + 1] + p.shift) % 128) + 128]

(***************************************************************************)
(* The key EncryptLicense sealed every issued license with, computed by    *)
(* transferBytes and transformBytes in Go's int and byte arithmetic (with  *)
(* indexes past len(sourceKey) and byte sums that wrap), is the key the    *)
(* spec's reference derivation gives for the same parameters.              *)
(***************************************************************************)
DerivedKeyMatchesSpec ==
    \A lic \in issued : lic.key = SpecKey(lic.params)

(***************************************************************************)
(* Round trip: DecryptLicense of an intact issued license, with the very   *)
(* sourceKey, shiftKey and shiftArray it was encrypted with, returns its   *)
(* text.                                                                   *)
(***************************************************************************)
LicenseRoundTrip ==
    (last.op = "decrypt" /\ last.lic.b64 /\ last.lic.intact
        /\ last.params = last.lic.params)
        => last.status = "ok" /\ last.val = last.lic.text

=============================================================================
