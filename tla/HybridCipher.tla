----------------------------- MODULE HybridCipher -----------------------------
(***************************************************************************)
(* The key-pair secret exchange of src/encrypt/ssh.go: EncryptWithSshKey   *)
(* OAEP-encrypts a payload of at most 256 bytes directly, and otherwise    *)
(* seals it under a fresh AES-256 key (encryptAES256: a SHA-256 digest,    *)
(* an 8-byte little-endian length, the payload and random padding, all     *)
(* CBC-encrypted behind a random IV) whose key it OAEP-encrypts in front;  *)
(* DecryptWithSshKey undoes either form.                                   *)
(*                                                                         *)
(* A sender encrypts payloads to public keys and puts the base64 text on   *)
(* the wire; the wire (storage, transport or an attacker, who holds every  *)
(* public key) may corrupt, cut, extend or splice those texts, and may     *)
(* build envelopes of its own with any length field; a receiver decrypts   *)
(* whatever is on the wire with a private key text.                        *)
(*                                                                         *)
(* Cryptography is symbolic (an OAEP block opens only with its pair's      *)
(* private key, a CBC body decrypts to its plaintext only intact and under *)
(* its key, and to garbage otherwise), but every length is kept exact:     *)
(* the code's decisions are made on lengths.                               *)
(***************************************************************************)
EXTENDS Naturals, FiniteSets

CONSTANTS
    Pairs,        \* RSA key pairs (GenerateSshKeyPairs makes 2048-bit ones)
    ModBytes,     \* ModBytes[p]: modulus size of pair p in bytes
    PubTexts,     \* public key texts a sender may be handed
    PrivTexts,    \* private key texts a receiver may be handed
    Plaintexts,   \* payloads, as Bytes records
    Tampers,      \* the kinds of damage the wire may do
    CraftedN,     \* length fields an attacker may write into its envelopes
    MaxMsgs,      \* bound on the number of texts on the wire
    MaxSliceLen   \* largest n for which make([]byte, n) does not panic

BlockSize  == 16   \* aes.BlockSize
DigestSize == 32   \* sha256.Size
LenSize    == 8    \* binary.Write of a uint64
OAEPBlock  == 256  \* the length ssh.go expects of every OAEP output
DirectMax  == 256  \* len(plainText) <= 256 takes the direct path
OAEPCapacity(p) == ModBytes[p] - 2 * DigestSize - 2   \* RFC 8017, SHA-256

\* A byte string: where its bytes come from, which one, and how many.
Bytes(of, id, len) == [of |-> of, id |-> id, len |-> len]

\* Key texts: ssh.MarshalAuthorizedKey and marshalRSAPrivate of a pair, and
\* the other texts a caller may pass.
AuthKey(fmt, p) == [fmt |-> fmt, pair |-> p]   \* "ssh-rsa", "ssh-ed25519", "junk"
PrivKey(fmt, p) == [fmt |-> fmt, pair |-> p]   \* "pkcs1", "pkcs8", "nopem"

ASSUME ModBytes \in [Pairs -> {256, 512}]
ASSUME \A t \in PubTexts : t.fmt \in {"ssh-rsa", "ssh-ed25519", "junk"} /\ t.pair \in Pairs
ASSUME \A t \in PrivTexts : t.fmt \in {"pkcs1", "pkcs8", "nopem"} /\ t.pair \in Pairs
ASSUME MaxMsgs \in Nat /\ MaxSliceLen \in Nat

VARIABLES
    wire,     \* the texts on the wire, each with its provenance
    nextKey,  \* number of AES keys drawn so far (each one is fresh)
    last      \* the outcome of the last call, for the properties

vars == <<wire, nextKey, last>>

(***************************************************************************)
(* Symbolic SHA-256 and the plaintext of an envelope body.                 *)
(***************************************************************************)
Sum(n, data, pad) == <<"sha256", n, data, pad>>
Framed(n, data, pad) == [sum |-> Sum(n, data, pad), n |-> n, data |-> data, pad |-> pad]
Garbage == [sum |-> <<"garbage", 0, Bytes("garbage", 0, 0), 0>>, n |-> 0,
            data |-> Bytes("garbage", 0, 0), pad |-> 0]

NoBytes == Bytes("none", 0, 0)
NoBody  == [len |-> 0, key |-> NoBytes, plain |-> Garbage, intact |-> TRUE]
NoBlock == [pair |-> CHOOSE p \in Pairs : TRUE, content |-> NoBytes, intact |-> FALSE]

(***************************************************************************)
(* Mutant of PadLen (ssh.go:144), defined before it: padding computed from *)
(* the payload alone, forgetting the 8-byte length already in the buffer.  *)
(***************************************************************************)
PadLenNoHeader(bufLen) == BlockSize - ((bufLen - LenSize) % BlockSize)

\* paddingN := aes.BlockSize - (buf.Len() % aes.BlockSize), always 1..16.
PadLen(bufLen) == BlockSize - (bufLen % BlockSize)

(***************************************************************************)
(* encryptAES256(data) under key: IV || CBC(sum || n || data || padding).  *)
(***************************************************************************)
EncryptAES256(key, data, n) ==
    LET pad == PadLen(LenSize + data.len)
        plain == Framed(n, data, pad)
    IN [len |-> BlockSize + DigestSize + LenSize + data.len + pad,
        key |-> key, plain |-> plain, intact |-> TRUE]

(***************************************************************************)
(* Mutant of DigestOK (ssh.go:196-199), defined before it: the SHA-256     *)
(* comparison dropped.                                                     *)
(***************************************************************************)
DigestIgnored(plain) == TRUE

DigestOK(plain) == plain.sum = Sum(plain.n, plain.data, plain.pad)

Outcome(status, why, val) == [status |-> status, why |-> why, val |-> val]

(***************************************************************************)
(* decryptAES(key, cipherText): errors for a key aes.NewCipher refuses, a  *)
(* body shorter than an IV or not block-aligned, a digest mismatch, and a  *)
(* body too short for the length; cipherText[:32] panics when fewer than   *)
(* 32 bytes follow the IV (base64 leaves at most 2 bytes of spare cap);    *)
(* make([]byte, n) panics for a huge n;                                    *)
(* buf.Read fails with io.EOF only when no byte is left, and otherwise     *)
(* fills min(n, rest) bytes of the n it returns.                           *)
(***************************************************************************)
DecryptAES(key, body) ==
    LET plain == IF body.intact /\ body.key = key THEN body.plain ELSE Garbage
        rest  == body.len - BlockSize - DigestSize   \* bytes after the digest
    IN CASE key.len \notin {16, 24, 32}               -> Outcome("err", "cipher", NoBytes)
         [] body.len < BlockSize                      -> Outcome("err", "short", NoBytes)
         [] (body.len - BlockSize) % BlockSize # 0    -> Outcome("err", "align", NoBytes)
         [] body.len - BlockSize < DigestSize         -> Outcome("panic", "slice", NoBytes)
         [] ~DigestOK(plain)                          -> Outcome("err", "sha256", NoBytes)
         [] rest < LenSize                            -> Outcome("err", "length", NoBytes)
         [] plain.n > MaxSliceLen                     -> Outcome("panic", "makeslice", NoBytes)
         [] rest = LenSize                            -> Outcome("err", "eof", NoBytes)
         [] OTHER -> Outcome("ok", "", Bytes(plain.data.of, plain.data.id, plain.n))

(***************************************************************************)
(* Mutant of DecryptWithSshKey (ssh.go:87-120), defined before it: the     *)
(* test for an empty remainder after the OAEP block dropped.               *)
(***************************************************************************)
DecryptWithSshKeyAlwaysAES(m, priv) ==
    CASE ~m.b64                                   -> Outcome("err", "base64", NoBytes)
      [] m.oaep = NoBlock                         -> Outcome("err", "short", NoBytes)
      [] priv.fmt = "nopem"                       -> Outcome("panic", "nilblock", NoBytes)
      [] priv.fmt = "pkcs8"                       -> Outcome("err", "x509", NoBytes)
      [] ~(m.oaep.intact /\ m.oaep.pair = priv.pair) -> Outcome("err", "oaep", NoBytes)
      [] OTHER                                    -> DecryptAES(m.oaep.content, m.body)

(***************************************************************************)
(* DecryptWithSshKey(text, privateKey).  pem.Decode returns a nil block    *)
(* for a text that is not PEM, and block.Bytes then dereferences nil.      *)
(***************************************************************************)
DecryptWithSshKey(m, priv) ==
    CASE ~m.b64                                   -> Outcome("err", "base64", NoBytes)
      [] m.oaep = NoBlock                         -> Outcome("err", "short", NoBytes)
      [] priv.fmt = "nopem"                       -> Outcome("panic", "nilblock", NoBytes)
      [] priv.fmt = "pkcs8"                       -> Outcome("err", "x509", NoBytes)
      [] ~(m.oaep.intact /\ m.oaep.pair = priv.pair) -> Outcome("err", "oaep", NoBytes)
      [] m.body.len = 0                           -> Outcome("ok", "", m.oaep.content)
      [] OTHER                                    -> DecryptAES(m.oaep.content, m.body)

(***************************************************************************)
(* EncryptWithSshKey(plain, pub) with k the AES key it would draw.         *)
(* ParseAuthorizedKey refuses junk; the unchecked assertion to             *)
(* *rsa.PublicKey panics on any other key type; rsa.EncryptOAEP refuses a  *)
(* message longer than the modulus allows; an OAEP output that is not 256  *)
(* bytes (any modulus but 2048 bits) is refused.                           *)
(***************************************************************************)
Msg(from, p, content, body, plain) ==
    [b64 |-> TRUE, oaep |-> [pair |-> p, content |-> content, intact |-> TRUE],
     body |-> body, from |-> from, plain |-> plain, pair |-> p, tampered |-> FALSE]

NoMsg == Msg("nobody", NoBlock.pair, NoBytes, NoBody, NoBytes)
Sent(status, why, m) == [status |-> status, why |-> why, msg |-> m]

EncryptWithSshKey(plain, pub, k) ==
    LET p == pub.pair
        content == IF plain.len <= DirectMax THEN plain ELSE k
    IN CASE pub.fmt = "junk"               -> Sent("err", "parse", NoMsg)
         [] pub.fmt = "ssh-ed25519"        -> Sent("panic", "assert", NoMsg)
         [] content.len > OAEPCapacity(p)  -> Sent("err", "oaep", NoMsg)
         [] ModBytes[p] # OAEPBlock        -> Sent("err", "oaeplen", NoMsg)
         [] plain.len <= DirectMax         -> Sent("ok", "", Msg("sender", p, plain, NoBody, plain))
         [] OTHER -> Sent("ok", "", Msg("sender", p, k, EncryptAES256(k, plain, plain.len), plain))

-----------------------------------------------------------------------------
Call(op, m, pub, priv, status, why, val) ==
    [op |-> op, msg |-> m, pub |-> pub, priv |-> priv,
     status |-> status, why |-> why, val |-> val]

AESKey(i) == Bytes("aeskey", i, 32)

Init ==
    /\ wire = {}
    /\ nextKey = 0
    /\ last = Call("init", NoMsg, CHOOSE t \in PubTexts : TRUE,
                   CHOOSE t \in PrivTexts : TRUE, "ok", "", NoBytes)

(***************************************************************************)
(* The sender calls EncryptWithSshKey; a successful text goes on the wire. *)
(* Reading the random source can fail once the key is an RSA key (the AES *)
(* key, the padding, the IV, or OAEP's seed).                              *)
(***************************************************************************)
Send(plain, pub) ==
    /\ Cardinality(wire) < MaxMsgs
    /\ LET k == AESKey(nextKey + 1)
           r == EncryptWithSshKey(plain, pub, k)
       IN \/ /\ last' = Call("encrypt", r.msg, pub, last.priv, r.status, r.why, NoBytes)
             /\ wire' = IF r.status = "ok" THEN wire \cup {r.msg} ELSE wire
             /\ nextKey' = IF r.status = "ok" /\ plain.len > DirectMax
                           THEN nextKey + 1 ELSE nextKey
          \/ /\ pub.fmt = "ssh-rsa"
             /\ last' = Call("encrypt", NoMsg, pub, last.priv, "err", "rand", NoBytes)
             /\ UNCHANGED <<wire, nextKey>>

(***************************************************************************)
(* The wire damages a text: a byte flipped in the OAEP block or in the     *)
(* body (IV or CBC blocks), a block dropped or added, the text cut to its  *)
(* first 256 bytes or below them, the base64 broken; or an OAEP block      *)
(* spliced in front of another text's body.                                *)
(***************************************************************************)
Damaged(m, kind) ==
    CASE kind = "flip_oaep"  -> [m EXCEPT !.oaep.intact = FALSE]
      [] kind = "flip_body"  -> [m EXCEPT !.body.intact = FALSE]
      [] kind = "drop_block" -> [m EXCEPT !.body.len = @ - BlockSize, !.body.intact = FALSE]
      [] kind = "add_block"  -> [m EXCEPT !.body.len = @ + BlockSize, !.body.intact = FALSE]
      [] kind = "cut"        -> [m EXCEPT !.body = NoBody]
      [] kind = "short"      -> [m EXCEPT !.oaep = NoBlock, !.body = NoBody]
      [] kind = "base64"     -> [m EXCEPT !.b64 = FALSE]

Applies(m, kind) ==
    CASE kind \in {"flip_body", "drop_block", "cut"} -> m.body.len > 0
      [] kind = "flip_oaep" -> m.oaep # NoBlock
      [] OTHER              -> TRUE

Tamper(m, kind) ==
    /\ Cardinality(wire) < MaxMsgs
    /\ Applies(m, kind)
    /\ wire' = wire \cup {[Damaged(m, kind) EXCEPT !.tampered = TRUE]}
    /\ UNCHANGED <<nextKey, last>>

Splice(m1, m2) ==
    /\ "splice" \in Tampers
    /\ Cardinality(wire) < MaxMsgs
    /\ m1.body # m2.body
    /\ m2.body.len > 0          \* splicing an empty body is the "cut" damage
    /\ wire' = wire \cup {[m1 EXCEPT !.body = m2.body, !.tampered = TRUE]}
    /\ UNCHANGED <<nextKey, last>>

(***************************************************************************)
(* Anyone holding a public key can build an envelope for its pair with     *)
(* whatever length field it likes, digest and all.                         *)
(***************************************************************************)
Craft(pub, data, n) ==
    /\ Cardinality(wire) < MaxMsgs
    /\ pub.fmt = "ssh-rsa" /\ ModBytes[pub.pair] = OAEPBlock
    /\ LET k == AESKey(nextKey + 1) IN
       wire' = wire \cup {Msg("attacker", pub.pair, k, EncryptAES256(k, data, n), data)}
    /\ nextKey' = nextKey + 1
    /\ UNCHANGED last

(***************************************************************************)
(* A receiver calls DecryptWithSshKey on a text from the wire.             *)
(***************************************************************************)
Receive(m, priv) ==
    /\ LET r == DecryptWithSshKey(m, priv) IN
       last' = Call("decrypt", m, last.pub, priv, r.status, r.why, r.val)
    /\ UNCHANGED <<wire, nextKey>>

Next ==
    \/ \E plain \in Plaintexts, pub \in PubTexts : Send(plain, pub)
    \/ \E m \in wire, kind \in Tampers \ {"splice"} : Tamper(m, kind)
    \/ \E m1, m2 \in wire : Splice(m1, m2)
    \/ \E pub \in PubTexts, data \in Plaintexts, n \in CraftedN : Craft(pub, data, n)
    \/ \E m \in wire, priv \in PrivTexts : Receive(m, priv)

Spec == Init /\ [][Next]_vars

-----------------------------------------------------------------------------
TypeOK ==
    /\ nextKey \in 0..MaxMsgs
    /\ Cardinality(wire) <= MaxMsgs
    /\ \A m \in wire : m.from \in {"sender", "attacker"} /\ m.pair \in Pairs
    \* an envelope body as encryptAES256 writes it: IV || whole CBC blocks
    /\ \A m \in wire : ~m.tampered /\ m.body.len > 0 =>
           /\ (m.body.len - BlockSize) % BlockSize = 0
           /\ m.body.len >= BlockSize + DigestSize + LenSize
    /\ last.op \in {"init", "encrypt", "decrypt"}
    /\ last.status \in {"ok", "err", "panic"}

(***************************************************************************)
(* Round trip: a text the sender made and nobody touched, decrypted with   *)
(* the PKCS#1 private key of the pair it was made for, gives back exactly  *)
(* the payload (direct path and envelope alike: the padding keeps the body *)
(* block-aligned and the length field brings back the payload's size).     *)
(***************************************************************************)
RoundTrip ==
    (last.op = "decrypt" /\ last.msg.from = "sender" /\ ~last.msg.tampered
        /\ last.priv = PrivKey("pkcs1", last.msg.pair))
        => last.status = "ok" /\ last.val = last.msg.plain

(***************************************************************************)
(* No silent corruption: whatever the wire did to a text the sender made,  *)
(* DecryptWithSshKey either fails or returns the payload that was sent.    *)
(***************************************************************************)
NoSilentCorruption ==
    (last.op = "decrypt" /\ last.msg.from = "sender" /\ last.status = "ok")
        => last.val = last.msg.plain

(***************************************************************************)
(* Failures are errors: neither call panics, whatever key text or          *)
(* ciphertext it is handed (spec: bad PEM, wrong key type and malformed    *)
(* input are reported to the caller).                                      *)
(***************************************************************************)
NoPanic == last.status # "panic"

=============================================================================
