---------------------------- MODULE MCHybridCipher ----------------------------
(***************************************************************************)
(* Model values for HybridCipher.  Two 2048-bit pairs (so a text can reach *)
(* the wrong receiver) and a 4096-bit one (whose OAEP output is not the    *)
(* 256 bytes ssh.go expects).  Payloads of 10 and 32 bytes (direct; 32 is *)
(* also a valid AES key length), 190 (the OAEP capacity of a 2048-bit key) *)
(* and 200 (inside the 191..256 gap), 257 (first envelope size) and 312    *)
(* (an envelope whose 8 + n is a multiple of 16, so padding is a whole     *)
(* block).                                                                 *)
(***************************************************************************)
EXTENDS HybridCipher

Payload(name, len) == Bytes(name, 0, len)

MCModBytes == [p \in Pairs |-> IF p = "big" THEN 512 ELSE 256]

\* the authorized keys GenerateSshKeyPairs makes, an unparsable text and
\* an ed25519 key; the PKCS#1 PEM it makes, a PKCS#8 PEM and a non-PEM text
MCRSAPubTexts  == {AuthKey("ssh-rsa", p) : p \in Pairs}
MCPubTexts     == MCRSAPubTexts \cup {AuthKey("junk", "a"), AuthKey("ssh-ed25519", "a")}
MCPKCS1Texts   == {PrivKey("pkcs1", p) : p \in Pairs \ {"big"}}
MCPrivTexts    == MCPKCS1Texts \cup {PrivKey("pkcs8", "a"), PrivKey("nopem", "a")}

\* for the crafted-length question: the keys the repository makes, and no
\* text that panics before decryptAES is reached
MCCraftPubTexts  == MCRSAPubTexts \cup {AuthKey("junk", "a")}
MCCraftPrivTexts == MCPKCS1Texts \cup {PrivKey("pkcs8", "a")}

MCPlaintexts == {Payload("p10", 10), Payload("p32", 32), Payload("p190", 190),
                 Payload("p200", 200), Payload("p257", 257), Payload("p312", 312)}

\* the wire's damage that SHA-256 and OAEP are there to catch; and that
\* plus cutting a text to its first 256 bytes
MCTampers == {"flip_oaep", "flip_body", "drop_block", "add_block", "short",
              "base64", "splice"}
MCTampersWithCut == MCTampers \cup {"cut"}

\* a crafted envelope's length field above MaxSliceLen.  MaxSliceLen stands
\* for Go's allocation limit (2^48 bytes on amd64) scaled down to TLC's
\* integers; any uint64 above it makes make([]byte, n) panic
MCHugeN == {100000}

=============================================================================
