------------------------------ MODULE NpmParse ------------------------------
(***************************************************************************)
(* packages/npm/creator.go: ParsePackage turns an npm publish request (the *)
(* JSON document `npm publish` sends) into the Package that is stored.     *)
(*                                                                         *)
(* The JSON maps `versions` and `_attachments` are Go maps: ranging over   *)
(* them visits the entries in an unspecified order, and ParsePackage       *)
(* returns from inside the first iteration, so the first version and the  *)
(* first attachment of that order are the ones checked.  Both are chosen  *)
(* with \E.                                                                *)
(*                                                                         *)
(* Data is abstracted to what the checks tell apart:                       *)
(*   - a package name is a sequence of character classes ("a" a lowercase  *)
(*     letter, "A" an uppercase one, "_", ".", "@", "/", " " white space,  *)
(*     "~" any of the characters ~ ' ! ( ) and star), enough for          *)
(*     validateName's regular expression;                                  *)
(*   - a version string is its go-version parse: valid or not, and its     *)
(*     canonical String();                                                 *)
(*   - base64 text is the bytes it decodes to, or a decoding error;        *)
(*   - a digest is symbolic: [alg, of] where `of` names the tarball.       *)
(***************************************************************************)
EXTENDS Naturals, Sequences, FiniteSets

CONSTANTS
    Uploads,     \* publish requests the registry may receive
    MaxNameLen   \* validateName's limit, 214

VARIABLE last    \* the outcome of the last ParsePackage call

vars == <<last>>

(***************************************************************************)
(* validateName (lines 249-257) and nameMatch (line 39):                   *)
(*   \A((@[^\s\/~'!\(\)\*]+?)[\/])?([^_.][^\s\/~'!\(\)\*]+)\z              *)
(* The lazy +? does not change which strings match, so a match is a split *)
(* point between an optional scope and the name.                           *)
(***************************************************************************)
NameChar(ch) == ch \notin {" ", "/", "~"}

ScopePart(s) ==
    Len(s) >= 2 /\ s[1] = "@" /\ \A i \in 2..Len(s) : NameChar(s[i])

NamePart(s) ==
    Len(s) >= 2 /\ s[1] \notin {"_", "."} /\ \A i \in 2..Len(s) : NameChar(s[i])

NameMatch(s) ==
    \/ NamePart(s)
    \/ \E k \in 1..Len(s) :
          /\ s[k] = "/"
          /\ ScopePart(SubSeq(s, 1, k - 1))
          /\ NamePart(SubSeq(s, k + 1, Len(s)))

\* strings.TrimSpace(name) != name: white space at either end.
Trimmed(s) == s = <<>> \/ (s[1] # " " /\ s[Len(s)] # " ")

validateName(s) ==
    /\ Trimmed(s)
    /\ Len(s) \in 1..MaxNameLen
    /\ NameMatch(s)

(***************************************************************************)
(* strings.SplitN(name, "/", 2): the scope and the bare name.              *)
(***************************************************************************)
FirstSlash(s) == {k \in 1..Len(s) : s[k] = "/" /\ \A j \in 1..(k - 1) : s[j] # "/"}

SplitScope(s) ==
    IF FirstSlash(s) = {} THEN [scope |-> <<>>, name |-> s]
    ELSE LET k == CHOOSE k \in FirstSlash(s) : TRUE IN
         [scope |-> SubSeq(s, 1, k - 1), name |-> SubSeq(s, k + 1, Len(s))]

\* strings.ToLower over the character classes.
Lower(s) == [i \in 1..Len(s) |-> IF s[i] = "A" THEN "a" ELSE s[i]]

(***************************************************************************)
(* validation.IsValidURL: url.ParseRequestURI succeeds, the scheme is http *)
(* or https, and the port (if any) is valid.                               *)
(***************************************************************************)
IsValidURL(u) == u.parses /\ u.scheme \in {"http", "https"} /\ u.port_ok

(***************************************************************************)
(* Digests.  bytes.Equal treats a nil slice as equal to an empty one, so  *)
(* the nil `hash` of an unknown algorithm and an empty decoded hash are    *)
(* the same value, NoBytes.                                                *)
(***************************************************************************)
Digest(alg, t) == [alg |-> alg, of |-> t]
NoBytes == Digest("none", "none")

HashOf(alg, data) ==
    IF alg \in {"sha1", "sha512"} THEN Digest(alg, data) ELSE NoBytes

Fail(err) == [st |-> err]

(***************************************************************************)
(* User.UnmarshalJSON, which Decode calls for every `author`: the JSON     *)
(* text is classified by its first byte.  A string is the name; an object *)
(* is decoded into username/name/email/url, and a member of the wrong type *)
(* makes the whole Decode fail (a.ok false); anything else (null, a       *)
(* number, an array) is accepted as an empty User.                         *)
(***************************************************************************)
UserDecodes(a) == a.first \notin {"string", "object"} \/ a.ok

UserName(a) == IF a.first \in {"string", "object"} THEN a.name ELSE ""

\* Decode succeeds: the document parses and every User in it decodes.
Decodes(u) ==
    /\ u.json_ok
    /\ UserDecodes(u.author)
    /\ \A m \in u.versions : ~m.nil => UserDecodes(m.author)

(***************************************************************************)
(* ParsePackage for the first version `meta` and the first attachment `a` *)
(* of the map orders, from the name check to the integrity check, with    *)
(* every early return.  A null entry in `versions` is a nil                *)
(* *PackageMetadataVersion (meta.nil): reading meta.Name panics.  With no  *)
(* attachment at all, `a` is NilAttachment.                                *)
(***************************************************************************)
ParseVersion(u, meta, a) ==
    LET parts == SplitScope(meta.name) IN
    CASE meta.nil -> Fail("panic")
      [] ~validateName(meta.name) -> Fail("ErrInvalidPackageName")
      [] ~meta.version.ok -> Fail("ErrInvalidPackageVersion")
      [] a.nil \/ a.data = "" -> Fail("ErrInvalidAttachment")
      [] ~a.b64_ok -> Fail("ErrInvalidAttachment")
      [] ~meta.integrity.dash -> Fail("ErrInvalidIntegrity")
      [] ~meta.integrity.b64_ok -> Fail("ErrInvalidIntegrity")
      [] meta.integrity.hash # HashOf(meta.integrity.alg, a.data)
            -> Fail("ErrInvalidIntegrity")
      [] OTHER ->
           [st |-> "ok", name |-> meta.name, version |-> meta.version.canon,
            scope |-> parts.scope, bare |-> parts.name, author |-> UserName(meta.author),
            homepage |-> IF IsValidURL(meta.homepage) THEN meta.homepage.text ELSE "",
            tags |-> u.disttags,
            filename |-> Lower(parts.name) \o <<"-", meta.version.canon, ".tgz">>,
            data |-> a.data, alg |-> meta.integrity.alg,
            hash |-> meta.integrity.hash]

NilAttachment == [nil |-> TRUE, data |-> "", b64_ok |-> FALSE]

\* The first attachment of the map order, or nil.
FirstAttachments(u) == IF u.attachments = {} THEN {NilAttachment} ELSE u.attachments

(***************************************************************************)
(* One call of ParsePackage(r).                                            *)
(***************************************************************************)
ParsePackage(u) ==
    \/ /\ ~Decodes(u)
       /\ last' = Fail("json")
    \/ /\ Decodes(u) /\ u.versions = {}
       /\ last' = Fail("ErrInvalidPackage")
    \/ /\ Decodes(u)
       /\ \E meta \in u.versions, a \in FirstAttachments(u) :
            last' = ParseVersion(u, meta, a)

Init == last = Fail("none")

Next == \E u \in Uploads : ParsePackage(u)

Spec == Init /\ [][Next]_vars

-----------------------------------------------------------------------------
(***************************************************************************)
(* A package is only accepted with a verified tarball: when ParsePackage   *)
(* returns a package, its dist.integrity names sha1 or sha512 and holds    *)
(* that digest of the attachment's bytes (ErrInvalidIntegrity: "Failed to *)
(* validate integrity").                                                   *)
(***************************************************************************)
IntegrityVerified ==
    last.st = "ok"
        => /\ last.alg \in {"sha1", "sha512"}
           /\ last.hash = Digest(last.alg, last.data)

=============================================================================
