---------------------------- MODULE MCNpmParse ----------------------------
(***************************************************************************)
(* Publish requests for ParsePackage.  Names: a valid one, a scoped one,   *)
(* a one-character one and one starting with "_" (both rejected by the     *)
(* expression), one with a trailing space.  Versions: "1.0.0", "v1.0"     *)
(* (canonical 1.0.0) and an unparsable one.  Integrity strings: the right  *)
(* sha512 and sha1 of the tarball, a wrong sha512, one without "-", one    *)
(* whose hash is not base64, and an unknown algorithm with an empty hash   *)
(* ("x-").  Attachments: the tarball, empty data, data that is not base64. *)
(* Authors: a string, an object, an object with a member of the wrong     *)
(* type, and null.                                                         *)
(***************************************************************************)
EXTENDS NpmParse

MCNames == {<<"a", "b">>, <<"@", "a", "/", "A", "b">>, <<"a">>, <<"_", "a">>,
            <<"a", "b", " ">>}

MCVersions == {[ok |-> TRUE, canon |-> "1.0.0"], [ok |-> FALSE, canon |-> ""]}

MCHomepages == {[text |-> "https://h", parses |-> TRUE, scheme |-> "https", port_ok |-> TRUE],
                [text |-> "ftp://h", parses |-> TRUE, scheme |-> "ftp", port_ok |-> TRUE]}

MCIntegrities ==
    {[dash |-> TRUE, b64_ok |-> TRUE, alg |-> "sha512", hash |-> Digest("sha512", "tgz")],
     [dash |-> TRUE, b64_ok |-> TRUE, alg |-> "sha1", hash |-> Digest("sha1", "tgz")],
     [dash |-> TRUE, b64_ok |-> TRUE, alg |-> "sha512", hash |-> Digest("sha512", "other")],
     [dash |-> FALSE, b64_ok |-> TRUE, alg |-> "sha512", hash |-> NoBytes],
     [dash |-> TRUE, b64_ok |-> FALSE, alg |-> "sha512", hash |-> NoBytes],
     [dash |-> TRUE, b64_ok |-> TRUE, alg |-> "x", hash |-> NoBytes]}

MCAuthors ==
    {[first |-> "string", name |-> "ann", ok |-> TRUE],
     [first |-> "object", name |-> "ann", ok |-> TRUE],
     [first |-> "object", name |-> "", ok |-> FALSE],
     [first |-> "null", name |-> "", ok |-> TRUE]}

MCMetas ==
    {[nil |-> FALSE, name |-> n, version |-> v, homepage |-> h, integrity |-> i,
      author |-> w] :
        n \in MCNames, v \in MCVersions, h \in MCHomepages, i \in MCIntegrities,
        w \in MCAuthors}

NilMeta == [nil |-> TRUE]

MCAttachments ==
    {[nil |-> FALSE, data |-> "tgz", b64_ok |-> TRUE],
     [nil |-> FALSE, data |-> "", b64_ok |-> TRUE],
     [nil |-> FALSE, data |-> "tgz", b64_ok |-> FALSE]}

\* Requests with one version (or a null one) and at most one attachment,
\* plus ones that fail to decode or carry no versions.
MCUploads ==
    {[json_ok |-> TRUE, author |-> w, versions |-> {m}, disttags |-> {"latest"},
      attachments |-> A] :
        w \in MCAuthors, m \in MCMetas \cup {NilMeta},
        A \in {{}} \cup {{a} : a \in MCAttachments}}
    \cup {[json_ok |-> j, author |-> w, versions |-> {}, disttags |-> {}, attachments |-> {}] :
            j \in BOOLEAN, w \in MCAuthors}
====
