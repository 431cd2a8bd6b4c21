---------------------------- MODULE MCRubyMarshal ----------------------------
(***************************************************************************)
(* Values for RubyMarshal: integers on both sides of every boundary of     *)
(* marshalIntInternal and of Ruby's Fixnum range; strings (each writes the *)
(* symbol E, so a second one is a link); values shaped like the registry's *)
(* answers: a user-marshalled version, a user-defined value whose bytes    *)
(* come from an encoder of its own, objects with two members (written in   *)
(* either map order) and a member named E; an array that fails after it   *)
(* has added a symbol; and a type the encoder does not support.            *)
(***************************************************************************)
EXTENDS RubyMarshal

MCNames == {"test", "name", "E", "Test", "x", "version", "Version", "1"}
MCStrLen == [s \in MCNames |-> CASE s \in {"E", "x", "1"} -> 1
                                 [] s \in {"version", "Version"} -> 7
                                 [] OTHER -> 4]

Boundaries ==
    {0, 1, 122, 123, -1, -123, -124, 255, 256, -256, -257, 65535, 65536,
     -65536, -65537, -1048576, -1048577, 16777215, 16777216, -16777216,
     -16777217, 1073741823, 1073741824, -1073741824, -1073741825}

MCValues ==
    {Fixnum(i) : i \in Boundaries}
    \cup { Nil, Bool(FALSE), Str("test"),
           Array(<<Str("test"), Str("x")>>),
           UMarshal("Version", Str("1")),
           UDef("Version", Array(<<Str("1"), Fixnum(300)>>)),
           Object("Test", <<<<"name", Str("x")>>, <<"E", Fixnum(-200)>>>>),
           Object("Test", <<<<"version", UDef("Version", Str("1"))>>,
                            <<"test", Array(<<Str("name")>>)>>>>),
           Array(<<UMarshal("Test", Nil), Fixnum(-65537)>>),
           Unsupported }

=============================================================================
