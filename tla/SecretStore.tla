----------------------------- MODULE SecretStore -----------------------------
(***************************************************************************)
(* What a store of secrets kept through an Encrypter promises its callers, *)
(* with the cryptography left out.  Each slot holds the text last written  *)
(* to it.  A write either stores its text or reports an error and changes  *)
(* nothing.  An authenticated read of a written slot returns that slot's   *)
(* text or an error, never another text.  Everything else the store may do *)
(* (reconfigure its strategy, read without authentication, lose bytes to   *)
(* storage faults) promises nothing and leaves the contents alone.         *)
(***************************************************************************)
CONSTANTS
    Slots,    \* places that hold one secret each
    Texts,    \* secret values
    NoText    \* no text: an unwritten slot, the value of a failed call

VARIABLES
    contents, \* contents[s]: the text last written to slot s
    reply     \* what the last call reported

vars == <<contents, reply>>

Reply(op, s, ok, v) == [op |-> op, slot |-> s, ok |-> ok, val |-> v]

\* The reply of a step that promises nothing.
NoReply == Reply("none", CHOOSE s \in Slots : TRUE, TRUE, NoText)

Init ==
    /\ contents = [s \in Slots |-> NoText]
    /\ reply = NoReply

Write(s, t) ==
    /\ contents' = [contents EXCEPT ![s] = t]
    /\ reply' = Reply("write", s, TRUE, NoText)

Refuse(s) ==
    /\ reply' = Reply("write", s, FALSE, NoText)
    /\ UNCHANGED contents

Read(s) ==
    /\ contents[s] # NoText
    /\ reply' \in {Reply("read", s, TRUE, contents[s]), Reply("read", s, FALSE, NoText)}
    /\ UNCHANGED contents

Other ==
    /\ reply' = NoReply
    /\ UNCHANGED contents

Next ==
    \/ \E s \in Slots, t \in Texts : Write(s, t)
    \/ \E s \in Slots : Refuse(s) \/ Read(s)
    \/ Other

Spec == Init /\ [][Next]_vars

=============================================================================
