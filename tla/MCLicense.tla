------------------------------ MODULE MCLicense ------------------------------
(***************************************************************************)
(* Parameters for License.  A 5-byte sourceKey holding bytes near both     *)
(* ends of the byte range, and an empty one; shifts 0, 3 and 128, so      *)
(* byte sums wrap and shifts 128 apart meet.  Shift arrays of 16 indexes   *)
(* (an AES-128 key): one within range, one with an index moved by          *)
(* len(sourceKey), one with a negative index, and one of 15 indexes,       *)
(* which no AES key size admits.                                           *)
(***************************************************************************)
EXTENDS License

MCSource    == <<7, 130, 255, 64, 200>>
MCSourceKeys == {MCSource, <<>>}

Base == <<0, 1, 2, 3, 4, 0, 1, 2, 3, 4, 0, 1, 2, 3, 4, 0>>
MCShiftArrays ==
    { Base,
      [Base EXCEPT ![3] = 7],          \* 7 % 5 = 2: the same key as Base
      [Base EXCEPT ![2] = -1],         \* Go: -1 % 5 = -1, index out of range
      SubSeq(Base, 1, 15) }            \* 15-byte key: aes.KeySizeError

=============================================================================
