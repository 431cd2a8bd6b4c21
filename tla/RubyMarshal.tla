----------------------------- MODULE RubyMarshal -----------------------------
(***************************************************************************)
(* The Ruby Marshal 4.8 encoder of src/packages/rubygems/marshal.go, which *)
(* the RubyGems registry uses to answer gem clients, and, as a reference,  *)
(* a loader of the same format written from Ruby's marshal.c (r_long,      *)
(* r_symbol, r_object), the program that reads what the encoder writes.    *)
(*                                                                         *)
(* A MarshalEncoder holds a symbol table that every Encode call reads and  *)
(* extends; marshalUserDef encodes its value with an encoder of its own.   *)
(* The encoder's functions are operators threading an encoder state        *)
(* [ok, out, syms] in the order the Go code writes; a failed step leaves   *)
(* ok FALSE and every later step returns the state as it is, as the Go     *)
(* code returns the error.  The bytes of a string are one token whose      *)
(* length is kept; every other byte is concrete.                           *)
(***************************************************************************)
EXTENDS Integers, Sequences, FiniteSets, TLC
LOCAL INSTANCE Functions

CONSTANTS
    Values,   \* the Go values callers pass to Encode
    Names,    \* strings and symbol names occurring in them
    StrLen    \* StrLen[s]: byte length of string s

ASSUME StrLen \in [Names -> Nat]

VARIABLES
    symbols,  \* the encoder's symbol table: name -> index
    last      \* the last call, for the properties

vars == <<symbols, last>>

\* Go values (and the values Ruby loads).
Nil             == [t |-> "nil"]
Bool(b)         == [t |-> "bool", b |-> b]
Fixnum(i)       == [t |-> "int", i |-> i]
Str(s)          == [t |-> "str", s |-> s]
Array(es)       == [t |-> "array", elems |-> es]
UMarshal(n, v)  == [t |-> "umarshal", name |-> n, val |-> v]
UDef(n, v)      == [t |-> "udef", name |-> n, val |-> v]
Object(n, ms)   == [t |-> "object", name |-> n, members |-> ms]  \* ms: <<key, value>>s
Unsupported     == [t |-> "struct"]

\* Stream tokens: a byte, or the bytes of a string written by WriteString.
Byte(b)  == [k |-> "byte", n |-> b, s |-> ""]
Chars(s) == [k |-> "str", n |-> StrLen[s], s |-> s]

ByteLength(bs) ==
    LET RECURSIVE L(_)
        L(i) == IF i = 0 THEN 0 ELSE L(i - 1) + (IF bs[i].k = "byte" THEN 1 ELSE bs[i].n)
    IN L(Len(bs))

EmptySyms == [x \in {} |-> 0]

(***************************************************************************)
(* Encoder state: ok is FALSE once a step returned an error.               *)
(***************************************************************************)
Write(st, bs)     == IF st.ok THEN [st EXCEPT !.out = @ \o bs] ELSE st
WriteByte(st, b)  == Write(st, <<Byte(b)>>)
Fail(st)          == [st EXCEPT !.ok = FALSE]

MarshalBool(b, st) == WriteByte(st, IF b THEN 84 ELSE 70)    \* 'T', 'F'

\* The length byte of marshalIntInternal, 0 where it returns ErrInvalidIntRange.
IntLen(i) ==
    CASE 122 < i /\ i <= 255                         -> 1
      [] 255 < i /\ i <= 65535                       -> 2
      [] 65535 < i /\ i <= 16777215                  -> 3
      [] 16777215 < i /\ i <= 1073741823             -> 4
      [] -256 <= i /\ i < -123                       -> -1
      [] -65536 <= i /\ i < -256                     -> -2
      [] -16777216 <= i /\ i < -1048576              -> -3
      [] -1073741824 <= i /\ i < -16777216           -> -4
      [] OTHER                                       -> 0

\* byte(i >> 8c & 0xff) for c in 0..|len|-1 (>> is an arithmetic shift).
LowBytes(i, n) == [c \in 1..n |-> Byte((i \div (2 ^ (8 * (c - 1)))) % 256)]

(***************************************************************************)
(* Mutant of MarshalIntInternal, defined before it: the one-byte positive  *)
(* range taken one too far (i < 124).                                      *)
(***************************************************************************)
MarshalIntInternalOffByOne(i, st) ==
    IF ~st.ok THEN st
    ELSE CASE i = 0                -> WriteByte(st, 0)
           [] 0 < i /\ i < 124     -> WriteByte(st, i + 5)
           [] -124 < i /\ i <= -1  -> WriteByte(st, (i - 5) % 256)
           [] IntLen(i) = 0        -> Fail(st)
           [] OTHER -> Write(WriteByte(st, IntLen(i) % 256),
                             LowBytes(i, IF IntLen(i) < 0 THEN -IntLen(i) ELSE IntLen(i)))

(***************************************************************************)
(* marshalIntInternal: 0; i+5 and i-5 in one byte for small magnitudes;    *)
(* otherwise a length byte (negative for negative i) and that many low     *)
(* bytes of i; ErrInvalidIntRange outside the ranges it lists.             *)
(***************************************************************************)
MarshalIntInternal(i, st) ==
    IF ~st.ok THEN st
    ELSE CASE i = 0                -> WriteByte(st, 0)
           [] 0 < i /\ i < 123     -> WriteByte(st, i + 5)
           [] -124 < i /\ i <= -1  -> WriteByte(st, (i - 5) % 256)
           [] IntLen(i) = 0        -> Fail(st)
           [] OTHER -> Write(WriteByte(st, IntLen(i) % 256),
                             LowBytes(i, IF IntLen(i) < 0 THEN -IntLen(i) ELSE IntLen(i)))

MarshalInt(i, st) == MarshalIntInternal(i, WriteByte(st, 105))   \* 'i'

(***************************************************************************)
(* Mutant of MarshalSymbol, defined before it: a new symbol numbered from  *)
(* 1 (len(e.symbols) + 1).                                                 *)
(***************************************************************************)
MarshalSymbolFromOne(str, st) ==
    IF ~st.ok THEN st
    ELSE IF str \in DOMAIN st.syms
         THEN MarshalIntInternal(st.syms[str], WriteByte(st, 59))
         ELSE LET st1 == [st EXCEPT !.syms = (str :> Cardinality(DOMAIN @) + 1) @@ @]
              IN Write(MarshalIntInternal(StrLen[str], WriteByte(st1, 58)), <<Chars(str)>>)

(***************************************************************************)
(* marshalSymbol: a symbol seen before by this encoder is written as a     *)
(* link ';' to its index; a new one gets the next index and is written     *)
(* out as ':' length name.  The table is updated before anything is       *)
(* written.                                                                *)
(***************************************************************************)
MarshalSymbol(str, st) ==
    IF ~st.ok THEN st
    ELSE IF str \in DOMAIN st.syms
         THEN MarshalIntInternal(st.syms[str], WriteByte(st, 59))
         ELSE LET st1 == [st EXCEPT !.syms = (str :> Cardinality(DOMAIN @)) @@ @]
              IN Write(MarshalIntInternal(StrLen[str], WriteByte(st1, 58)), <<Chars(str)>>)

\* marshalRawString: '"' length bytes.
MarshalRawString(str, st) ==
    Write(MarshalIntInternal(StrLen[str], WriteByte(st, 34)), <<Chars(str)>>)

\* marshalString: 'I' raw string, one instance variable, :E => true (UTF-8).
MarshalString(str, st) ==
    MarshalBool(TRUE, MarshalSymbol("E",
        MarshalIntInternal(1, MarshalRawString(str, WriteByte(st, 73)))))

(***************************************************************************)
(* marshal and the encoders of composite values.                           *)
(***************************************************************************)
RECURSIVE Marshal(_, _), MarshalElems(_, _), MarshalMembers(_, _)

\* The version header an Encode writes before its value.
Header == <<Byte(4), Byte(8)>>

\* marshalArray: '[' length elements.
MarshalArray(es, st) == MarshalElems(es, MarshalIntInternal(Len(es), WriteByte(st, 91)))

MarshalElems(es, st) ==
    IF es = <<>> \/ ~st.ok THEN st ELSE MarshalElems(Tail(es), Marshal(Head(es), st))

\* marshalUserMarshal: 'U' symbol value.
MarshalUserMarshal(v, st) == Marshal(v.val, MarshalSymbol(v.name, WriteByte(st, 85)))

(***************************************************************************)
(* marshalUserDef: the value is first encoded, header included, by a new   *)
(* encoder; its error is returned before anything is written; then 'u'     *)
(* symbol byte-length bytes.                                               *)
(***************************************************************************)
MarshalUserDef(v, st) ==
    LET inner == Marshal(v.val, [ok |-> TRUE, out |-> Header, syms |-> EmptySyms]) IN
    IF ~st.ok THEN st
    ELSE IF ~inner.ok THEN Fail(st)
    ELSE Write(MarshalIntInternal(ByteLength(inner.out),
                                  MarshalSymbol(v.name, WriteByte(st, 117))), inner.out)

\* marshalObject: 'o' class symbol, member count, symbol value per member.
MarshalObject(v, st) ==
    MarshalMembers(v.members,
        MarshalIntInternal(Len(v.members), MarshalSymbol(v.name, WriteByte(st, 111))))

MarshalMembers(ms, st) ==
    IF ms = <<>> \/ ~st.ok THEN st
    ELSE MarshalMembers(Tail(ms), Marshal(Head(ms)[2], MarshalSymbol(Head(ms)[1], st)))

\* marshal: dispatch on the kind of value; ErrUnsupportedType otherwise.
Marshal(v, st) ==
    IF ~st.ok THEN st
    ELSE CASE v.t = "nil"      -> WriteByte(st, 48)                    \* '0'
           [] v.t = "bool"     -> MarshalBool(v.b, st)
           [] v.t = "int"      -> MarshalInt(v.i, st)
           [] v.t = "str"      -> MarshalString(v.s, st)
           [] v.t = "array"    -> MarshalArray(v.elems, st)
           [] v.t = "umarshal" -> MarshalUserMarshal(v, st)
           [] v.t = "udef"     -> MarshalUserDef(v, st)
           [] v.t = "object"   -> MarshalObject(v, st)
           [] OTHER            -> Fail(st)

-----------------------------------------------------------------------------
(***************************************************************************)
(* Reference: Marshal.load as Ruby's marshal.c reads the format.  A load   *)
(* state is [ok, pos, syms, val]: the next token, the symbols read so far  *)
(* in order, and the last thing read.                                      *)
(***************************************************************************)
LFail(l) == [l EXCEPT !.ok = FALSE]
Tok(bs, l) == IF l.pos \in 1..Len(bs) THEN bs[l.pos] ELSE [k |-> "eof", n |-> 0, s |-> ""]
Signed(b) == IF b >= 128 THEN b - 256 ELSE b

\* r_long: c = 0; c - 5 / c + 5 for |c| > 4; else |c| little-endian bytes,
\* on a background of all ones when c < 0.
RLong(bs, l) ==
    LET c  == Signed(Tok(bs, l).n)
        n  == IF c < 0 THEN -c ELSE c
        d(i) == IF i <= n THEN Tok(bs, [l EXCEPT !.pos = @ + i]).n ELSE 0
        e(i) == IF i <= n THEN 255 - d(i) ELSE 0
        at(v, len) == [l EXCEPT !.pos = @ + 1 + len, !.val = v]
    IN CASE ~l.ok                                -> l
         [] Tok(bs, l).k # "byte"               -> LFail(l)
         [] c = 0                               -> at(0, 0)
         [] c > 4                               -> at(c - 5, 0)
         [] c < -4                              -> at(c + 5, 0)
         [] \E i \in 1..n : Tok(bs, [l EXCEPT !.pos = @ + i]).k # "byte" -> LFail(l)
         [] c > 0 -> at(d(1) + 256 * d(2) + 65536 * d(3) + 16777216 * d(4), n)
         [] OTHER -> at(-1 - (e(1) + 256 * e(2) + 65536 * e(3) + 16777216 * e(4)), n)

\* r_bytes after a length: the string token of exactly that many bytes.
RBytes(bs, l) ==
    IF l.ok /\ Tok(bs, l).k = "str" /\ Tok(bs, l).n = l.val
    THEN [l EXCEPT !.pos = @ + 1, !.val = Tok(bs, l).s] ELSE LFail(l)

\* r_symbol: ':' length name, entered in the table; ';' index into it.
RSymbol(bs, l) ==
    LET t == Tok(bs, l)  l1 == [l EXCEPT !.pos = @ + 1] IN
    CASE ~l.ok -> l
      [] t = Byte(58) -> LET r == RBytes(bs, RLong(bs, l1)) IN
                         IF r.ok THEN [r EXCEPT !.syms = Append(@, r.val)] ELSE r
      [] t = Byte(59) -> LET r == RLong(bs, l1) IN
                         IF r.ok /\ r.val \in 0..Len(r.syms) - 1
                         THEN [r EXCEPT !.val = r.syms[r.val + 1]] ELSE LFail(r)
      [] OTHER -> LFail(l)

\* The tokens holding exactly the next len bytes, as r_bytes reads them.
RRaw(bs, l) ==
    IF l.ok /\ \E k \in l.pos - 1..Len(bs) : ByteLength(SubSeq(bs, l.pos, k)) = l.val
    THEN LET k == CHOOSE k \in l.pos - 1..Len(bs) : ByteLength(SubSeq(bs, l.pos, k)) = l.val
         IN [l EXCEPT !.pos = k + 1, !.val = SubSeq(bs, l.pos, k)]
    ELSE LFail(l)

(***************************************************************************)
(* r_object as a pushdown machine.  A machine state is a load state with   *)
(* the stream bs it reads, a stack of the composite values being read, and *)
(* have: val is a value just completed, for the top of the stack.  A       *)
(* nested _load stream is read by switching bs; its frame keeps the outer  *)
(* stream, position and symbols.                                           *)
(***************************************************************************)
Machine(bs) == [ok |-> Len(bs) >= 2 /\ bs[1] = Byte(4) /\ bs[2] = Byte(8),
                bs |-> bs, pos |-> 3, syms |-> <<>>, val |-> Nil, have |-> FALSE,
                stack |-> <<>>]

Done(m, v) == IF m.ok THEN [m EXCEPT !.have = TRUE, !.val = v] ELSE m
Push(m, f) == IF m.ok THEN [m EXCEPT !.have = FALSE, !.stack = Append(@, f)] ELSE m
Top(m) == m.stack[Len(m.stack)]
Pop(m) == [m EXCEPT !.stack = SubSeq(@, 1, Len(@) - 1)]

\* Before each member of an object, its name symbol.
NextKey(m) ==
    IF ~m.ok \/ ~Top(m).keyed THEN m
    ELSE LET k == RSymbol(m.bs, m)  i == Len(m.stack) IN
         IF k.ok THEN [k EXCEPT !.stack[i].key = k.val] ELSE k

\* '[' count, or 'o' class count: an empty one is complete at once.
OpenList(c, name, keyed) ==
    CASE ~c.ok -> c
      [] c.val <= 0 -> Done(c, IF keyed THEN Object(name, <<>>) ELSE Array(<<>>))
      [] OTHER -> NextKey(Push(c, [k |-> "list", keyed |-> keyed, name |-> name,
                                   left |-> c.val, acc |-> <<>>, key |-> ""]))

\* r_object at m.pos: a scalar completes; a composite value pushes a frame.
ReadObject(m) ==
    LET t == Tok(m.bs, m)  m1 == [m EXCEPT !.pos = @ + 1] IN
    CASE t = Byte(48)  -> Done(m1, Nil)
      [] t = Byte(84)  -> Done(m1, Bool(TRUE))
      [] t = Byte(70)  -> Done(m1, Bool(FALSE))
      [] t = Byte(105) -> LET r == RLong(m.bs, m1) IN Done(r, Fixnum(r.val))
      [] t = Byte(34)  -> LET r == RBytes(m.bs, RLong(m.bs, m1)) IN Done(r, [t |-> "raw", s |-> r.val])
      [] t = Byte(73)  -> Push(m1, [k |-> "ivar"])  \* here a string with :E => true
      [] t = Byte(91)  -> OpenList(RLong(m.bs, m1), "", FALSE)
      [] t = Byte(111) -> LET n == RSymbol(m.bs, m1) IN OpenList(RLong(m.bs, n), n.val, TRUE)
      [] t = Byte(85)  -> LET n == RSymbol(m.bs, m1) IN Push(n, [k |-> "umarshal", name |-> n.val])
      [] t = Byte(117) -> \* _load of the class: here Marshal.load of the bytes
            LET n == RSymbol(m.bs, m1)  raw == RRaw(m.bs, RLong(m.bs, n)) IN
            CASE ~raw.ok -> raw
              [] ~Machine(raw.val).ok -> LFail(raw)
              [] OTHER -> Push([raw EXCEPT !.bs = raw.val, !.pos = 3, !.syms = <<>>],
                               [k |-> "udef", name |-> n.val, bs |-> m.bs, pos |-> raw.pos,
                                syms |-> raw.syms])
      [] OTHER -> LFail(m)

\* The value just read completes a part of the frame on top of the stack.
Deliver(m) ==
    LET f == Top(m)  v == m.val  p == Pop(m)  i == Len(m.stack) IN
    CASE f.k = "list" ->
            LET acc == Append(f.acc, IF f.keyed THEN <<f.key, v>> ELSE v) IN
            IF f.left = 1 THEN Done(p, IF f.keyed THEN Object(f.name, acc) ELSE Array(acc))
            ELSE NextKey([m EXCEPT !.have = FALSE,
                                   !.stack[i] = [f EXCEPT !.left = @ - 1, !.acc = acc]])
      [] f.k = "ivar" ->
            LET c == RLong(m.bs, p)  k == RSymbol(m.bs, c) IN
            IF k.ok /\ v.t = "raw" /\ c.val = 1 /\ k.val = "E" /\ Tok(m.bs, k) = Byte(84)
            THEN Done([k EXCEPT !.pos = @ + 1], Str(v.s)) ELSE LFail(k)
      [] f.k = "umarshal" -> Done(p, UMarshal(f.name, v))
      [] OTHER -> \* udef: the nested stream must be read to its end
            IF m.pos = Len(m.bs) + 1
            THEN Done([p EXCEPT !.bs = f.bs, !.pos = f.pos, !.syms = f.syms], UDef(f.name, v))
            ELSE LFail(m)

\* One object read and nothing left open.
Stopped(m) == m.have /\ m.stack = <<>>

RECURSIVE Run(_)
\* Step the machine until it has read one object and nothing is left open.
Run(m) ==
    IF ~m.ok \/ Stopped(m) THEN m
    ELSE Run(IF m.have THEN Deliver(m) ELSE ReadObject(m))

\* The machine r has read the whole of a stream of n tokens.
ReadAll(r, n) == IF r.ok /\ r.pos = n + 1 THEN r ELSE LFail(r)

\* Marshal.load of a whole stream: version 4.8, one object, nothing after.
Load(bs) == ReadAll(Run(Machine(bs)), Len(bs))

\* Values equal up to the order of an object's members (a Go map's order).
RECURSIVE Canon(_)
Canon(v) ==
    CASE v.t = "array"  -> Array([i \in DOMAIN v.elems |-> Canon(v.elems[i])])
      [] v.t \in {"umarshal", "udef"} -> [v EXCEPT !.val = Canon(v.val)]
      [] v.t = "object" -> [v EXCEPT !.members =
                              {<<m[1], Canon(m[2])>> : m \in Range(v.members)}]
      [] OTHER -> v

-----------------------------------------------------------------------------
(***************************************************************************)
(* Go ranges over a map in an unspecified order: the member orders an      *)
(* Encode may write, at every depth.                                       *)
(***************************************************************************)
RECURSIVE Orders(_), Choices(_)
\* one order of each value of the sequence vs
Choices(vs) == IF vs = <<>> THEN {<<>>}
               ELSE {<<w>> \o rest : w \in Orders(Head(vs)), rest \in Choices(Tail(vs))}
Orders(v) ==
    CASE v.t = "array"  -> {Array(es) : es \in Choices(v.elems)}
      [] v.t \in {"umarshal", "udef"} -> {[v EXCEPT !.val = w] : w \in Orders(v.val)}
      [] v.t = "object" ->
            LET n == Len(v.members)
                vals == [i \in 1..n |-> v.members[i][2]]
            IN {Object(v.name, [i \in 1..n |-> <<v.members[p[i]][1], f[p[i]]>>]) :
                   p \in {q \in [1..n -> 1..n] : IsInjective(q)}, f \in Choices(vals)}
      [] OTHER -> {v}

Init ==
    /\ symbols = EmptySyms
    /\ last = [op |-> "new", val |-> Nil, ok |-> TRUE, out |-> <<>>, fresh |-> TRUE]

\* NewMarshalEncoder: an empty symbol table.
NewMarshalEncoder ==
    /\ symbols' = EmptySyms
    /\ last' = [op |-> "new", val |-> Nil, ok |-> TRUE, out |-> <<>>, fresh |-> TRUE]

(***************************************************************************)
(* Encode(v): the header, the value, Flush.  The symbol table keeps what   *)
(* the call added, also when it fails part-way; on failure nothing is      *)
(* flushed (the bufio.Writer holds far less than its 4096 bytes).          *)
(***************************************************************************)
Encode(v) ==
    \E w \in Orders(v) :
        LET r == Marshal(w, [ok |-> TRUE, out |-> Header, syms |-> symbols]) IN
        /\ symbols' = r.syms
        /\ last' = [op |-> "encode", val |-> v, ok |-> r.ok,
                    out |-> IF r.ok THEN r.out ELSE <<>>, fresh |-> symbols = EmptySyms]

Next ==
    \/ NewMarshalEncoder
    \/ \E v \in Values : Encode(v)

Spec == Init /\ [][Next]_vars

-----------------------------------------------------------------------------
(***************************************************************************)
(* Symbol numbering: the encoder's table numbers its symbols 0, 1, 2, ...  *)
(* in the order they were first written, without gaps or repeats, as the   *)
(* ';' links Ruby resolves require.                                        *)
(***************************************************************************)
TypeOK ==
    /\ DOMAIN symbols \subseteq Names
    /\ symbols \in [DOMAIN symbols -> 0..Cardinality(DOMAIN symbols) - 1]
    /\ IsInjective(symbols)
    /\ last.op \in {"new", "encode"} /\ last.ok \in BOOLEAN

\* A load that read the value v (up to the order of object members).
LoadedAs(r, v) == r.ok /\ Canon(r.val) = Canon(v)

(***************************************************************************)
(* What a new encoder writes loads: the stream of a successful Encode on a *)
(* MarshalEncoder fresh from NewMarshalEncoder is read by Marshal.load as  *)
(* the value encoded (up to the order of object members), integers of     *)
(* every width, symbol links and nested _load payloads included.           *)
(***************************************************************************)
StreamLoads ==
    (last.op = "encode" /\ last.ok /\ last.fresh)
        => LoadedAs(Load(last.out), last.val)

=============================================================================
