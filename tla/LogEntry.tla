------------------------------- MODULE LogEntry -------------------------------
(***************************************************************************)
(* The structured-field entries of src/log/logrus.go.  An Entry holds a    *)
(* map of fields and shares a sync.Pool of spare entries.  WithFields      *)
(* returns a new Entry with the receiver's fields and the given ones;      *)
(* WithField and WithError take a spare entry from the pool (or allocate   *)
(* one), call WithFields on it, and in a deferred releaseEntry replace the *)
(* receiver's Data by an empty map and put the spare entry back.           *)
(*                                                                         *)
(* Entries are numbered; entry 0 is the package-level entry NewEntry and   *)
(* the package functions use.  Every call is one step: the spare entries a *)
(* call works on are out of the pool and private to it, and the one write  *)
(* others can see (the receiver's Data) is a single word.  sync.Pool may   *)
(* drop its items at any time, and Get then allocates.                     *)
(***************************************************************************)
EXTENDS Naturals, FiniteSets, TLC

CONSTANTS
    Keys,        \* field names
    Vals,        \* field values (an error is a value too)
    MaxEntries,  \* bound on the number of entries ever allocated
    LogLevel,    \* GetLevel() of the logger the entries write to
    StackLevel,  \* its GetStacktraceLevel()
    NoCaller     \* its noCaller flag

VARIABLES
    data,      \* data[e]: the fields of allocated entry e (a function Keys -> Vals)
    pool,      \* entries in the sync.Pool
    handles,   \* entries returned to callers (and entry 0)
    origin,    \* ghost: origin[e], the <<key, value>> pairs e may rightly hold
    last,      \* the last call, for the properties
    sent,      \* the event the last step handed to the channels (LogEvent), if any
    exited     \* Fatal called os.Exit(1)

vars == <<data, pool, handles, origin, last, sent, exited>>

(***************************************************************************)
(* Levels, in the order of the log package: TRACE < DEBUG < INFO < WARN <  *)
(* ERROR < CRITICAL < FATAL.                                               *)
(***************************************************************************)
TRACE == 0  DEBUG == 1  INFO == 2  WARN == 3  ERROR == 4  CRITICAL == 5  FATAL == 6
Levels == TRACE..FATAL

\* `own` is ghost: the fields the entry's own chain of calls gave it.
NoEvent == [none |-> TRUE]

NoFields == [k \in {} |-> CHOOSE v \in Vals : TRUE]
Pairs(f) == {<<k, f[k]>> : k \in DOMAIN f}

\* WithFields' copy: the receiver's fields, then the given ones over them.
Merge(f, g) == g @@ f

Allocated == DOMAIN data
Fresh == CHOOSE i \in 0..MaxEntries : i \notin Allocated
CanAllocate(n) == Cardinality(Allocated) + n <= MaxEntries + 1

\* Extend data with entry id holding fields f.
Alloc(d, id, f) == (id :> f) @@ d

Call(op, e, before, after, res, f) ==
    [op |-> op, recv |-> e, before |-> before, after |-> after, res |-> res, fields |-> f]

Init ==
    /\ data = (0 :> NoFields)
    /\ pool = {}
    /\ handles = {0}
    /\ origin = (0 :> {})
    /\ last = Call("init", 0, NoFields, NoFields, NoFields, NoFields)
    /\ sent = NoEvent
    /\ exited = FALSE

(***************************************************************************)
(* e.WithFields(fields): a new Entry holding a copy of e.Data overwritten  *)
(* by fields.                                                              *)
(***************************************************************************)
WithFields(e, fields) ==
    /\ CanAllocate(1)
    /\ LET r == Fresh  res == Merge(data[e], fields) IN
       /\ data' = Alloc(data, r, res)
       /\ handles' = handles \cup {r}
       /\ origin' = (r :> Pairs(res)) @@ origin
       /\ last' = Call("withfields", e, data[e], data[e], res, fields)
    /\ UNCHANGED pool

(***************************************************************************)
(* Mutant of NewSpare, defined before it: newEntry allocating an Entry     *)
(* that shares the receiver's map (&Entry{Data: e.Data, ...}).             *)
(***************************************************************************)
NewSpareShared(e, d) == d[e]

\* newEntry: the Data of an entry allocated when the pool has none.
NewSpare(e, d) == NoFields

\* newEntry: a spare entry from the pool, or a new one; with the data then.
FreeIds(d) == {i \in 0..MaxEntries : i \notin DOMAIN d}
Spares(e, d, p) == p \cup (IF FreeIds(d) = {} THEN {} ELSE {CHOOSE i \in FreeIds(d) : TRUE})
WithSpare(e, d, p, s) == IF s \in p THEN d ELSE Alloc(d, s, NewSpare(e, d))

(***************************************************************************)
(* Mutant of WithField, defined before it: releaseEntry putting the        *)
(* receiver into the pool instead of the spare entry.                      *)
(***************************************************************************)
WithFieldPutReceiver(e, k, v) ==
    \E spare \in Spares(e, data, pool) :
        LET d1  == WithSpare(e, data, pool, spare)
            r   == CHOOSE i \in 0..MaxEntries : i \notin DOMAIN d1
            res == Merge(d1[spare], (k :> v))
            nd  == [Alloc(d1, r, res) EXCEPT ![e] = NoFields]
        IN /\ Cardinality(DOMAIN d1) < MaxEntries + 1
           /\ data' = nd
           /\ pool' = (pool \ {spare}) \cup {e}
           /\ handles' = handles \cup {r}
           /\ origin' = (r :> (Pairs(data[e]) \cup {<<k, v>>})) @@ origin
           /\ last' = Call("withfield", e, data[e], nd[e], res, (k :> v))

(***************************************************************************)
(* e.WithField(key, value): newEntry gets a spare entry; the result is     *)
(* spare.WithFields({key: value}); the deferred releaseEntry(spare) sets   *)
(* e.Data, the receiver's, to an empty map and puts spare back.  The       *)
(* fields a caller rightly expects of the result are e's and the new one.  *)
(***************************************************************************)
WithField(e, k, v) ==
    \E spare \in Spares(e, data, pool) :
        LET d1  == WithSpare(e, data, pool, spare)
            r   == CHOOSE i \in 0..MaxEntries : i \notin DOMAIN d1
            res == Merge(d1[spare], (k :> v))
            nd  == [Alloc(d1, r, res) EXCEPT ![e] = NoFields]
        IN /\ Cardinality(DOMAIN d1) < MaxEntries + 1
           /\ data' = nd
           /\ pool' = (pool \ {spare}) \cup {spare}
           /\ handles' = handles \cup {r}
           /\ origin' = (r :> (Pairs(data[e]) \cup {<<k, v>>})) @@ origin
           /\ last' = Call("withfield", e, data[e], nd[e], res, (k :> v))

(***************************************************************************)
(* e.WithError(err): a spare s1 from newEntry, then s1.WithField("error",  *)
(* err): a second spare, its WithFields, s1.Data cleared and the second    *)
(* spare put back; then e.Data cleared and s1 put back.                    *)
(***************************************************************************)
WithError(e, err) ==
    /\ "error" \in Keys
    /\ \E s1 \in Spares(e, data, pool) :
          LET d1 == WithSpare(e, data, pool, s1)
          IN \E spare \in Spares(s1, d1, pool \ {s1}) :
               LET d2  == WithSpare(s1, d1, pool \ {s1}, spare)
                   r   == CHOOSE i \in 0..MaxEntries : i \notin DOMAIN d2
                   res == Merge(d2[spare], ("error" :> err))
                   nd  == [Alloc(d2, r, res) EXCEPT ![s1] = NoFields, ![e] = NoFields]
               IN /\ Cardinality(DOMAIN d2) < MaxEntries + 1
                  /\ data' = nd
                  /\ pool' = (pool \ {s1, spare}) \cup {s1, spare}
                  /\ handles' = handles \cup {r}
                  /\ origin' = (r :> (Pairs(data[e]) \cup {<<"error", err>>})) @@ origin
                  /\ last' = Call("witherror", e, data[e], nd[e], res, ("error" :> err))

Free(f, x) == [y \in DOMAIN f \ {x} |-> f[y]]

\* sync.Pool drops a spare entry, and the collector frees it.
Drop(s) ==
    /\ pool' = pool \ {s}
    /\ data' = Free(data, s)
    /\ UNCHANGED <<handles, origin, last>>

\* A caller lets go of an entry it holds, and the collector frees it.
Forget(h) ==
    /\ h # 0
    /\ handles' = handles \ {h}
    /\ data' = Free(data, h)
    /\ origin' = Free(origin, h)
    /\ UNCHANGED <<pool, last>>

(***************************************************************************)
(* e.log(level): the entry's fields become one "k=v" string each, sorted  *)
(* and joined, and go to the package-level Log, which hands them to the    *)
(* default MultiChannelledLogger.  Its Log returns early below GetLevel(), *)
(* looks up the caller unless noCaller, adds a stack trace from            *)
(* GetStacktraceLevel() on, and SendLog checks the level again before      *)
(* LogEvent.  Sorted and joined, the line carries exactly e's fields.      *)
(***************************************************************************)
Dispatch(e, lvl) ==
    IF LogLevel > lvl THEN NoEvent
    ELSE [none |-> FALSE, fields |-> Pairs(data[e]), own |-> origin[e],
          caller |-> ~NoCaller, stack |-> ~NoCaller /\ StackLevel <= lvl]

EntryLog(e, lvl) ==
    /\ sent' = Dispatch(e, lvl)
    /\ UNCHANGED <<data, pool, handles, origin, last, exited>>

\* Trace, Debug, Info, Warn, Error and Critical: e.log at their level.
LevelMethods == TRACE..CRITICAL

\* Fatal: e.log(FATAL), then Close() and os.Exit(1); nothing runs after it.
Fatal(e) ==
    /\ sent' = Dispatch(e, FATAL)
    /\ exited' = TRUE
    /\ UNCHANGED <<data, pool, handles, origin, last>>

Calls ==
    \/ \E e \in handles, k \in Keys, v \in Vals : WithFields(e, (k :> v))
    \/ \E e \in handles, k \in Keys, v \in Vals : WithField(e, k, v)
    \/ \E e \in handles, v \in Vals : WithError(e, v)
    \/ \E s \in pool : Drop(s)
    \/ \E h \in handles : Forget(h)

Next ==
    /\ ~exited
    /\ \/ Calls /\ sent' = NoEvent /\ UNCHANGED exited
       \/ \E h \in handles, lvl \in LevelMethods : EntryLog(h, lvl)
       \/ \E h \in handles : Fatal(h)

Spec == Init /\ [][Next]_vars

-----------------------------------------------------------------------------
(***************************************************************************)
(* Spare entries stay private: an entry in the pool is never one a caller *)
(* holds, and holds no fields, so the next newEntry starts empty.          *)
(***************************************************************************)
TypeOK ==
    /\ 0 \in Allocated /\ Allocated \subseteq 0..MaxEntries
    /\ \A e \in Allocated : data[e] \in UNION {[D -> Vals] : D \in SUBSET Keys}
    /\ pool \subseteq Allocated /\ handles \subseteq Allocated
    /\ pool \cap handles = {}
    /\ \A s \in pool : data[s] = NoFields

(***************************************************************************)
(* No field leaks between calls: every entry a caller holds carries only   *)
(* fields its own chain of WithFields/WithField/WithError calls gave it,   *)
(* whatever spare entries the pool handed out in between.                  *)
(***************************************************************************)
NoFieldLeak ==
    \A h \in handles \ {0} : Pairs(data[h]) \subseteq origin[h]

(***************************************************************************)
(* A log line shows the entry's fields: when a caller logs through an      *)
(* entry it holds (Info, Error, ... on the result of WithFields and the    *)
(* like), the event handed to the logger carries every field that entry's  *)
(* chain of calls gave it, even after the entry was used as the receiver  *)
(* of further WithField/WithError calls.                                   *)
(***************************************************************************)
LoggedLineHasFields ==
    ~sent.none => sent.own \subseteq sent.fields

=============================================================================
