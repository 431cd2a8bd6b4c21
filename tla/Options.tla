------------------------------ MODULE Options ------------------------------
(***************************************************************************)
(* setting/options.go: Dir(name) lists the files of <custom>/options/name *)
(* and <static>/options/name and caches the listing in the package-level  *)
(* map `directories` (a directorySet), which no lock guards.               *)
(*                                                                         *)
(* Each goroutine calling Dir is a caller with a program counter; every    *)
(* access to the map is its own step, and a map assignment is a Begin/End  *)
(* pair, because Go's runtime marks the map as being written between them *)
(* (hashWriting).  An access that overlaps another goroutine's assignment  *)
(* is undefined: the runtime may throw "concurrent map writes" / "map read *)
(* and map write" (the process dies), or the access may go through.  Both  *)
(* outcomes are steps of the model.  A dead process is restarted with an   *)
(* empty map (line 20 runs again).                                         *)
(*                                                                         *)
(* The file system is an environment beside the cache: each directory is   *)
(* missing, unreadable (IsDir or StatDir fails) or holds a set of files,   *)
(* and it may change between any two steps, up to MaxChanges times.        *)
(***************************************************************************)
EXTENDS Naturals, Sequences, FiniteSets, SequencesExt

CONSTANTS
    Callers,     \* goroutines that call Dir
    Names,       \* option directory names ("label", "license", ...)
    Files,       \* entries a directory listing may hold (files and subdirectories)
    FileOrder,   \* a sequence of Files: the order StatDir lists them in
    MaxChanges   \* bound on file-system changes

ASSUME FileOrder \in Seq(Files) /\ ToSet(FileOrder) = Files

Roots == {"custom", "static"}

\* What util.IsDir / util.StatDir see at <root>/options/<name>.
DirStates ==
    {[st |-> s, files |-> {}] : s \in {"missing", "isdir_err", "stat_err"}}
        \cup {[st |-> "dir", files |-> F] : F \in SUBSET Files}

VARIABLES
    fs,          \* fs[r][n] \in DirStates
    set,         \* directories: set[n] = [ok |-> key present, val |-> slice]
    writing,     \* goroutines inside a map assignment (hashWriting set)
    pc,          \* pc[c]: the step of Dir the caller is about to take
    name,        \* name[c]: the argument of the caller's current call
    acc,         \* acc[c]: `result` being built from the scans
    base,        \* base[c]: s[key] read by `append(s[key], value...)`
    out,         \* out[c]: what the caller's last Dir call returned
    dead,        \* the Go runtime threw; the process is gone
    changes      \* file-system changes so far

vars == <<fs, set, writing, pc, name, acc, base, out, dead, changes>>

NoResult == [st |-> "none", files |-> <<>>, scan |-> <<>>, path |-> "none"]

(***************************************************************************)
(* util.StatDir(dir, true) lists a directory's entries in FileOrder.  With *)
(* includeDir it lists subdirectories too ("sub/") and recurses into them, *)
(* so an entry is a name Dir may return, whatever kind of file it is.      *)
(***************************************************************************)
Listing(S) == SelectSeq(FileOrder, LAMBDA f : f \in S)

(***************************************************************************)
(* directorySet.Get: the slice with duplicates removed, first occurrence   *)
(* kept; an absent key gives an empty slice.                              *)
(***************************************************************************)
RECURSIVE DedupFrom(_, _)
DedupFrom(s, seen) ==
    IF s = <<>> THEN <<>>
    ELSE IF Head(s) \in seen THEN DedupFrom(Tail(s), seen)
    ELSE <<Head(s)>> \o DedupFrom(Tail(s), seen \cup {Head(s)})

\* Get with the seen-set check left out.
GetKeepingDuplicates(e) == IF e.ok THEN e.val ELSE <<>>

Get(e) == IF e.ok THEN DedupFrom(e.val, {}) ELSE <<>>

\* directorySet.Filled: len(s[key]) > 0 (a missing key reads as nil).
Filled(e) == Len(e.val) > 0

(***************************************************************************)
(* A map access by c while another goroutine is inside an assignment.     *)
(* The runtime may throw; the process then dies with every call.          *)
(***************************************************************************)
Overlaps(c) == writing \ {c} # {}

Throw ==
    /\ dead' = TRUE
    /\ UNCHANGED <<fs, set, writing, pc, name, acc, base, out, changes>>

Goto(c, p) == pc' = [pc EXCEPT ![c] = p]

Return(c, r) ==
    /\ out' = [out EXCEPT ![c] = r]
    /\ Goto(c, "idle")

----------------------------------------------------------------------------
(* Dir(name): the call starts.                                             *)
Call(c) ==
    /\ ~dead /\ pc[c] = "idle"
    /\ \E n \in Names :
         /\ name' = [name EXCEPT ![c] = n]
         /\ acc' = [acc EXCEPT ![c] = <<>>]
    /\ Goto(c, "filled")
    /\ UNCHANGED <<fs, set, writing, base, out, dead, changes>>

(* if directories.Filled(name) { return directories.Get(name), nil }.     *)
(* Filled and Get read the map one after the other.                        *)
FilledCheck(c) ==
    /\ ~dead /\ pc[c] = "filled"
    /\ \/ Overlaps(c) /\ Throw
       \/ /\ Filled(set[name[c]])
          /\ Goto(c, "cached_get")
          /\ UNCHANGED <<fs, set, writing, name, acc, base, out, dead, changes>>
       \/ /\ ~Filled(set[name[c]])
          /\ Goto(c, "custom")
          /\ UNCHANGED <<fs, set, writing, name, acc, base, out, dead, changes>>

CachedGet(c) ==
    /\ ~dead /\ pc[c] = "cached_get"
    /\ \/ Overlaps(c) /\ Throw
       \/ /\ Return(c, [st |-> "ok", files |-> Get(set[name[c]]),
                        scan |-> <<>>, path |-> "cache"])
          /\ UNCHANGED <<fs, set, writing, name, acc, base, dead, changes>>

(* IsDir and StatDir of one root: a failure returns []string{} and the    *)
(* error; a missing directory is skipped; files are appended to result.   *)
Scan(c, r, next) ==
    LET d == fs[r][name[c]] IN
    /\ ~dead /\ pc[c] = r
    /\ \/ /\ d.st \in {"isdir_err", "stat_err"}
          /\ Return(c, [st |-> "err", files |-> <<>>, scan |-> acc[c], path |-> "scan"])
          /\ UNCHANGED acc
       \/ /\ d.st = "missing"
          /\ Goto(c, next)
          /\ UNCHANGED <<acc, out>>
       \/ /\ d.st = "dir"
          /\ acc' = [acc EXCEPT ![c] = @ \o Listing(d.files)]
          /\ Goto(c, next)
          /\ UNCHANGED out
    /\ UNCHANGED <<fs, set, writing, name, base, dead, changes>>

ScanCustom(c) == Scan(c, "custom", "static")
ScanStatic(c) == Scan(c, "static", "add_ok")

(* directorySet.Add, first line: _, ok := s[key].                          *)
AddOk(c) ==
    /\ ~dead /\ pc[c] = "add_ok"
    /\ \/ Overlaps(c) /\ Throw
       \/ /\ Goto(c, IF set[name[c]].ok THEN "append_read" ELSE "make")
          /\ UNCHANGED <<fs, set, writing, name, acc, base, out, dead, changes>>

(* A map assignment starts (mapassign sets hashWriting): a second writer  *)
(* may make the runtime throw.                                             *)
BeginAssign(c, from, to) ==
    /\ ~dead /\ pc[c] = from
    /\ \/ Overlaps(c) /\ Throw
       \/ /\ writing' = writing \cup {c}
          /\ Goto(c, to)
          /\ UNCHANGED <<fs, set, name, acc, base, out, dead, changes>>

(* if !ok { s[key] = make([]string, 0, len(value)) }                      *)
MakeBegin(c) == BeginAssign(c, "make", "make_end")

\* The slice is made and the call goes on to Get without the append.
MakeEndThenGet(c) ==
    /\ ~dead /\ pc[c] = "make_end"
    /\ set' = [set EXCEPT ![name[c]] = [ok |-> TRUE, val |-> <<>>]]
    /\ writing' = writing \ {c}
    /\ Goto(c, "get")
    /\ UNCHANGED <<fs, name, acc, base, out, dead, changes>>

MakeEnd(c) ==
    /\ ~dead /\ pc[c] = "make_end"
    /\ set' = [set EXCEPT ![name[c]] = [ok |-> TRUE, val |-> <<>>]]
    /\ writing' = writing \ {c}
    /\ Goto(c, "append_read")
    /\ UNCHANGED <<fs, name, acc, base, out, dead, changes>>

(* s[key] = append(s[key], value...): the right side reads s[key] first,  *)
(* then the assignment stores the longer slice.                            *)
AppendRead(c) ==
    /\ ~dead /\ pc[c] = "append_read"
    /\ \/ Overlaps(c) /\ Throw
       \/ /\ base' = [base EXCEPT ![c] = set[name[c]].val]
          /\ Goto(c, "append")
          /\ UNCHANGED <<fs, set, writing, name, acc, out, dead, changes>>

AppendBegin(c) == BeginAssign(c, "append", "append_end")

\* The append is stored but the assignment's mark is left behind.
AppendEndKeepsMark(c) ==
    /\ ~dead /\ pc[c] = "append_end"
    /\ set' = [set EXCEPT ![name[c]] = [ok |-> TRUE, val |-> base[c] \o acc[c]]]
    /\ Goto(c, "get")
    /\ UNCHANGED <<fs, writing, name, acc, base, out, dead, changes>>

AppendEnd(c) ==
    /\ ~dead /\ pc[c] = "append_end"
    /\ set' = [set EXCEPT ![name[c]] = [ok |-> TRUE, val |-> base[c] \o acc[c]]]
    /\ writing' = writing \ {c}
    /\ Goto(c, "get")
    /\ UNCHANGED <<fs, name, acc, base, out, dead, changes>>

(* AddAndGet: return s.Get(key), the result of Dir.                        *)
AddGet(c) ==
    /\ ~dead /\ pc[c] = "get"
    /\ \/ Overlaps(c) /\ Throw
       \/ /\ Return(c, [st |-> "ok", files |-> Get(set[name[c]]),
                        scan |-> acc[c], path |-> "scan"])
          /\ UNCHANGED <<fs, set, writing, name, acc, base, dead, changes>>

----------------------------------------------------------------------------
(* The environment: a directory is created, removed, filled or made       *)
(* unreadable while the process runs.                                      *)
ChangeFs ==
    /\ changes < MaxChanges
    /\ \E r \in Roots, n \in Names, d \in DirStates :
         /\ d # fs[r][n]
         /\ fs' = [fs EXCEPT ![r][n] = d]
    /\ changes' = changes + 1
    /\ UNCHANGED <<set, writing, pc, name, acc, base, out, dead>>

(* The process died and is started again: var directories =              *)
(* NewDirectorySet() runs with an empty map and no call in progress.       *)
Restart ==
    /\ dead
    /\ set' = [n \in Names |-> [ok |-> FALSE, val |-> <<>>]]
    /\ writing' = {}
    /\ pc' = [c \in Callers |-> "idle"]
    /\ out' = [c \in Callers |-> NoResult]
    /\ dead' = FALSE
    /\ UNCHANGED <<fs, name, acc, base, changes>>

Init ==
    /\ fs \in [Roots -> [Names -> DirStates]]
    /\ set = [n \in Names |-> [ok |-> FALSE, val |-> <<>>]]
    /\ writing = {}
    /\ pc = [c \in Callers |-> "idle"]
    /\ name \in [Callers -> Names]
    /\ acc = [c \in Callers |-> <<>>]
    /\ base = [c \in Callers |-> <<>>]
    /\ out = [c \in Callers |-> NoResult]
    /\ dead = FALSE
    /\ changes = 0

Step(c) ==
    \/ Call(c) \/ FilledCheck(c) \/ CachedGet(c)
    \/ ScanCustom(c) \/ ScanStatic(c) \/ AddOk(c)
    \/ MakeBegin(c) \/ MakeEnd(c)
    \/ AppendRead(c) \/ AppendBegin(c) \/ AppendEnd(c) \/ AddGet(c)

Next == (\E c \in Callers : Step(c)) \/ ChangeFs \/ Restart

Spec == Init /\ [][Next]_vars

(***************************************************************************)
(* Go's scheduler preempts goroutines, so a runnable goroutine keeps      *)
(* taking steps: each caller is weakly fair.  The file system and the      *)
(* restart are not: nothing forces a change, and a dead process may stay   *)
(* down.                                                                   *)
(***************************************************************************)
FairSpec == Spec /\ \A c \in Callers : WF_vars(Step(c))

----------------------------------------------------------------------------
Results == [st : {"none", "ok", "err"}, files : Seq(Files), scan : Seq(Files),
            path : {"none", "cache", "scan"}]

Steps == {"idle", "filled", "cached_get", "custom", "static", "add_ok", "make",
          "make_end", "append_read", "append", "append_end", "get"}

TypeOK ==
    /\ fs \in [Roots -> [Names -> DirStates]]
    /\ \A n \in Names : set[n].ok \in BOOLEAN /\ set[n].val \in Seq(Files)
    /\ writing \subseteq {c \in Callers : pc[c] \in {"make_end", "append_end"}}
    /\ pc \in [Callers -> Steps]
    /\ name \in [Callers -> Names]
    /\ \A c \in Callers : out[c] \in Results
    /\ dead \in BOOLEAN
    /\ changes \in 0..MaxChanges

(***************************************************************************)
(* Dir never returns a file twice: directorySet.Get removes the duplicates *)
(* that Add lets into the slice, both a file present in the custom and the *)
(* static directory and the second listing two racing fills append.        *)
(***************************************************************************)
NoDuplicates ==
    \A c \in Callers : out[c].st = "ok" => IsInjective(out[c].files)

(***************************************************************************)
(* A Dir call that has found files fills the cache: once a caller reaches *)
(* directorySet.Add with a non-empty listing, the entry for its name is    *)
(* eventually non-empty (so later calls stop scanning), unless the process *)
(* dies first.  Racing fills may reset the slice on the way.               *)
(***************************************************************************)
CacheFills ==
    \A c \in Callers, n \in Names :
        (pc[c] = "add_ok" /\ name[c] = n /\ acc[c] # <<>>)
            ~> (Filled(set[n]) \/ dead)

(***************************************************************************)
(* A Dir call that scanned the directories returns every file it found    *)
(* ("Dir returns all files from static or custom directory"): the listing *)
(* it passes to AddAndGet is in what AddAndGet returns.                   *)
(***************************************************************************)
DirReturnsItsScan ==
    \A c \in Callers :
        (out[c].st = "ok" /\ out[c].path = "scan")
            => ToSet(out[c].scan) \subseteq ToSet(out[c].files)

====
