------------------------------ MODULE LfsClient ------------------------------
(***************************************************************************)
(* lfs/filesystem_client.go: an LFS endpoint that is a directory.  Every   *)
(* object lives at lfsdir/oid[0:2]/oid[2:4]/oid; Upload writes it in place *)
(* (MkdirAll, the caller's content callback, os.Create, io.Copy) and       *)
(* Download opens it and hands the open file to the caller's callback.    *)
(*                                                                         *)
(* BatchSize is 1, so every call carries one object.  Each goroutine that *)
(* calls the client is a process with a program counter; each file-system *)
(* call is a step, and io.Copy is two (some bytes, then the rest), since  *)
(* a reader can open the file between them.  Every call may fail the way  *)
(* the code checks for, and the process may crash and be restarted (its   *)
(* calls are gone, the files stay).  A file's content is abstracted to    *)
(* how much of the object it holds.                                        *)
(***************************************************************************)
EXTENDS Naturals

CONSTANTS
    Procs,       \* goroutines calling Upload or Download
    Oids,        \* object ids
    MaxCrashes   \* bound on process crashes

Contents == {"absent", "empty", "partial", "full"}

VARIABLES
    files,    \* files[o]: what the file at objectPath(o) holds
    pc,       \* pc[p]: the step the process is about to take
    oid,      \* oid[p]: the object of p's current call
    got,      \* got[p]: what p's last successful Download handed over
    crashes   \* crashes so far

vars == <<files, pc, oid, got, crashes>>

NoDownload == [oid |-> "none", content |-> "none"]

Init ==
    /\ files = [o \in Oids |-> "absent"]
    /\ pc = [p \in Procs |-> "idle"]
    /\ oid \in [Procs -> Oids]
    /\ got = [p \in Procs |-> NoDownload]
    /\ crashes = 0

Goto(p, s) == pc' = [pc EXCEPT ![p] = s]

\* A call returns its error: the process is free for its next call.
Fail(p) == /\ Goto(p, "idle") /\ UNCHANGED <<files, oid, got, crashes>>

Write(p, c) == files' = [files EXCEPT ![oid[p]] = c]

-----------------------------------------------------------------------------
(* Upload(ctx, {p}, callback).                                             *)
StartUpload(p) ==
    /\ pc[p] = "idle"
    /\ \E o \in Oids : oid' = [oid EXCEPT ![p] = o]
    /\ Goto(p, "mkdir")
    /\ UNCHANGED <<files, got, crashes>>

\* os.MkdirAll(filepath.Dir(objectPath), os.ModePerm)
MkdirAll(p) ==
    /\ pc[p] = "mkdir"
    /\ \/ Goto(p, "content") /\ UNCHANGED <<files, oid, got, crashes>>
       \/ Fail(p)

\* content, err := callback(p, nil)
UploadCallback(p) ==
    /\ pc[p] = "content"
    /\ \/ Goto(p, "create") /\ UNCHANGED <<files, oid, got, crashes>>
       \/ Fail(p)

\* f, err := os.Create(objectPath): truncates a file already there.
Create(p) ==
    /\ pc[p] = "create"
    /\ \/ /\ Write(p, "empty")
          /\ Goto(p, "copy")
          /\ UNCHANGED <<oid, got, crashes>>
       \/ Fail(p)

\* io.Copy(f, content): the first bytes reach the file, or the copy fails.
CopyStart(p) ==
    /\ pc[p] = "copy"
    /\ \/ /\ Write(p, "partial")
          /\ Goto(p, "copy_rest")
          /\ UNCHANGED <<oid, got, crashes>>
       \/ Fail(p)

\* io.Copy, the rest; the deferred content.Close(); Upload returns.
CopyRest(p) ==
    /\ pc[p] = "copy_rest"
    /\ \/ /\ Write(p, "full")
          /\ Goto(p, "idle")
          /\ UNCHANGED <<oid, got, crashes>>
       \/ Fail(p)

-----------------------------------------------------------------------------
(* Download(ctx, {p}, callback).                                           *)
StartDownload(p) ==
    /\ pc[p] = "idle"
    /\ \E o \in Oids : oid' = [oid EXCEPT ![p] = o]
    /\ Goto(p, "open")
    /\ UNCHANGED <<files, got, crashes>>

\* f, err := os.Open(objectPath): fails when there is no file.
Open(p) ==
    /\ pc[p] = "open"
    /\ \/ /\ files[oid[p]] # "absent"
          /\ Goto(p, "read")
          /\ UNCHANGED <<files, oid, got, crashes>>
       \/ Fail(p)

\* callback(p, f, nil) reads the file; a callback error is returned.
DownloadCallback(p) ==
    /\ pc[p] = "read"
    /\ \/ /\ got' = [got EXCEPT ![p] = [oid |-> oid[p], content |-> files[oid[p]]]]
          /\ Goto(p, "idle")
          /\ UNCHANGED <<files, oid, crashes>>
       \/ Fail(p)

-----------------------------------------------------------------------------
(* The process dies and is restarted: no call is in progress any more,    *)
(* and the files are as the last write left them.                          *)
Crash ==
    /\ crashes < MaxCrashes
    /\ \E p \in Procs : pc[p] # "idle"
    /\ pc' = [p \in Procs |-> "idle"]
    /\ crashes' = crashes + 1
    /\ UNCHANGED <<files, oid, got>>

Step(p) ==
    \/ StartUpload(p) \/ MkdirAll(p) \/ UploadCallback(p) \/ Create(p)
    \/ CopyStart(p) \/ CopyRest(p)
    \/ StartDownload(p) \/ Open(p) \/ DownloadCallback(p)

Next == (\E p \in Procs : Step(p)) \/ Crash

Spec == Init /\ [][Next]_vars

-----------------------------------------------------------------------------
TypeOK ==
    /\ files \in [Oids -> Contents]
    /\ pc \in [Procs -> {"idle", "mkdir", "content", "create", "copy", "copy_rest",
                         "open", "read"}]
    /\ oid \in [Procs -> Oids]
    /\ crashes \in 0..MaxCrashes

(***************************************************************************)
(* Download reads the LFS object: an object is addressed by its oid, so   *)
(* a Download that succeeds hands its callback the whole object, never a *)
(* file that an Upload has truncated or only partly written, whether that *)
(* Upload is still running, failed or died with the process.               *)
(***************************************************************************)
DownloadsWholeObjects ==
    \A p \in Procs : got[p] # NoDownload => got[p].content = "full"

=============================================================================
