----------------------------- MODULE AtomicFile -----------------------------
(***************************************************************************)
(* atomic.py: atomic_write writes a temporary file in the same directory,  *)
(* gives it its mode, flushes it to disk and renames it over the target.   *)
(*                                                                         *)
(* Several writers (a daemon and `once` share a state file) and readers    *)
(* (StateStore._load, the node_exporter) use one path.  Writers fail at any*)
(* call, or are killed; the machine may lose power.  The file system keeps *)
(* what the running system sees apart from what the disk is sure to hold:  *)
(* of a file, what the last fsync wrote, and Blank stands for anything.    *)
(***************************************************************************)
EXTENDS Naturals, FiniteSets

CONSTANTS
    Writers, Readers,
    Texts,        \* what may be written
    Mode,         \* the mode asked for: "0600" (state) or "0644" (metrics)
    Inodes,       \* bound on the files that exist at one time
    NoFile,
    MaxCrashes    \* bound on kills and power losses

Empty   == "empty"      \* a file nothing was written to yet
Partial == "partial"    \* the beginning of some text
Private == "0600"       \* what mkstemp gives

ASSUME AtomicFileAssumption ==
    /\ Empty \notin Texts /\ Partial \notin Texts
    /\ NoFile \notin Inodes
    /\ MaxCrashes \in Nat

Files   == [text : Texts \cup {Empty, Partial}, mode : {Private, Mode}]
Blank   == [text |-> Empty, mode |-> Private]
Whole   == [text : Texts, mode : {Mode}]

VARIABLES
    \* Per call of atomic_write.
    step,       \* where it is: see Steps
    temp,       \* the file behind its local `fd` and `tmp`
    \* The running system.
    temps,      \* the files that have a temporary name
    path,       \* the file the target path names
    cache,      \* per file, what a reader gets
    \* What the disk is sure to hold.
    diskPath, disk,
    \* Per reader: the file it opened and the text it got so far.
    handle, got,
    crashes

writerVars == <<step, temp>>
diskVars   == <<diskPath, disk>>
readerVars == <<handle, got>>
vars == <<writerVars, temps, path, cache, diskVars, readerVars, crashes>>

Steps == {"idle", "created", "buffered", "flushed", "chmodded", "synced", "failing"}

-----------------------------------------------------------------------------
Init ==
    /\ step = [w \in Writers |-> "idle"]
    /\ temp = [w \in Writers |-> NoFile]
    /\ temps = {}
    /\ path = NoFile
    /\ cache = [i \in Inodes |-> Blank]
    /\ diskPath = NoFile
    /\ disk = [i \in Inodes |-> Blank]
    /\ handle = [r \in Readers |-> NoFile]
    /\ got = [r \in Readers |-> Empty]
    /\ crashes = 0

(* Faulty variant: the target itself is rewritten. *)
UsableInPlace(i) == i \notin temps

(* A file nobody has a name or an open handle for. *)
Usable(i) ==
    /\ i \notin temps \cup {path, diskPath}
    /\ \A r \in Readers : handle[r] # i

(* Goto(w, from, to): the next statement of atomic_write succeeded. *)
Goto(w, from, to) ==
    /\ step[w] = from
    /\ step' = [step EXCEPT ![w] = to]

(* mkstemp. *)
Create(w) ==
    /\ Goto(w, "idle", "created")
    /\ \E i \in Inodes :
        /\ Usable(i)
        /\ temp' = [temp EXCEPT ![w] = i]
        /\ temps' = temps \cup {i}
        /\ cache' = [cache EXCEPT ![i] = Blank]
        /\ disk' = [disk EXCEPT ![i] = Blank]
    /\ UNCHANGED <<path, diskPath, readerVars, crashes>>

(* fh.write: the text is in Python's buffer, which may spill. *)
Write(w) ==
    /\ Goto(w, "created", "buffered")
    /\ \E part \in {Empty, Partial} : cache' = [cache EXCEPT ![temp[w]].text = part]
    /\ UNCHANGED <<temp, temps, path, diskVars, readerVars, crashes>>

(* Faulty variant: the buffer is left to the close of the file. *)
FlushNothing(w) ==
    /\ Goto(w, "buffered", "flushed")
    /\ UNCHANGED <<temp, temps, path, cache, diskVars, readerVars, crashes>>

(* fh.flush: all of the text, the argument of the call, is in the file. *)
Flush(w) ==
    /\ Goto(w, "buffered", "flushed")
    /\ \E text \in Texts : cache' = [cache EXCEPT ![temp[w]].text = text]
    /\ UNCHANGED <<temp, temps, path, diskVars, readerVars, crashes>>

(* os.fchmod *)
Chmod(w) ==
    /\ Goto(w, "flushed", "chmodded")
    /\ cache' = [cache EXCEPT ![temp[w]].mode = Mode]
    /\ UNCHANGED <<temp, temps, path, diskVars, readerVars, crashes>>

(* Faulty variant: no fsync. *)
SyncNothing(w) ==
    /\ Goto(w, "chmodded", "synced")
    /\ UNCHANGED <<temp, temps, path, cache, diskVars, readerVars, crashes>>

(* os.fsync *)
Sync(w) ==
    /\ Goto(w, "chmodded", "synced")
    /\ disk' = [disk EXCEPT ![temp[w]] = cache[temp[w]]]
    /\ UNCHANGED <<temp, temps, path, cache, diskPath, readerVars, crashes>>

(* os.replace: the temporary name becomes the target's; the `finally` finds *)
(* nothing to remove, and the call returns.                                 *)
Replace(w) ==
    /\ Goto(w, "synced", "idle")
    /\ path' = temp[w]
    /\ temps' = temps \ {temp[w]}
    /\ temp' = [temp EXCEPT ![w] = NoFile]
    /\ UNCHANGED <<cache, diskVars, readerVars, crashes>>

(* Any of these calls raises (disk full, I/O error, interrupt). *)
Fail(w) ==
    /\ step[w] \notin {"idle", "failing"}
    /\ step' = [step EXCEPT ![w] = "failing"]
    /\ UNCHANGED <<temp, temps, path, cache, diskVars, readerVars, crashes>>

(* Faulty variant: the temporary file is only renamed, never removed. *)
CleanupNothing(w) ==
    /\ Goto(w, "failing", "idle")
    /\ temp' = [temp EXCEPT ![w] = NoFile]
    /\ UNCHANGED <<temps, path, cache, diskVars, readerVars, crashes>>

(* The `finally` removes the temporary file; the error goes on. *)
Cleanup(w) ==
    /\ Goto(w, "failing", "idle")
    /\ temps' = temps \ {temp[w]}
    /\ temp' = [temp EXCEPT ![w] = NoFile]
    /\ UNCHANGED <<path, cache, diskVars, readerVars, crashes>>

Crashing == crashes < MaxCrashes /\ crashes' = crashes + 1

(* The writer's process is killed: the temporary file stays. *)
Kill(w) ==
    /\ step[w] # "idle"
    /\ Crashing
    /\ step' = [step EXCEPT ![w] = "idle"]
    /\ temp' = [temp EXCEPT ![w] = NoFile]
    /\ UNCHANGED <<temps, path, cache, diskVars, readerVars>>

-----------------------------------------------------------------------------
(* A reader opens the target, if it exists, ... *)
Open(r) ==
    /\ handle[r] = NoFile
    /\ path # NoFile
    /\ handle' = [handle EXCEPT ![r] = path]
    /\ UNCHANGED <<writerVars, temps, path, cache, diskVars, got, crashes>>

(* ... reads a part, ... *)
ReadHead(r) ==
    /\ handle[r] # NoFile
    /\ got[r] = Empty
    /\ got' = [got EXCEPT ![r] = cache[handle[r]].text]
    /\ UNCHANGED <<writerVars, temps, path, cache, diskVars, handle, crashes>>

(* ... and is done when it read the rest. *)
Close(r) ==
    /\ got[r] # Empty
    /\ handle' = [handle EXCEPT ![r] = NoFile]
    /\ got' = [got EXCEPT ![r] = Empty]
    /\ UNCHANGED <<writerVars, temps, path, cache, diskVars, crashes>>

-----------------------------------------------------------------------------
(* The kernel writes back the directory: nothing in atomic_write waits for  *)
(* it.                                                                      *)
WriteBackPath ==
    /\ diskPath' = path
    /\ UNCHANGED <<writerVars, temps, path, cache, disk, readerVars, crashes>>

(* The machine stops and comes back with what the disk holds.  Temporary    *)
(* names are taken to survive it.                                           *)
PowerLoss ==
    /\ Crashing
    /\ step' = [w \in Writers |-> "idle"]
    /\ temp' = [w \in Writers |-> NoFile]
    /\ path' = diskPath
    /\ cache' = disk
    /\ handle' = [r \in Readers |-> NoFile]
    /\ got' = [r \in Readers |-> Empty]
    /\ UNCHANGED <<temps, diskVars>>

WriterStep(w) ==
    \/ Create(w)
    \/ Write(w)
    \/ Flush(w)
    \/ Chmod(w)
    \/ Sync(w)
    \/ Replace(w)
    \/ Fail(w)
    \/ Cleanup(w)
    \/ Kill(w)

ReaderStep(r) == Open(r) \/ ReadHead(r) \/ Close(r)

Next ==
    \/ \E w \in Writers : WriterStep(w)
    \/ \E r \in Readers : ReaderStep(r)
    \/ WriteBackPath
    \/ PowerLoss

Spec == Init /\ [][Next]_vars

-----------------------------------------------------------------------------
(* Every variable has its type. *)
TypeOK ==
    /\ step \in [Writers -> Steps]
    /\ temp \in [Writers -> Inodes \cup {NoFile}]
    /\ \A w \in Writers : temp[w] = NoFile <=> step[w] = "idle"
    /\ temps \subseteq Inodes
    /\ path \in Inodes \cup {NoFile}
    /\ cache \in [Inodes -> Files]
    /\ diskPath \in Inodes \cup {NoFile}
    /\ disk \in [Inodes -> Files]
    /\ handle \in [Readers -> Inodes \cup {NoFile}]
    /\ got \in [Readers -> Texts \cup {Empty, Partial}]
    /\ crashes \in Nat

(* The file at the path is a whole text with its mode, now and after losing *)
(* power at any moment ("a crash cannot leave an empty file in its place",  *)
(* atomic_write).                                                           *)
CrashSafe ==
    /\ path # NoFile => cache[path] \in Whole /\ disk[path] \in Whole
    /\ diskPath # NoFile => disk[diskPath] \in Whole

(* What a reader gets in pieces is one text, however many writers rename    *)
(* over the path meanwhile ("a reader never sees a half-written result").   *)
ReadsWhole ==
    \A r \in Readers :
        handle[r] # NoFile =>
            /\ cache[handle[r]] \in Whole
            /\ got[r] \in {Empty, cache[handle[r]].text}

(* Unless a writer was killed in it, a call that ended, by success or by an *)
(* error, left no temporary file behind (the `finally`).                    *)
NothingLeftBehind ==
    crashes = 0 => temps = {temp[w] : w \in {v \in Writers : step[v] # "idle"}}

(* Two writers never work on one file. *)
WritersApart ==
    \A v, w \in Writers : temp[v] # NoFile /\ temp[v] = temp[w] => v = w

(* What the path shows now, and what it would show after losing power. *)
Visible == IF path = NoFile THEN NoFile ELSE cache[path]
Secured == IF diskPath = NoFile THEN NoFile ELSE disk[diskPath]

Durable ==
    INSTANCE DurableFile WITH
        Contents <- Whole, file <- Visible, fallback <- Secured

(* Through the path, the calls of all writers look like a file whose content*)
(* is replaced in one step (atomic.py's docstring).                         *)
ImplementsDurableFile == Durable!Spec
=============================================================================
