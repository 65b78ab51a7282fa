-------------------------- MODULE AtomicFileProofs --------------------------
(***************************************************************************)
(* What holds of atomic_write for any number of writers, readers, crashes  *)
(* and files, and that it implements DurableFile.                          *)
(***************************************************************************)
EXTENDS AtomicFile, TLAPS

(* Changing the text or the mode of one file gives files again. *)
LEMMA EditedFiles ==
  ASSUME cache \in [Inodes -> Files], NEW i \in Inodes
  PROVE  /\ \A t \in Texts \cup {Empty, Partial} :
              [cache EXCEPT ![i].text = t] \in [Inodes -> Files]
         /\ [cache EXCEPT ![i].mode = Mode] \in [Inodes -> Files]
         /\ [cache EXCEPT ![i] = Blank] \in [Inodes -> Files]
  BY DEF Files, Blank

(* The initial state is well typed. *)
LEMMA InitTypeOK == Init => TypeOK
  BY DEF Init, TypeOK, Steps, Files, Blank

(* Every step keeps the types. *)
LEMMA NextTypeOK == TypeOK /\ [Next]_vars => TypeOK'
<1> SUFFICES ASSUME TypeOK, [Next]_vars PROVE TypeOK'
  OBVIOUS
<1> USE DEF writerVars, diskVars, readerVars, Goto
<1>1. \A w \in Writers : step[w] # "idle" => temp[w] \in Inodes
  BY DEF TypeOK
<1>2. ASSUME NEW w \in Writers, Create(w) PROVE TypeOK'
  <2>1. PICK i \in Inodes :
          /\ temp' = [temp EXCEPT ![w] = i]
          /\ temps' = temps \cup {i}
          /\ cache' = [cache EXCEPT ![i] = Blank]
          /\ disk' = [disk EXCEPT ![i] = Blank]
    BY <1>2 DEF Create
  <2>2. cache' \in [Inodes -> Files] /\ disk' \in [Inodes -> Files]
    BY <2>1 DEF TypeOK, Files, Blank
  <2>3. step' = [step EXCEPT ![w] = "created"]
    BY <1>2 DEF Create
  <2>4. QED
    BY <1>2, <2>1, <2>2, <2>3, AtomicFileAssumption DEF Create, TypeOK, Steps
<1>3. ASSUME NEW w \in Writers, Write(w) PROVE TypeOK'
  <2>1. step' = [step EXCEPT ![w] = "buffered"] /\ step[w] # "idle"
    BY <1>3 DEF Write
  <2>2. PICK t \in Texts \cup {Empty, Partial} : cache' = [cache EXCEPT ![temp[w]].text = t]
    BY <1>3 DEF Write
  <2>3. cache' \in [Inodes -> Files]
    BY <1>1, <2>1, <2>2, EditedFiles DEF TypeOK
  <2>4. QED
    BY <1>3, <2>1, <2>3 DEF Write, TypeOK, Steps
<1>4. ASSUME NEW w \in Writers, Flush(w) PROVE TypeOK'
  <2>1. step' = [step EXCEPT ![w] = "flushed"] /\ step[w] # "idle"
    BY <1>4 DEF Flush
  <2>2. PICK t \in Texts \cup {Empty, Partial} : cache' = [cache EXCEPT ![temp[w]].text = t]
    BY <1>4 DEF Flush
  <2>3. cache' \in [Inodes -> Files]
    BY <1>1, <2>1, <2>2, EditedFiles DEF TypeOK
  <2>4. QED
    BY <1>4, <2>1, <2>3 DEF Flush, TypeOK, Steps
<1>5. ASSUME NEW w \in Writers, Chmod(w) PROVE TypeOK'
  BY <1>1, <1>5, EditedFiles DEF Chmod, TypeOK, Steps
<1>6. ASSUME NEW w \in Writers, Sync(w) PROVE TypeOK'
  BY <1>1, <1>6 DEF Sync, TypeOK, Steps
<1>7. ASSUME NEW w \in Writers, Replace(w) PROVE TypeOK'
  BY <1>7 DEF Replace, TypeOK, Steps
<1>8. ASSUME NEW w \in Writers, Fail(w) PROVE TypeOK'
  BY <1>8 DEF Fail, TypeOK, Steps
<1>9. ASSUME NEW w \in Writers, Cleanup(w) PROVE TypeOK'
  BY <1>9 DEF Cleanup, TypeOK, Steps
<1>10. ASSUME NEW w \in Writers, Kill(w) PROVE TypeOK'
  BY <1>10 DEF Kill, Crashing, TypeOK, Steps
<1>11. ASSUME NEW r \in Readers, ReaderStep(r) PROVE TypeOK'
  <2>1. CASE Open(r)
    BY <2>1 DEF Open, TypeOK
  <2>2. CASE ReadHead(r)
    BY <2>2 DEF ReadHead, TypeOK, Files
  <2>3. CASE Close(r)
    BY <2>3 DEF Close, TypeOK
  <2>4. QED
    BY <1>11, <2>1, <2>2, <2>3 DEF ReaderStep
<1>12. CASE WriteBackPath
  BY <1>12 DEF WriteBackPath, TypeOK
<1>13. CASE PowerLoss
  BY <1>13 DEF PowerLoss, Crashing, TypeOK, Steps
<1>14. CASE UNCHANGED vars
  BY <1>14 DEF vars, TypeOK
<1>15. QED
  BY <1>2, <1>3, <1>4, <1>5, <1>6, <1>7, <1>8, <1>9, <1>10, <1>11, <1>12, <1>13,
     <1>14 DEF Next, WriterStep

(* Every variable of the writers, the readers and the file system has its   *)
(* type.                                                                    *)
THEOREM FileTypeCorrect == Spec => []TypeOK
  BY InitTypeOK, NextTypeOK, PTL DEF Spec

-----------------------------------------------------------------------------
(* A file with a temporary name belongs to at most one writer, and nobody   *)
(* else can reach it.                                                       *)
Apart ==
  /\ WritersApart
  /\ \A w \in Writers : temp[w] # NoFile => temp[w] \in temps
  /\ path \notin temps /\ diskPath \notin temps
  /\ \A r \in Readers : handle[r] \notin temps

(* How far a writer got with its file. *)
Prepared ==
  \A w \in Writers :
    /\ step[w] \in {"flushed", "chmodded", "synced"} => cache[temp[w]].text \in Texts
    /\ step[w] \in {"chmodded", "synced"} => cache[temp[w]].mode = Mode
    /\ step[w] = "synced" => disk[temp[w]] = cache[temp[w]]

(* A file somebody can reach is whole, and on the disk if it has a name. *)
Published ==
  /\ path # NoFile => cache[path] \in Whole /\ disk[path] = cache[path]
  /\ diskPath # NoFile => disk[diskPath] \in Whole
  /\ \A r \in Readers :
        IF handle[r] = NoFile
        THEN got[r] = Empty
        ELSE cache[handle[r]] \in Whole /\ got[r] \in {Empty, cache[handle[r]].text}

Safe == Apart /\ Prepared /\ Published

(* A writer that works on its own file disturbs nobody. *)
LEMMA OwnFileOnly ==
  ASSUME TypeOK, Safe, NEW w \in Writers, temp[w] # NoFile,
         UNCHANGED <<temp, temps, path, diskPath, handle, got>>,
         \A v \in Writers \ {w} : step'[v] = step[v],
         \A i \in Inodes \ {temp[w]} : cache'[i] = cache[i] /\ disk'[i] = disk[i],
         /\ step'[w] \in {"flushed", "chmodded", "synced"} => cache'[temp[w]].text \in Texts
         /\ step'[w] \in {"chmodded", "synced"} => cache'[temp[w]].mode = Mode
         /\ step'[w] = "synced" => disk'[temp[w]] = cache'[temp[w]]
  PROVE  Safe'
<1>1. Apart'
  BY DEF Safe, Apart, WritersApart
<1>2. \A i \in Inodes : i # temp[w] => cache'[i] = cache[i] /\ disk'[i] = disk[i]
  OBVIOUS
<1>3. ASSUME NEW v \in Writers, v # w, step[v] # "idle"
      PROVE  temp[v] \in Inodes /\ temp[v] # temp[w]
  BY <1>3 DEF Safe, Apart, WritersApart, TypeOK
<1>4. Prepared'
  <2> SUFFICES ASSUME NEW v \in Writers
               PROVE
                 /\ step'[v] \in {"flushed", "chmodded", "synced"} => cache'[temp[v]].text \in Texts
                 /\ step'[v] \in {"chmodded", "synced"} => cache'[temp[v]].mode = Mode
                 /\ step'[v] = "synced" => disk'[temp[v]] = cache'[temp[v]]
    BY DEF Prepared
  <2>1. CASE v = w
    BY <2>1
  <2>2. CASE v # w
    BY <1>2, <1>3, <2>2 DEF Safe, Prepared
  <2>3. QED
    BY <2>1, <2>2
<1>5. temp[w] \in temps
  BY DEF Safe, Apart
<1>6. /\ path # NoFile => path \in Inodes /\ path # temp[w]
      /\ diskPath # NoFile => diskPath \in Inodes /\ diskPath # temp[w]
      /\ \A r \in Readers :
            handle[r] # NoFile => handle[r] \in Inodes /\ handle[r] # temp[w]
  BY <1>5 DEF Safe, Apart, TypeOK
<1>7. Published'
  BY <1>2, <1>6 DEF Safe, Published
<1>8. QED
  BY <1>1, <1>4, <1>7 DEF Safe

(* Every step keeps the state safe. *)
LEMMA NextSafe == TypeOK /\ Safe /\ [Next]_vars => Safe'
<1> SUFFICES ASSUME TypeOK, Safe, [Next]_vars PROVE Safe'
  OBVIOUS
<1> USE DEF writerVars, diskVars, readerVars, Goto
<1>1. \A w \in Writers : step[w] # "idle" => temp[w] \in Inodes /\ temp[w] # NoFile
  BY AtomicFileAssumption DEF TypeOK
<1>2. ASSUME NEW w \in Writers, Create(w) PROVE Safe'
  <2>1. PICK i \in Inodes :
          /\ Usable(i)
          /\ temp' = [temp EXCEPT ![w] = i]
          /\ temps' = temps \cup {i}
          /\ cache' = [cache EXCEPT ![i] = Blank]
          /\ disk' = [disk EXCEPT ![i] = Blank]
    BY <1>2 DEF Create
  <2>2. step' = [step EXCEPT ![w] = "created"] /\ UNCHANGED <<path, diskPath, handle, got>>
    BY <1>2 DEF Create
  <2>3. \A v \in Writers : temp[v] # i
    BY <2>1, AtomicFileAssumption DEF Usable, Safe, Apart
  <2>4. Apart'
    BY <2>1, <2>2, <2>3 DEF Usable, Safe, Apart, WritersApart, TypeOK
  <2>5. Prepared'
    BY <2>1, <2>2, <2>3 DEF Safe, Prepared, TypeOK
  <2>6. Published'
    BY <2>1, <2>2 DEF Usable, Safe, Published, TypeOK
  <2>7. QED
    BY <2>4, <2>5, <2>6 DEF Safe
<1>3. ASSUME NEW w \in Writers, Write(w) PROVE Safe'
  <2>1. step' = [step EXCEPT ![w] = "buffered"] /\ temp[w] \in Inodes /\ temp[w] # NoFile
    BY <1>1, <1>3 DEF Write
  <2>2. \A i \in Inodes \ {temp[w]} : cache'[i] = cache[i] /\ disk'[i] = disk[i]
    BY <1>3 DEF Write, TypeOK
  <2>3. QED
    BY <1>3, <2>1, <2>2, OwnFileOnly DEF Write, TypeOK
<1>4. ASSUME NEW w \in Writers, Flush(w) PROVE Safe'
  <2>1. step' = [step EXCEPT ![w] = "flushed"] /\ temp[w] \in Inodes /\ temp[w] # NoFile
    BY <1>1, <1>4 DEF Flush
  <2>2. \A i \in Inodes \ {temp[w]} : cache'[i] = cache[i] /\ disk'[i] = disk[i]
    BY <1>4 DEF Flush, TypeOK
  <2>3. cache'[temp[w]].text \in Texts
    BY <1>4, <2>1 DEF Flush, TypeOK, Files
  <2>4. QED
    BY <1>4, <2>1, <2>2, <2>3, OwnFileOnly DEF Flush, TypeOK
<1>5. ASSUME NEW w \in Writers, Chmod(w) PROVE Safe'
  <2>1. step' = [step EXCEPT ![w] = "chmodded"] /\ temp[w] \in Inodes /\ temp[w] # NoFile
    BY <1>1, <1>5 DEF Chmod
  <2>2. \A i \in Inodes \ {temp[w]} : cache'[i] = cache[i] /\ disk'[i] = disk[i]
    BY <1>5 DEF Chmod, TypeOK
  <2>3. cache'[temp[w]].text \in Texts /\ cache'[temp[w]].mode = Mode
    BY <1>5, <2>1 DEF Chmod, TypeOK, Files, Safe, Prepared
  <2>4. QED
    BY <1>5, <2>1, <2>2, <2>3, OwnFileOnly DEF Chmod, TypeOK
<1>6. ASSUME NEW w \in Writers, Sync(w) PROVE Safe'
  <2>1. step' = [step EXCEPT ![w] = "synced"] /\ temp[w] \in Inodes /\ temp[w] # NoFile
    BY <1>1, <1>6 DEF Sync
  <2>2. \A i \in Inodes \ {temp[w]} : cache'[i] = cache[i] /\ disk'[i] = disk[i]
    BY <1>6 DEF Sync, TypeOK
  <2>3. /\ cache'[temp[w]].text \in Texts /\ cache'[temp[w]].mode = Mode
        /\ disk'[temp[w]] = cache'[temp[w]]
    BY <1>6, <2>1 DEF Sync, TypeOK, Safe, Prepared
  <2>4. QED
    BY <1>6, <2>1, <2>2, <2>3, OwnFileOnly DEF Sync, TypeOK
<1>7. ASSUME NEW w \in Writers, Replace(w) PROVE Safe'
  <2>1. /\ step[w] = "synced" /\ step' = [step EXCEPT ![w] = "idle"]
        /\ temp[w] \in Inodes /\ temp[w] # NoFile /\ temp[w] \in temps
    BY <1>1, <1>7 DEF Replace, Safe, Apart
  <2>2. Apart'
    BY <1>7, <2>1, AtomicFileAssumption DEF Replace, Safe, Apart, WritersApart, TypeOK
  <2>3. Prepared'
    BY <1>7, <2>1 DEF Replace, Safe, Prepared, TypeOK
  <2>4. cache[temp[w]] \in Whole /\ disk[temp[w]] = cache[temp[w]]
    BY <2>1 DEF Safe, Prepared, Whole, TypeOK, Files
  <2>5. Published'
    BY <1>7, <2>4 DEF Replace, Safe, Published
  <2>6. QED
    BY <2>2, <2>3, <2>5 DEF Safe
<1>8. ASSUME NEW w \in Writers, Fail(w) PROVE Safe'
  <2>1. step' = [step EXCEPT ![w] = "failing"] /\ temp[w] # NoFile
    BY <1>1, <1>8 DEF Fail
  <2>2. QED
    BY <1>8, <2>1, OwnFileOnly DEF Fail, TypeOK
<1>9. ASSUME NEW w \in Writers,
             step' = [step EXCEPT ![w] = "idle"], temp' = [temp EXCEPT ![w] = NoFile],
             temps' = temps \/ (temps' = temps \ {temp[w]} /\ temp[w] # NoFile),
             UNCHANGED <<path, cache, disk, diskPath, handle, got>>
      PROVE  Safe'
  <2>1. Apart'
    BY <1>9 DEF Safe, Apart, WritersApart, TypeOK
  <2>2. Prepared'
    BY <1>9 DEF Safe, Prepared, TypeOK
  <2>3. Published'
    BY <1>9 DEF Safe, Published
  <2>4. QED
    BY <2>1, <2>2, <2>3 DEF Safe
<1>10. ASSUME NEW w \in Writers, Cleanup(w) PROVE Safe'
  BY <1>1, <1>9, <1>10 DEF Cleanup
<1>11. ASSUME NEW w \in Writers, Kill(w) PROVE Safe'
  BY <1>9, <1>11 DEF Kill
<1>12. ASSUME NEW r \in Readers, ReaderStep(r) PROVE Safe'
  <2>1. UNCHANGED <<step, temp, temps, path, diskPath, cache, disk>>
    BY <1>12 DEF ReaderStep, Open, ReadHead, Close
  <2>2. Prepared'
    BY <2>1 DEF Safe, Prepared
  <2>3. CASE Open(r)
    <3>1. Apart'
      BY <2>1, <2>3 DEF Open, Safe, Apart, WritersApart, TypeOK
    <3>2. Published'
      BY <2>1, <2>3 DEF Open, Safe, Published, TypeOK
    <3>3. QED
      BY <2>2, <3>1, <3>2 DEF Safe
  <2>4. CASE ReadHead(r)
    <3>1. Apart'
      BY <2>1, <2>4 DEF ReadHead, Safe, Apart, WritersApart
    <3>2. Published'
      BY <2>1, <2>4 DEF ReadHead, Safe, Published, TypeOK
    <3>3. QED
      BY <2>2, <3>1, <3>2 DEF Safe
  <2>5. CASE Close(r)
    <3>1. NoFile \notin temps
      BY AtomicFileAssumption DEF TypeOK
    <3>2. Apart'
      BY <2>1, <2>5, <3>1 DEF Close, Safe, Apart, WritersApart, TypeOK
    <3>3. Published'
      BY <2>1, <2>5 DEF Close, Safe, Published, TypeOK
    <3>4. QED
      BY <2>2, <3>2, <3>3 DEF Safe
  <2>6. QED
    BY <1>12, <2>3, <2>4, <2>5 DEF ReaderStep
<1>13. CASE WriteBackPath
  BY <1>13 DEF WriteBackPath, Safe, Apart, WritersApart, Prepared, Published
<1>14. CASE PowerLoss
  <2>1. Apart'
    BY <1>14, AtomicFileAssumption DEF PowerLoss, Safe, Apart, WritersApart, TypeOK
  <2>2. Prepared'
    BY <1>14 DEF PowerLoss, Prepared
  <2>3. Published'
    BY <1>14 DEF PowerLoss, Safe, Published
  <2>4. QED
    BY <2>1, <2>2, <2>3 DEF Safe
<1>15. CASE UNCHANGED vars
  BY <1>15 DEF vars, Safe, Apart, WritersApart, Prepared, Published
<1>16. QED
  BY <1>2, <1>3, <1>4, <1>5, <1>6, <1>7, <1>8, <1>10, <1>11, <1>12, <1>13, <1>14,
     <1>15 DEF Next, WriterStep

(* The strengthening holds in every reachable state. *)
LEMMA SafeAlways == Spec => [](TypeOK /\ Safe)
<1>1. Init => Safe
  BY DEF Init, Safe, Apart, WritersApart, Prepared, Published
<1>2. QED
  BY <1>1, InitTypeOK, NextTypeOK, NextSafe, PTL DEF Spec

(* The target is a whole text with its mode at any moment and after losing  *)
(* power at any moment (atomic_write's fsync before os.replace).            *)
THEOREM CrashSafety == Spec => []CrashSafe
<1>1. Safe => CrashSafe
  BY DEF Safe, Published, CrashSafe
<1>2. QED
  BY <1>1, SafeAlways, PTL

(* No reader gets a mixture of two texts, or half of one. *)
THEOREM ReadingWhole == Spec => []ReadsWhole
<1>1. Safe => ReadsWhole
  BY DEF Safe, Published, ReadsWhole
<1>2. QED
  BY <1>1, SafeAlways, PTL

-----------------------------------------------------------------------------
(* Replacing the target is a Save of the abstract file, writing back the    *)
(* directory a Settle, losing power a LosePower; nothing else shows.        *)
LEMMA NextRefines ==
  TypeOK /\ Safe /\ [Next]_vars => [Durable!Next]_<<Visible, Secured>>
<1> SUFFICES ASSUME TypeOK, Safe, [Next]_vars
             PROVE  Durable!Next \/ UNCHANGED <<Visible, Secured>>
  OBVIOUS
<1> USE DEF writerVars, diskVars, readerVars
<1>1. ASSUME UNCHANGED <<path, diskPath>>,
             path # NoFile => cache'[path] = cache[path],
             diskPath # NoFile => disk'[diskPath] = disk[diskPath]
      PROVE  UNCHANGED <<Visible, Secured>>
  BY <1>1 DEF Visible, Secured
<1>2. ASSUME NEW w \in Writers, Create(w) PROVE UNCHANGED <<Visible, Secured>>
  <2>1. PICK i \in Inodes :
          /\ Usable(i)
          /\ cache' = [cache EXCEPT ![i] = Blank]
          /\ disk' = [disk EXCEPT ![i] = Blank]
    BY <1>2 DEF Create
  <2>2. /\ UNCHANGED <<path, diskPath>> /\ path # i /\ diskPath # i
        /\ path # NoFile => path \in Inodes
        /\ diskPath # NoFile => diskPath \in Inodes
    BY <1>2, <2>1 DEF Create, Usable, TypeOK
  <2>3. QED
    BY <1>1, <2>1, <2>2 DEF TypeOK
<1>3. ASSUME NEW w \in Writers, Write(w) \/ Flush(w) \/ Chmod(w) \/ Sync(w)
      PROVE  UNCHANGED <<Visible, Secured>>
  <2>1. temp[w] \in temps
    BY <1>3, AtomicFileAssumption
       DEF Write, Flush, Chmod, Sync, Goto, TypeOK, Safe, Apart
  <2>2. path # temp[w] /\ diskPath # temp[w]
    BY <2>1 DEF Safe, Apart
  <2>3. UNCHANGED <<path, diskPath>>
    BY <1>3 DEF Write, Flush, Chmod, Sync
  <2>4. \A i \in Inodes : i # temp[w] => cache'[i] = cache[i] /\ disk'[i] = disk[i]
    BY <1>3 DEF Write, Flush, Chmod, Sync, TypeOK
  <2>5. QED
    BY <1>1, <2>2, <2>3, <2>4 DEF TypeOK
<1>4. ASSUME NEW w \in Writers, Replace(w) PROVE Durable!Next
  <2>1. temp[w] # NoFile /\ step[w] = "synced"
    BY <1>4 DEF Replace, Goto, TypeOK
  <2>2. cache[temp[w]] \in Whole
    BY <2>1 DEF Safe, Prepared, Whole, TypeOK, Files
  <2>3. Visible' = cache[temp[w]] /\ Secured' = Secured
    BY <1>4, <2>1 DEF Replace, Visible, Secured
  <2>4. QED
    BY <2>2, <2>3 DEF Durable!Next, Durable!Save
<1>5. ASSUME NEW w \in Writers, Fail(w) \/ Cleanup(w) \/ Kill(w)
      PROVE  UNCHANGED <<Visible, Secured>>
  BY <1>1, <1>5 DEF Fail, Cleanup, Kill
<1>6. ASSUME NEW r \in Readers, ReaderStep(r) PROVE UNCHANGED <<Visible, Secured>>
  BY <1>1, <1>6 DEF ReaderStep, Open, ReadHead, Close
<1>7. CASE WriteBackPath
  <2>1. Visible' = Visible /\ Secured' = Visible
    BY <1>7 DEF WriteBackPath, Visible, Secured, Safe, Published
  <2>2. QED
    BY <2>1 DEF Durable!Next, Durable!Settle
<1>8. CASE PowerLoss
  <2>1. Visible' = Secured /\ Secured' = Secured
    BY <1>8 DEF PowerLoss, Visible, Secured
  <2>2. QED
    BY <2>1 DEF Durable!Next, Durable!LosePower
<1>9. CASE UNCHANGED vars
  BY <1>1, <1>9 DEF vars
<1>10. QED
  BY <1>2, <1>3, <1>4, <1>5, <1>6, <1>7, <1>8, <1>9 DEF Next, WriterStep

(* atomic_write implements the abstract file: one step from one whole text  *)
(* to another, whatever its writers, their failures and the machine do.     *)
THEOREM FileRefinement == Spec => ImplementsDurableFile
<1>1. Init => Durable!Init
  BY DEF Init, Durable!Init, Visible, Secured
<1>2. TypeOK /\ Safe /\ [Next]_vars => [Durable!Next]_<<Visible, Secured>>
  BY NextRefines
<1>3. QED
  BY <1>1, <1>2, SafeAlways, PTL DEF Spec, ImplementsDurableFile, Durable!Spec

-----------------------------------------------------------------------------
(* Until a crash, the temporary names are those of the calls under way. *)
LEMMA NextTidy ==
  ASSUME TypeOK, Apart, NothingLeftBehind, [Next]_vars
  PROVE  NothingLeftBehind'
<1> DEFINE Busy == {v \in Writers : step[v] # "idle"}
           Theirs == {temp[v] : v \in Busy}
<1> SUFFICES ASSUME crashes' = 0 PROVE temps' = Theirs'
  BY DEF NothingLeftBehind
<1> USE DEF writerVars, diskVars, readerVars, Goto
<1>1. \A w \in Writers : temp[w] = NoFile <=> step[w] = "idle"
  BY DEF TypeOK
<1>2. ASSUME crashes = 0 PROVE temps = Theirs
  BY <1>2 DEF NothingLeftBehind
<1>3. ASSUME NEW w \in Writers, NEW i \in Inodes,
             step[w] = "idle", step' = [step EXCEPT ![w] = "created"],
             temp' = [temp EXCEPT ![w] = i]
      PROVE  Theirs' = Theirs \cup {i}
  <2>1. /\ step'[w] # "idle" /\ temp'[w] = i
        /\ \A v \in Writers \ {w} : step'[v] = step[v] /\ temp'[v] = temp[v]
    BY <1>3 DEF TypeOK
  <2>2. QED
    BY <1>3, <2>1
<1>4. ASSUME NEW w \in Writers, step[w] # "idle", temp' = temp,
             NEW to \in Steps \ {"idle"}, step' = [step EXCEPT ![w] = to]
      PROVE  Theirs' = Theirs
  <2>1. Busy' = Busy
    BY <1>4 DEF TypeOK
  <2>2. QED
    BY <1>4, <2>1
<1>5. ASSUME NEW w \in Writers, step[w] # "idle",
             step' = [step EXCEPT ![w] = "idle"], temp' = [temp EXCEPT ![w] = NoFile]
      PROVE  Theirs' = Theirs \ {temp[w]}
  <2>1. /\ step'[w] = "idle" /\ temp[w] # NoFile
        /\ \A v \in Writers \ {w} : step'[v] = step[v] /\ temp'[v] = temp[v]
    BY <1>1, <1>5 DEF TypeOK
  <2>2. \A v \in Writers \ {w} : temp[v] # temp[w]
    BY <2>1 DEF Apart, WritersApart
  <2>3. QED
    BY <2>1, <2>2
<1>6. ASSUME NEW w \in Writers, Create(w) PROVE temps' = Theirs'
  <2>1. PICK i \in Inodes : temp' = [temp EXCEPT ![w] = i] /\ temps' = temps \cup {i}
    BY <1>6 DEF Create
  <2>2. /\ step[w] = "idle" /\ step' = [step EXCEPT ![w] = "created"] /\ crashes' = crashes
    BY <1>6 DEF Create
  <2> HIDE DEF Theirs
  <2>3. QED
    BY <1>2, <1>3, <2>1, <2>2
<1>7. ASSUME NEW w \in Writers, Write(w) \/ Flush(w) \/ Chmod(w) \/ Sync(w) \/ Fail(w)
      PROVE  temps' = Theirs'
  <2>1. /\ UNCHANGED <<temp, temps, crashes>> /\ step[w] # "idle"
        /\ \E to \in Steps \ {"idle"} : step' = [step EXCEPT ![w] = to]
    BY <1>7 DEF Write, Flush, Chmod, Sync, Fail, Steps
  <2> HIDE DEF Theirs
  <2>2. QED
    BY <1>2, <1>4, <2>1
<1>8. ASSUME NEW w \in Writers, Replace(w) \/ Cleanup(w) PROVE temps' = Theirs'
  <2>1. /\ step[w] # "idle" /\ crashes' = crashes /\ temps' = temps \ {temp[w]}
        /\ step' = [step EXCEPT ![w] = "idle"] /\ temp' = [temp EXCEPT ![w] = NoFile]
    BY <1>8 DEF Replace, Cleanup
  <2> HIDE DEF Theirs
  <2>2. QED
    BY <1>2, <1>5, <2>1
<1>9. ASSUME Crashing PROVE FALSE
  BY <1>9 DEF Crashing, TypeOK
<1>10. CASE \/ \E r \in Readers : ReaderStep(r)
            \/ WriteBackPath
            \/ UNCHANGED vars
  <2>1. UNCHANGED <<step, temp, temps, crashes>>
    BY <1>10 DEF ReaderStep, Open, ReadHead, Close, WriteBackPath, vars
  <2>2. QED
    BY <1>2, <2>1
<1>11. QED
  BY <1>6, <1>7, <1>8, <1>9, <1>10 DEF Next, WriterStep, Kill, PowerLoss

(* Without a kill or a power loss, no call that ended, by success or by an  *)
(* error at any statement, leaves its temporary file (the `finally` of      *)
(* atomic_write), however many calls overlap.                               *)
THEOREM TidyCorrect == Spec => []NothingLeftBehind
<1>1. Init => NothingLeftBehind
  BY DEF Init, NothingLeftBehind
<1>2. TypeOK /\ Safe /\ NothingLeftBehind /\ [Next]_vars => NothingLeftBehind'
  BY NextTidy DEF Safe
<1>3. QED
  BY <1>1, <1>2, SafeAlways, PTL DEF Spec
=============================================================================
