----------------------- MODULE SafeFileStorageProofs ------------------------
(***************************************************************************)
(* A load never goes back behind a save it could have seen, for any number *)
(* of processes, threads, calls and faults.                                *)
(***************************************************************************)
EXTENDS SafeFileStorage, TLAPS

Saving(t, places) == op[t] = "save" /\ pc[t] \in places

BeforeRename == {"lock", "open", "first", "second", "sync", "rename"}

\* The table of each Java VM holds its calls under way, one at most.
OnePerVM ==
  /\ \A t \in Threads : t \in table <=> pc[t] # "idle"
  /\ \A t, u \in table : ProcessOf[t] = ProcessOf[u] => t = u

\* A thread is at a place of its operation, and only savers save.
PlacesOfCalls ==
  \A t \in Threads :
    /\ op[t] = "load" => pc[t] \in {"idle", "lock", "read", "failed", "release"}
    /\ op[t] = "save" => pc[t] \notin {"read", "failed"}
    /\ op[t] = "save" /\ pc[t] # "idle" => t \in Savers

Whole(file) == file.half[1] = file.half[2] /\ file.synced

\* The final name and the disk always hold a whole file; the disk is not ahead.
FinalIsWhole ==
  /\ Whole(final) /\ Whole(onDisk)
  /\ onDisk.half[1] <= final.half[1]
  /\ saved <= final.half[1]
  /\ final.half[1] <= calls

\* A save under way writes a version that is newer than the final file.
SavesNewer ==
  \A t \in Threads : Saving(t, BeforeRename) =>
    final.half[1] < version[t] /\ version[t] <= calls

\* What the save that is under way has written is in the temporary file,
\* whatever the lock of the operating system says.
TempIsMine ==
  \A t \in Threads :
    /\ Saving(t, {"second", "sync", "rename"}) => temp.half[1] = version[t]
    /\ Saving(t, {"sync", "rename"}) => temp.half[2] = version[t]
    /\ Saving(t, {"rename"}) => temp.synced

\* A load that will read the final file has not seen more than is in it.
LoadsBehind ==
  \A t \in Threads : At(t, "load", "read") => since[t] <= final.half[1]

IInv ==
  /\ TypeOK
  /\ OnePerVM /\ PlacesOfCalls
  /\ FinalIsWhole /\ SavesNewer /\ TempIsMine
  /\ LoadsBehind /\ LoadSeesLastSave

-----------------------------------------------------------------------------
\* The files the model starts from and falls back to.
LEMMA Blank == /\ Empty \in File /\ Absent \in File
               /\ Absent.half[1] = 0 /\ Absent.half[2] = 0 /\ Absent.synced
  BY ThreadsAssumption DEF Empty, Absent, File

LEMMA InitIInv == Init => IInv
<1> SUFFICES ASSUME Init PROVE IInv
  OBVIOUS
<1>1. TypeOK
  BY Blank, ThreadsAssumption DEF Init, TypeOK, Places
<1>2. OnePerVM /\ PlacesOfCalls
  BY DEF Init, OnePerVM, PlacesOfCalls
<1>3. FinalIsWhole
  BY Blank DEF Init, FinalIsWhole, Whole
<1>4. SavesNewer /\ TempIsMine /\ LoadsBehind /\ LoadSeesLastSave
  BY DEF Init, SavesNewer, TempIsMine, LoadsBehind, LoadSeesLastSave, Saving, At
<1> QED BY <1>1, <1>2, <1>3, <1>4 DEF IInv


-----------------------------------------------------------------------------
\* A call enters the table of a VM that has none, and a save takes a version
\* that nothing has yet; a call that overlaps only gives up the lock.
LEMMA CallIInv ==
  ASSUME IInv, NEW t \in Threads, NEW what \in {"save", "load"},
         what = "save" => t \in Savers, Call(t, what)
  PROVE  IInv'
<1> USE ThreadsAssumption DEF IInv, Call, Goto, files, loads, TypeOK
<1>1. TypeOK'
  BY DEF Places
<1>2. OnePerVM'
  BY DEF OnePerVM, Overlap, InMyVM
<1>3. PlacesOfCalls' /\ FinalIsWhole'
  BY DEF PlacesOfCalls, FinalIsWhole, Whole, File
<1>4. SavesNewer'
  BY DEF SavesNewer, FinalIsWhole, Saving, BeforeRename, File
<1>5. TempIsMine' /\ LoadsBehind' /\ LoadSeesLastSave'
  BY DEF TempIsMine, LoadsBehind, LoadSeesLastSave, Saving, At
<1> QED BY <1>1, <1>2, <1>3, <1>4, <1>5

\* The steps of a save up to the rename change the temporary file only, and no
\* other save is under way to share it: all savers are in one VM.
LEMMA SaveIInv ==
  ASSUME IInv, NEW t \in Threads,
         LockForSave(t) \/ OpenTemp(t) \/ Write(t) \/ Sync(t) \/ DeleteTemp(t) \/ SaveFails(t)
  PROVE  IInv'
<1> USE ThreadsAssumption
    DEF IInv, LockForSave, OpenTemp, Write, Sync, DeleteTemp, SaveFails, Fault, Goto, At,
        files, loads, locks, TypeOK
<1>1. TypeOK'
  <2>1. CASE Write(t)
    <3>1. temp' \in File
      BY <2>1 DEF File
    <3> QED BY <2>1, <3>1 DEF Places
  <2>2. CASE Sync(t)
    <3>1. temp' \in File
      BY <2>2 DEF File
    <3> QED BY <2>2, <3>1 DEF Places
  <2>3. CASE OpenTemp(t) \/ DeleteTemp(t)
    BY <2>3, Blank DEF Places
  <2>4. CASE LockForSave(t) \/ SaveFails(t)
    BY <2>4 DEF Places
  <2> QED BY <2>1, <2>2, <2>3, <2>4
<1>2. OnePerVM' /\ PlacesOfCalls' /\ FinalIsWhole'
  BY DEF OnePerVM, PlacesOfCalls, FinalIsWhole, Whole
<1>3. SavesNewer'
  BY DEF SavesNewer, Saving, BeforeRename, PlacesOfCalls
<1>4. TempIsMine'
  BY DEF TempIsMine, Saving, File, PlacesOfCalls, OnePerVM
<1>5. LoadsBehind' /\ LoadSeesLastSave'
  BY DEF LoadsBehind, LoadSeesLastSave, PlacesOfCalls
<1> QED BY <1>1, <1>2, <1>3, <1>4, <1>5

\* The rename puts a whole, synced file with a newer version in place; a load
\* that already holds its lock only sees more.
LEMMA RenameToIInv ==
  ASSUME IInv, NEW t \in Threads, RenameTo(t)
  PROVE  IInv'
<1> USE ThreadsAssumption DEF IInv, RenameTo, Goto, At, loads, locks, TypeOK
<1>1. At(t, "save", "rename") /\ t \in Savers
  BY DEF PlacesOfCalls
<1>2. TypeOK'
  BY Blank DEF Places, File
<1>3. OnePerVM' /\ PlacesOfCalls'
  BY DEF OnePerVM, PlacesOfCalls
<1>4. final'.half[1] = version[t] /\ final.half[1] < final'.half[1]
  BY <1>1 DEF TempIsMine, SavesNewer, Saving, BeforeRename
<1>5. FinalIsWhole'
  BY <1>1, <1>4 DEF FinalIsWhole, Whole, TempIsMine, SavesNewer, Saving, BeforeRename, File
<1>6. SavesNewer' /\ TempIsMine'
  BY <1>1 DEF SavesNewer, TempIsMine, Saving, BeforeRename, PlacesOfCalls, OnePerVM
<1>7. LoadsBehind'
  BY <1>4 DEF LoadsBehind, File
<1>8. LoadSeesLastSave'
  BY <1>1 DEF LoadSeesLastSave
<1> QED BY <1>2, <1>3, <1>5, <1>6, <1>7, <1>8

\* A load notes what was saved, which is not ahead of the final file, and reads
\* that file or a newer one.
LEMMA LoadIInv ==
  ASSUME IInv, NEW t \in Threads, LockForLoad(t) \/ Read(t) \/ LoadFails(t) \/ Release(t)
  PROVE  IInv'
<1> USE ThreadsAssumption
    DEF IInv, LockForLoad, Read, LoadFails, Fault, Release, Goto, At, files, loads, locks, TypeOK
<1>1. TypeOK'
  BY DEF Places, File, Parsed
<1>2. OnePerVM' /\ PlacesOfCalls' /\ FinalIsWhole'
  BY DEF OnePerVM, PlacesOfCalls, FinalIsWhole, Whole
<1>3. SavesNewer' /\ TempIsMine'
  BY DEF SavesNewer, TempIsMine, Saving, BeforeRename
<1>4. LoadsBehind'
  BY DEF LoadsBehind, FinalIsWhole, PlacesOfCalls
<1>5. LoadSeesLastSave'
  BY DEF LoadSeesLastSave, LoadsBehind, FinalIsWhole, Whole, Parsed, PlacesOfCalls
<1> QED BY <1>1, <1>2, <1>3, <1>4, <1>5

\* A dead process leaves its temporary file, which nobody counts on.
LEMMA ProcessDiesIInv == IInv /\ ProcessDies => IInv'
<1> SUFFICES ASSUME IInv, Fault, NEW p \in Processes, Kill({p}), UNCHANGED <<files, loads>>
             PROVE  IInv'
  BY DEF ProcessDies
<1> USE ThreadsAssumption DEF IInv, Fault, Kill, files, loads, TypeOK
<1>1. TypeOK'
  BY DEF Places
<1>2. OnePerVM' /\ PlacesOfCalls' /\ FinalIsWhole'
  BY DEF OnePerVM, PlacesOfCalls, FinalIsWhole, Whole
<1>3. SavesNewer' /\ TempIsMine' /\ LoadsBehind' /\ LoadSeesLastSave'
  BY DEF SavesNewer, TempIsMine, LoadsBehind, LoadSeesLastSave, Saving, BeforeRename, At
<1> QED BY <1>1, <1>2, <1>3

\* A power loss leaves one of two whole files, since a file is synced before it
\* is renamed.
LEMMA PowerLossIInv == IInv /\ PowerLoss => IInv'
<1> SUFFICES ASSUME IInv, PowerLoss PROVE IInv'
  OBVIOUS
<1> USE ThreadsAssumption DEF IInv, PowerLoss, Fault, Kill, loads, TypeOK
<1>1. final' \in {final, onDisk}
  BY DEF FinalIsWhole, Whole
<1>2. TypeOK'
  BY <1>1, Blank DEF Places, File, Parsed
<1>3. \A t \in Threads : pc'[t] = "idle"
  OBVIOUS
<1>4. OnePerVM' /\ PlacesOfCalls'
  BY DEF OnePerVM, PlacesOfCalls
<1>5. FinalIsWhole'
  BY <1>1 DEF FinalIsWhole, Whole, Parsed, File
<1>6. SavesNewer' /\ TempIsMine' /\ LoadsBehind' /\ LoadSeesLastSave'
  BY <1>3 DEF SavesNewer, TempIsMine, LoadsBehind, LoadSeesLastSave, Saving, BeforeRename, At
<1> QED BY <1>2, <1>4, <1>5, <1>6

\* The disk catches up with the final file.
LEMMA FlushIInv == IInv /\ Flush => IInv'
<1> SUFFICES ASSUME IInv, Flush PROVE IInv'
  OBVIOUS
<1> USE DEF IInv, Flush, loads, locks, TypeOK
<1>1. TypeOK' /\ OnePerVM' /\ PlacesOfCalls'
  BY DEF OnePerVM, PlacesOfCalls
<1>2. FinalIsWhole'
  BY DEF FinalIsWhole, Whole, File
<1>3. SavesNewer' /\ TempIsMine' /\ LoadsBehind' /\ LoadSeesLastSave'
  BY DEF SavesNewer, TempIsMine, LoadsBehind, LoadSeesLastSave, Saving, At
<1> QED BY <1>1, <1>2, <1>3

LEMMA NextIInv == IInv /\ [Next]_vars => IInv'
<1> SUFFICES ASSUME IInv, [Next]_vars PROVE IInv'
  OBVIOUS
<1>1. ASSUME NEW t \in Threads, Call(t, "load") \/ Step(t) \/ SaveFails(t) \/ LoadFails(t)
      PROVE  IInv'
  BY <1>1, CallIInv, SaveIInv, RenameToIInv, LoadIInv DEF Step
<1>2. ASSUME NEW t \in Savers, Call(t, "save") PROVE IInv'
  BY <1>2, CallIInv, ThreadsAssumption
<1>3. CASE ProcessDies \/ PowerLoss \/ Flush
  BY <1>3, ProcessDiesIInv, PowerLossIInv, FlushIInv
<1>4. CASE UNCHANGED vars
  BY <1>4 DEF vars, files, locks, loads, IInv, TypeOK, OnePerVM, PlacesOfCalls, FinalIsWhole,
     Whole, SavesNewer, TempIsMine, LoadsBehind, LoadSeesLastSave, Saving, At
<1> QED BY <1>1, <1>2, <1>3, <1>4 DEF Next

\* The inductive invariant: the final file and the disk hold whole files in
\* order, and only the newest save is writing.
THEOREM Invariance == Spec => []IInv
<1> QED BY InitIInv, NextIInv, PTL DEF Spec

\* Every variable of SafeFileStorage.java's model keeps its type.
THEOREM TypeCorrect == Spec => []TypeOK
<1>1. IInv => TypeOK
  BY DEF IInv
<1> QED BY <1>1, Invariance, PTL

\* load() of SafeFileStorage.java, unless its read throws, answers with the
\* value saved when it got its lock or a later one: for any number of threads
\* and processes, calls that overlap, writes that fail, processes that die and
\* power losses, provided that one process does all the saving.
THEOREM LoadSafety == Spec => []LoadSeesLastSave
<1>1. IInv => LoadSeesLastSave
  BY DEF IInv
<1> QED BY <1>1, Invariance, PTL
=============================================================================
