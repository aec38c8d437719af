-------------------------- MODULE SafeFileStorage ---------------------------
(***************************************************************************)
(* SafeFileStorage.java: a value (VPN rules, trusted signatures) that the  *)
(* service process saves and both processes load, through a lock file, a   *)
(* temporary file and a rename.                                            *)
(*                                                                         *)
(* Two locks are one call of channel.lock().  The table of the Java VM     *)
(* holds a call that waits or has the lock, and a second call in the same  *)
(* VM fails (OverlappingFileLockException): its save is dropped, its load  *)
(* returns the default.  The lock of the operating system excludes the     *)
(* other processes; it belongs to the process, so closing any channel on   *)
(* the lock file, the one of the failed call too, gives it up.             *)
(*                                                                         *)
(* A save may fail at each write and a load at its read, a process may die *)
(* between any two steps, and the machine may stop: data that was not synced is then lost, *)
(* and so may be a rename.                                                 *)
(***************************************************************************)
EXTENDS Naturals, Sequences

CONSTANTS
  Processes,
  Threads,
  ProcessOf,    \* the process of each thread
  Savers,       \* threads that save; every thread may load
  MaxCalls,     \* bound on calls
  MaxFaults     \* bound on failed writes and reads, dead processes, power losses

ASSUME ThreadsAssumption ==
  /\ ProcessOf \in [Threads -> Processes]
  /\ Savers \subseteq Threads
  \* Saving is for callbacks of tunnel-core, which runs in the service process.
  /\ \A t, u \in Savers : ProcessOf[t] = ProcessOf[u]
  /\ MaxCalls \in Nat /\ MaxFaults \in Nat

\* A file: the version in each of its two halves, 0 for a half that is not
\* there, and whether the data is on the disk.
File == [half : [1..2 -> 0..MaxCalls], synced : BOOLEAN]

Empty == [half |-> [n \in 1..2 |-> 0], synced |-> FALSE]

\* No file at all, and nothing saved yet.
Absent == [half |-> [n \in 1..2 |-> 0], synced |-> TRUE]

\* What readDataFromStream makes of a file: half a document does not parse, and
\* load answers with the default, which is no version.
Parsed(file) == IF file.half[1] = file.half[2] THEN file.half[1] ELSE 0

Places == {"idle", "lock", "open", "first", "second", "sync", "rename", "cleanup",
           "read", "failed", "release"}

VARIABLES
  pc,        \* each thread's place
  op,        \* "save" or "load"
  version,   \* the version a save writes
  table,     \* threads in the lock table of their Java VM
  osLock,    \* per process: "none", "shared" or "exclusive"
  temp, final,
  onDisk,    \* what a power loss may leave in place of final
  saved,     \* history: the last version renamed to the final name, or what
             \* of it the disk had before a power loss
  since,     \* saved when the load got its lock
  result,    \* what a load read
  calls, faults

files == <<temp, final, onDisk, saved>>
locks == <<table, osLock>>
loads == <<since, result>>
vars == <<pc, op, version, locks, files, loads, calls, faults>>

TypeOK ==
  /\ pc \in [Threads -> Places]
  /\ op \in [Threads -> {"save", "load"}]
  /\ version \in [Threads -> 0..MaxCalls]
  /\ table \subseteq Threads
  /\ osLock \in [Processes -> {"none", "shared", "exclusive"}]
  /\ temp \in File /\ final \in File /\ onDisk \in File
  /\ saved \in 0..MaxCalls
  /\ since \in [Threads -> 0..MaxCalls]
  /\ result \in [Threads -> 0..MaxCalls]
  /\ calls \in 0..MaxCalls
  /\ faults \in 0..MaxFaults

Init ==
  /\ pc = [t \in Threads |-> "idle"]
  /\ op = [t \in Threads |-> "load"]
  /\ version = [t \in Threads |-> 0]
  /\ table = {}
  /\ osLock = [p \in Processes |-> "none"]
  /\ temp = Absent /\ final = Absent /\ onDisk = Absent
  /\ saved = 0
  /\ since = [t \in Threads |-> 0]
  /\ result = [t \in Threads |-> 0]
  /\ calls = 0
  /\ faults = 0

Goto(t, place) == pc' = [pc EXCEPT ![t] = place]

At(t, what, place) == op[t] = what /\ pc[t] = place

InMyVM(t) == {u \in table : ProcessOf[u] = ProcessOf[t]}

\* lock() throws: another call of this VM waits for the lock or has it.
Overlap(t) == InMyVM(t) # {}

Others(t) == Processes \ {ProcessOf[t]}

(***************************************************************************)
(* save and load.                                                          *)
(***************************************************************************)
\* A call opens the lock file and enters the table; a call that overlaps
\* returns, and closing its channel drops the lock of the whole process.
Call(t, what) ==
  /\ pc[t] = "idle"
  /\ calls < MaxCalls
  /\ calls' = calls + 1
  /\ IF Overlap(t)
     THEN /\ osLock' = [osLock EXCEPT ![ProcessOf[t]] = "none"]
          /\ UNCHANGED <<pc, op, version, table>>
     ELSE /\ Goto(t, "lock")
          /\ op' = [op EXCEPT ![t] = what]
          /\ version' = [version EXCEPT ![t] = IF what = "save" THEN calls' ELSE 0]
          /\ table' = table \cup {t}
          /\ UNCHANGED osLock
  /\ UNCHANGED <<files, loads, faults>>

LockForSave(t) ==
  /\ At(t, "save", "lock")
  /\ \A p \in Others(t) : osLock[p] = "none"
  /\ osLock' = [osLock EXCEPT ![ProcessOf[t]] = "exclusive"]
  /\ Goto(t, "open")
  /\ UNCHANGED <<op, version, table, files, loads, calls, faults>>

\* new FileOutputStream(tempFile) truncates what a dead process left.
OpenTemp(t) ==
  /\ pc[t] = "open"
  /\ temp' = Empty
  /\ Goto(t, "first")
  /\ UNCHANGED <<op, version, locks, final, onDisk, saved, loads, calls, faults>>

\* writeDataToStream and flush, in two writes.
Write(t) ==
  /\ pc[t] \in {"first", "second"}
  /\ LET n == IF pc[t] = "first" THEN 1 ELSE 2
     IN  temp' = [temp EXCEPT !.half[n] = version[t]]
  /\ Goto(t, IF pc[t] = "first" THEN "second" ELSE "sync")
  /\ UNCHANGED <<op, version, locks, final, onDisk, saved, loads, calls, faults>>

SyncMutant(t) ==
  /\ pc[t] = "sync"
  /\ Goto(t, "rename")
  /\ UNCHANGED <<op, version, locks, files, loads, calls, faults>>

Sync(t) ==
  /\ pc[t] = "sync"
  /\ temp' = [temp EXCEPT !.synced = TRUE]
  /\ Goto(t, "rename")
  /\ UNCHANGED <<op, version, locks, final, onDisk, saved, loads, calls, faults>>

RenameTo(t) ==
  /\ pc[t] = "rename"
  /\ final' = temp
  /\ saved' = version[t]
  /\ temp' = Absent
  /\ Goto(t, "cleanup")
  /\ UNCHANGED <<op, version, locks, onDisk, loads, calls, faults>>

\* The inner finally block.
DeleteTemp(t) ==
  /\ pc[t] = "cleanup"
  /\ temp' = Absent
  /\ Goto(t, "release")
  /\ UNCHANGED <<op, version, locks, final, onDisk, saved, loads, calls, faults>>

LockForLoad(t) ==
  /\ At(t, "load", "lock")
  /\ \A p \in Others(t) : osLock[p] # "exclusive"
  /\ osLock' = [osLock EXCEPT ![ProcessOf[t]] = "shared"]
  /\ since' = [since EXCEPT ![t] = saved]
  /\ Goto(t, "read")
  /\ UNCHANGED <<op, version, table, files, result, calls, faults>>

\* The reader keeps the file it opened, whatever is renamed over its name.
Read(t) ==
  /\ pc[t] = "read"
  /\ result' = [result EXCEPT ![t] = Parsed(final)]
  /\ Goto(t, "release")
  /\ UNCHANGED <<op, version, locks, files, since, calls, faults>>

ReleaseMutant(t) ==
  /\ pc[t] \in {"release", "failed"}
  /\ table' = table \ {t}
  /\ Goto(t, "idle")
  /\ UNCHANGED <<op, version, osLock, files, loads, calls, faults>>

\* The outer finally block: release, and close the channel.
Release(t) ==
  /\ pc[t] \in {"release", "failed"}
  /\ table' = table \ {t}
  /\ osLock' = [osLock EXCEPT ![ProcessOf[t]] = "none"]
  /\ Goto(t, "idle")
  /\ UNCHANGED <<op, version, files, loads, calls, faults>>

(***************************************************************************)
(* What goes wrong.                                                        *)
(***************************************************************************)
Fault == faults < MaxFaults /\ faults' = faults + 1

\* An IOException, or a rename that returns false.
SaveFails(t) ==
  /\ Fault
  /\ pc[t] \in {"open", "first", "second", "sync", "rename"}
  /\ Goto(t, "cleanup")
  /\ UNCHANGED <<op, version, locks, files, loads, calls>>

\* An IOException of opening or reading the file, under the lock: load answers
\* with the default.
LoadFails(t) ==
  /\ Fault
  /\ pc[t] = "read"
  /\ result' = [result EXCEPT ![t] = 0]
  /\ Goto(t, "failed")
  /\ UNCHANGED <<op, version, locks, files, since, calls>>

Kill(P) ==
  /\ pc' = [t \in Threads |-> IF ProcessOf[t] \in P THEN "idle" ELSE pc[t]]
  /\ table' = {t \in table : ProcessOf[t] \notin P}
  /\ osLock' = [p \in Processes |-> IF p \in P THEN "none" ELSE osLock[p]]
  /\ UNCHANGED <<op, version, calls>>

ProcessDies ==
  /\ Fault
  /\ \E p \in Processes : Kill({p})
  /\ UNCHANGED <<files, loads>>

\* The name leads to the last file renamed to it or, when the rename was not
\* on the disk yet, to the one before; data that was not synced is gone.
PowerLoss ==
  /\ Fault
  /\ Kill(Processes)
  /\ \E f \in {final, onDisk} : final' = IF f.synced THEN f ELSE Empty
  /\ onDisk' = final'
  /\ saved' = Parsed(onDisk)
  /\ temp' \in {Absent, Empty}
  /\ UNCHANGED loads

\* The directory reaches the disk at some time.
Flush ==
  /\ onDisk # final
  /\ onDisk' = final
  /\ UNCHANGED <<pc, op, version, locks, temp, final, saved, loads, calls, faults>>

Step(t) ==
  \/ LockForSave(t) \/ OpenTemp(t) \/ Write(t) \/ Sync(t) \/ RenameTo(t)
  \/ DeleteTemp(t) \/ LockForLoad(t) \/ Read(t) \/ Release(t)

Next ==
  \/ \E t \in Threads : Call(t, "load") \/ Step(t) \/ SaveFails(t) \/ LoadFails(t)
  \/ \E t \in Savers : Call(t, "save")
  \/ ProcessDies \/ PowerLoss \/ Flush

\* A thread inside a call goes on, and the operating system grants a lock that
\* stays free.
Fairness == \A t \in Threads : WF_vars(Step(t))

Spec == Init /\ [][Next]_vars /\ Fairness

(***************************************************************************)
(* Properties.                                                             *)
(***************************************************************************)
\* A load that got the lock and could read does not answer with the default or
\* with an older value once a value was saved: not when a save is under way
\* without the lock that an overlapping call of its process gave up, nor when
\* the last save failed, its process died or the power went.  A load that throws
\* while it reads answers with the default, as one that overlaps does.
LoadSeesLastSave ==
  \A t \in Threads : At(t, "load", "release") => result[t] >= since[t]

\* Every call returns: no process waits for ever for the lock of the other.
CallsReturn == \A t \in Threads : pc[t] # "idle" ~> pc[t] = "idle"
=============================================================================
