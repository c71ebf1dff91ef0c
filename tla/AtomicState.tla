---------------------------- MODULE AtomicState ----------------------------
(***************************************************************************)
(* gui/resilience.py, class AtomicState: the states of the virtual         *)
(* machines, kept in memory, in a state file and in a write-ahead log.     *)
(*                                                                         *)
(* Threads call save() under a lock.  A save appends a line to the log,    *)
(* updates the memory, and commits: it writes every state to a temporary   *)
(* file, renames it over the state file and removes the log.  The commit   *)
(* swallows its errors.  recover(), run by the health checker and by the   *)
(* crash handler, does NOT take the lock.  A crash of the process can      *)
(* fall between any two of these steps, and inside the append.             *)
(*                                                                         *)
(* A VMState is abstracted to a version number: the n-th save of a name    *)
(* writes version n, and 0 stands for a name with no state.                *)
(***************************************************************************)
EXTENDS Naturals, Sequences

CONSTANTS
  Names,        \* names of virtual machines
  Savers,       \* threads that call save()
  Recoverers,   \* threads that call recover()
  IOErrors,     \* may an operation on the disk raise?
  MaxVer,       \* bound: saves begun for one name
  MaxCrash,     \* bound: crashes of the process
  NoThread,     \* the lock is free
  NoFile        \* there is no temporary file

ASSUME MaxVerAssumption   == MaxVer \in Nat
ASSUME MaxCrashAssumption == MaxCrash \in Nat
ASSUME IOErrorsAssumption == IOErrors \in BOOLEAN
ASSUME ThreadsAssumption  == /\ NoThread \notin Savers \cup Recoverers
                             /\ Savers \cap Recoverers = {}
ASSUME NoFileAssumption   == NoFile \notin [Names -> 0..MaxVer]

VARIABLES
  file,      \* vm_state.json: the version of every name
  wal,       \* vm_state.wal: its lines (<<>>: no file)
  tmp,       \* vm_state.tmp: a whole map, or NoFile
  mem,       \* self._states
  up,        \* is the process running
  lock,      \* self._lock: the thread that holds it
  pc,        \* where each thread is
  job,       \* job[t]: the name and the version the thread saves
  newest,    \* newest[n]: the last save begun for n
  acked,     \* acked[n]: the last save of n that returned
  here,      \* here[n]: the last save of n that returned in this process
  recovered, \* has recover() run in this process
  crashes    \* number of crashes so far

disk    == <<file, wal, tmp>>
history == <<newest, acked, here, recovered, crashes>>
vars    == <<disk, mem, up, lock, pc, job, history>>

Threads  == Savers \cup Recoverers
Version  == 0..MaxVer
NoStates == [n \in Names |-> 0]

\* A line of the log: a VMState, the beginning of one (the append was cut
\* short), or such a beginning with a later line glued to it.
Entry == [name : Names, ver : 1..MaxVer]
Bad   == {[name |-> "torn", ver |-> 0], [name |-> "glued", ver |-> 0]}
Torn  == [name |-> "torn",  ver |-> 0]
Glued == [name |-> "glued", ver |-> 0]

NoJob == [name |-> "none",  ver |-> 0]

IsGood(line) == line.ver # 0

Commit == {"write", "rename", "clear"}
Locked == {"append", "memory", "return"} \cup Commit
Where  == {"idle", "readfile", "replay", "unlink"} \cup Locked

-----------------------------------------------------------------------------
\* The file as the next append leaves it: a line that was cut short has no
\* end, and what follows is glued to it.
AppendLine(w, line) ==
  IF w # <<>> /\ w[Len(w)] = Torn
    THEN [w EXCEPT ![Len(w)] = IF line = Torn THEN Torn ELSE Glued]
    ELSE Append(w, line)

\* The lines _load reads before the first that json.loads refuses.
Readable(w) ==
  {i \in DOMAIN w : \A j \in DOMAIN w : j <= i => IsGood(w[j])}

\* Fault: the first line of a name wins.
FirstLineDecides(w, i, n) ==
  /\ i \in Readable(w) /\ w[i].name = n
  /\ \A j \in Readable(w) : w[j].name = n => j >= i

\* i is the line of the log that decides the state of n.
Decides(w, i, n) ==
  /\ i \in Readable(w) /\ w[i].name = n
  /\ \A j \in Readable(w) : w[j].name = n => j <= i

Replayed(base, w) ==
  [n \in Names |-> IF \E i \in DOMAIN w : Decides(w, i, n)
                     THEN w[CHOOSE i \in DOMAIN w : Decides(w, i, n)].ver
                     ELSE base[n]]

\* The log is removed after a replay that met no unreadable line.
WholeLogRead(w) == Readable(w) = DOMAIN w

Over(base, top) == [n \in Names |-> IF top[n] # 0 THEN top[n] ELSE base[n]]

\* compute_checksum hashes every field, self.checksum among them; save()
\* calls it on a VMState whose checksum is still empty.
NoSum          == <<>>
Checksum(v, s) == <<v, s>>
StoredSum(v)   == Checksum(v, NoSum)

\* verify_integrity()
Corrupted(m) ==
  {n \in Names : m[n] # 0 /\ StoredSum(m[n]) # Checksum(m[n], StoredSum(m[n]))}

Goto(t, l) == pc' = [pc EXCEPT ![t] = l]

-----------------------------------------------------------------------------
\* A fresh installation: no file, no state.
Init ==
  /\ file = NoStates /\ wal = <<>> /\ tmp = NoFile
  /\ mem = NoStates /\ up = TRUE /\ lock = NoThread
  /\ pc = [t \in Threads |-> "idle"]
  /\ job = [t \in Savers |-> NoJob]
  /\ newest = NoStates /\ acked = NoStates
  /\ here = NoStates /\ recovered = FALSE
  /\ crashes = 0

\* save(): `with self._lock`, stamp and checksum the state.
Save(t, n) ==
  /\ up /\ pc[t] = "idle" /\ lock = NoThread
  /\ newest[n] < MaxVer
  /\ lock' = t
  /\ newest' = [newest EXCEPT ![n] = @ + 1]
  /\ job' = [job EXCEPT ![t] = [name |-> n, ver |-> newest[n] + 1]]
  /\ Goto(t, "append")
  /\ UNCHANGED <<disk, mem, up, acked, here, recovered, crashes>>

\* The line is written, flushed and fsynced.
AppendWal(t) ==
  /\ up /\ pc[t] = "append"
  /\ wal' = AppendLine(wal, job[t])
  /\ Goto(t, "memory")
  /\ UNCHANGED <<file, tmp, mem, up, lock, job, history>>

\* Fault: the lock is not released when the append raises.
AppendFailsLocked(t) ==
  /\ up /\ pc[t] = "append" /\ IOErrors
  /\ job' = [job EXCEPT ![t] = NoJob]
  /\ Goto(t, "idle")
  /\ UNCHANGED <<disk, mem, up, lock, history>>

\* The append raises, perhaps half way or in the fsync: save() raises to its
\* caller, and the states in memory stay as they were.
AppendFails(t) ==
  /\ up /\ pc[t] = "append" /\ IOErrors
  /\ wal' \in {wal, AppendLine(wal, Torn), AppendLine(wal, job[t])}
  /\ lock' = NoThread
  /\ job' = [job EXCEPT ![t] = NoJob]
  /\ Goto(t, "idle")
  /\ UNCHANGED <<file, tmp, mem, up, history>>

\* Fault: the state is logged and committed but not kept.
UpdateMemoryForgotten(t) ==
  /\ up /\ pc[t] = "memory"
  /\ Goto(t, "write")
  /\ UNCHANGED <<disk, mem, up, lock, job, history>>

UpdateMemory(t) ==
  /\ up /\ pc[t] = "memory"
  /\ mem' = [mem EXCEPT ![job[t].name] = job[t].ver]
  /\ Goto(t, "write")
  /\ UNCHANGED <<disk, up, lock, job, history>>

-----------------------------------------------------------------------------
(* _commit(), called by save() and by recover() *)

WriteTmp(t) ==
  /\ up /\ pc[t] = "write"
  /\ tmp' = mem
  /\ Goto(t, "rename")
  /\ UNCHANGED <<file, wal, mem, up, lock, job, history>>

\* Fault: the temporary file does not replace the state file.
RenameForgotten(t) ==
  /\ up /\ pc[t] = "rename" /\ tmp # NoFile
  /\ Goto(t, "clear")
  /\ UNCHANGED <<disk, mem, up, lock, job, history>>

Rename(t) ==
  /\ up /\ pc[t] = "rename" /\ tmp # NoFile
  /\ file' = tmp
  /\ tmp' = NoFile
  /\ Goto(t, "clear")
  /\ UNCHANGED <<wal, mem, up, lock, job, history>>

ClearWal(t) ==
  /\ up /\ pc[t] = "clear"
  /\ wal' = <<>>
  /\ Goto(t, "return")
  /\ UNCHANGED <<file, tmp, mem, up, lock, job, history>>

\* o may be changing the map of states now.
ChangesMap(o) == pc[o] \in {"memory", "readfile", "replay"}

\* An operation of the commit raises, another thread has renamed the temporary
\* file, or changes the map while it is copied: logged and swallowed.
CommitFails(t) ==
  /\ up /\ pc[t] \in Commit
  /\ \/ IOErrors
     \/ pc[t] = "rename" /\ tmp = NoFile
     \/ pc[t] = "write" /\ \E o \in Threads \ {t} : ChangesMap(o)
  /\ Goto(t, "return")
  /\ UNCHANGED <<disk, mem, up, lock, job, history>>

\* save() releases the lock and returns.
SaveReturns(t) ==
  /\ up /\ t \in Savers /\ pc[t] = "return"
  /\ lock' = NoThread
  /\ acked' = [acked EXCEPT ![job[t].name] = job[t].ver]
  /\ here'  = [here  EXCEPT ![job[t].name] = job[t].ver]
  /\ job' = [job EXCEPT ![t] = NoJob]
  /\ Goto(t, "idle")
  /\ UNCHANGED <<disk, mem, up, newest, recovered, crashes>>

-----------------------------------------------------------------------------
(* recover() *)

\* verify_integrity(), then the corrupted states are popped.
Recover(t) ==
  /\ up /\ t \in Recoverers /\ pc[t] = "idle"
  /\ Corrupted(mem) # {}
  /\ mem' = [n \in Names |-> IF n \in Corrupted(mem) THEN 0 ELSE mem[n]]
  /\ recovered' = TRUE
  /\ Goto(t, "readfile")
  /\ UNCHANGED <<disk, up, lock, job, newest, acked, here, crashes>>

\* Fault: recover() reloads from the log only.
ReadFileForgotten(t) ==
  /\ up /\ pc[t] = "readfile"
  /\ Goto(t, "replay")
  /\ UNCHANGED <<disk, mem, up, lock, job, history>>

\* _load(), first half: an unreadable state file is a warning.
ReadFile(t) ==
  /\ up /\ pc[t] = "readfile"
  /\ \/ mem' = Over(mem, file)
     \/ IOErrors /\ mem' = mem
  /\ Goto(t, "replay")
  /\ UNCHANGED <<disk, up, lock, job, history>>

\* _load(), second half.
ReplayWal(t) ==
  /\ up /\ pc[t] = "replay"
  /\ \/ /\ mem' = Replayed(mem, wal)
        /\ Goto(t, IF wal # <<>> /\ WholeLogRead(wal) THEN "unlink" ELSE "write")
     \/ IOErrors /\ mem' = mem /\ Goto(t, "write")
  /\ UNCHANGED <<disk, up, lock, job, history>>

\* The log is removed, or removing it raises and is a warning.
UnlinkWal(t) ==
  /\ up /\ pc[t] = "unlink"
  /\ wal' = <<>> \/ (IOErrors /\ wal' = wal)
  /\ Goto(t, "write")
  /\ UNCHANGED <<file, tmp, mem, up, lock, job, history>>

RecoverReturns(t) ==
  /\ up /\ t \in Recoverers /\ pc[t] = "return"
  /\ Goto(t, "idle")
  /\ UNCHANGED <<disk, mem, up, lock, job, history>>

-----------------------------------------------------------------------------
\* The process dies.  An append that was running left nothing, the beginning
\* of its line, or all of it.
Crash ==
  /\ up /\ crashes < MaxCrash
  /\ up' = FALSE
  /\ crashes' = crashes + 1
  /\ mem' = NoStates
  /\ lock' = NoThread
  /\ pc' = [t \in Threads |-> "idle"]
  /\ job' = [t \in Savers |-> NoJob]
  /\ \/ wal' = wal
     \/ \E t \in Savers : /\ pc[t] = "append"
                          /\ \/ wal' = AppendLine(wal, Torn)
                             \/ wal' = AppendLine(wal, job[t])
  /\ UNCHANGED <<file, tmp, newest, acked, here, recovered>>

\* __init__ and _load() of the next process: nothing runs beside them, and
\* dying between the replay and the removal is dying before both.
Restart ==
  /\ ~up
  /\ up' = TRUE
  /\ here' = NoStates /\ recovered' = FALSE
  /\ \E base \in {file} \cup (IF IOErrors THEN {NoStates} ELSE {}) :
       \/ /\ mem' = Replayed(base, wal)
          /\ \/ wal' = IF WholeLogRead(wal) THEN <<>> ELSE wal
             \/ IOErrors /\ wal' = wal
       \/ IOErrors /\ mem' = base /\ wal' = wal
  /\ UNCHANGED <<file, tmp, lock, pc, job, newest, acked, crashes>>

Step(t) ==
  \/ AppendWal(t) \/ AppendFails(t) \/ UpdateMemory(t)
  \/ WriteTmp(t) \/ Rename(t) \/ ClearWal(t) \/ CommitFails(t)
  \/ SaveReturns(t)
  \/ ReadFile(t) \/ ReplayWal(t) \/ UnlinkWal(t) \/ RecoverReturns(t)

Next ==
  \/ \E t \in Savers, n \in Names : Save(t, n)
  \/ \E t \in Recoverers : Recover(t)
  \/ \E t \in Threads : Step(t)
  \/ Crash
  \/ Restart

Spec == Init /\ [][Next]_vars

\* A thread inside save() or recover() runs on: there is nothing in them it
\* can wait for, and the interpreter schedules every thread.
FairSpec == Spec /\ \A t \in Threads : WF_vars(Step(t))

-----------------------------------------------------------------------------
TypeOK ==
  /\ file \in [Names -> Version]
  /\ wal \in Seq(Entry \cup Bad)
  /\ tmp \in [Names -> Version] \cup {NoFile}
  /\ mem \in [Names -> Version]
  /\ up \in BOOLEAN
  /\ lock \in Savers \cup {NoThread}
  /\ pc \in [Threads -> Where]
  /\ job \in [Savers -> Entry \cup {NoJob}]
  /\ newest \in [Names -> Version] /\ acked \in [Names -> Version]
  /\ here \in [Names -> Version] /\ recovered \in BOOLEAN
  /\ crashes \in 0..MaxCrash

\* What a process started now would find for n (_load on this disk).
Recoverable(n) == Replayed(file, wal)[n]

\* A save that returned is found by every later process, however many times
\* the process has died since and wherever it died: no crash point of
\* save(), _commit() or _load() loses it, and no stale line of the log is
\* replayed over it.  (For disks that do not fail and without recover().)
AckedDurable == \A n \in Names : Recoverable(n) >= acked[n]

\* Even when the disk fails, the process that dies next leaves behind every
\* save it acknowledged: a commit that failed is made up for by its line in
\* the log.  The exceptions are a log with two lines glued together, which
\* _load stops at, and a process that ran recover().
FirstCrashSafe ==
  ~recovered /\ (\A i \in DOMAIN wal : wal[i] # Glued)
    => \A n \in Names : Recoverable(n) >= here[n]

\* A save that has begun returns, raises or dies with its process: the lock
\* is never held for ever.
LockReleased == \A t \in Savers : lock = t ~> lock # t

\* docs/ARCHITECTURE.md: recover() reloads from the log.  Whatever runs
\* beside it, once it has returned no acknowledged state is missing.
RecoverKeepsAcked ==
  (up /\ \A t \in Threads : pc[t] = "idle")
    => \A n \in Names : mem[n] >= acked[n]

-----------------------------------------------------------------------------
(* The inductive invariant behind TypeOK and AckedDurable. *)

\* Only a saver is ever inside save(), and it has a state to save.
PlacesOK ==
  /\ \A t \in Savers : /\ pc[t] \in Locked \cup {"idle"}
                       /\ pc[t] # "idle" => job[t] \in Entry
  /\ \A t \in Recoverers : pc[t] \notin {"append", "memory"}

\* A thread inside save() holds the lock, and saves the newest version.
LockInv ==
  /\ \A t \in Savers : pc[t] # "idle" <=> lock = t
  /\ \A t \in Savers : lock = t =>
       /\ up
       /\ job[t].ver = newest[job[t].name]
  /\ \A n \in Names : acked[n] <= newest[n]

\* Nothing on the disk or in memory is older than what was acknowledged.
DiskInv ==
  /\ \A n \in Names : file[n] >= acked[n]
  /\ \A i \in DOMAIN wal : IsGood(wal[i]) => wal[i].ver >= acked[wal[i].name]
  /\ up => \A n \in Names : mem[n] >= acked[n]

\* How far the save in progress has reached.
CommitInv ==
  \A t \in Savers :
    /\ pc[t] \in Commit \cup {"return"} => mem[job[t].name] = job[t].ver
    /\ pc[t] = "rename" => /\ tmp # NoFile
                           /\ \A n \in Names : tmp[n] >= acked[n]
                           /\ tmp[job[t].name] = job[t].ver
    /\ pc[t] \in {"clear", "return"} => file[job[t].name] = job[t].ver
    /\ pc[t] = "return" => wal = <<>>

IInv == TypeOK /\ PlacesOK /\ LockInv /\ DiskInv /\ CommitInv

-----------------------------------------------------------------------------
\* A map that keeps what it acknowledged.
Durable == INSTANCE DurableMap WITH view <- mem
RefinesDurableMap == Durable!Spec
=============================================================================
