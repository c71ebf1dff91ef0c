------------------------- MODULE AtomicStateProofs -------------------------
(***************************************************************************)
(* What holds of gui/resilience.py's AtomicState for any number of names,  *)
(* threads, saves and crashes.                                             *)
(***************************************************************************)
EXTENDS AtomicState, TLAPS

\* An append leaves a log of lines of the same kind, and every line json can
\* read is the new one or was there before.
LEMMA AppendLineLemma ==
  ASSUME NEW w \in Seq(Entry \cup Bad), NEW line \in Entry \cup {Torn}
  PROVE  /\ AppendLine(w, line) \in Seq(Entry \cup Bad)
         /\ \A i \in DOMAIN AppendLine(w, line) :
              IsGood(AppendLine(w, line)[i]) =>
                \/ AppendLine(w, line)[i] = line
                \/ i \in DOMAIN w /\ AppendLine(w, line)[i] = w[i]
<1>1. CASE w # <<>> /\ w[Len(w)] = Torn
  BY <1>1 DEF AppendLine, Bad, Torn, Glued, IsGood
<1>2. CASE ~(w # <<>> /\ w[Len(w)] = Torn)
  BY <1>2 DEF AppendLine, Bad, Torn
<1>3. QED
  BY <1>1, <1>2

\* A replay yields, for each name, a version of the log that could be read
\* or the one it started from.
LEMMA ReplayedLemma ==
  ASSUME NEW base \in [Names -> Version], NEW w \in Seq(Entry \cup Bad),
         NEW n \in Names
  PROVE  /\ \/ Replayed(base, w)[n] = base[n]
            \/ \E i \in DOMAIN w : /\ IsGood(w[i]) /\ w[i].name = n
                                   /\ Replayed(base, w)[n] = w[i].ver
         /\ Replayed(base, w) \in [Names -> Version]
<1>1. ASSUME NEW m \in Names, NEW i \in DOMAIN w, Decides(w, i, m)
      PROVE  IsGood(w[i]) /\ w[i].name = m /\ w[i].ver \in Version
  <2>1. IsGood(w[i]) /\ w[i].name = m
    BY <1>1 DEF Decides, Readable
  <2>2. w[i] \in Entry
    BY <2>1 DEF IsGood, Bad
  <2>3. QED
    BY <2>1, <2>2, MaxVerAssumption DEF Entry, Version
<1>2. ASSUME NEW m \in Names
      PROVE  \/ Replayed(base, w)[m] = base[m]
             \/ \E i \in DOMAIN w : /\ IsGood(w[i]) /\ w[i].name = m
                                    /\ Replayed(base, w)[m] = w[i].ver
                                    /\ w[i].ver \in Version
  <2>1. CASE \E i \in DOMAIN w : Decides(w, i, m)
    <3>1. PICK i \in DOMAIN w : i = CHOOSE j \in DOMAIN w : Decides(w, j, m)
      BY <2>1
    <3>2. Decides(w, i, m)
      BY <2>1, <3>1
    <3>3. Replayed(base, w)[m] = w[i].ver
      BY <2>1, <3>1 DEF Replayed
    <3>4. QED
      BY <1>1, <3>2, <3>3
  <2>2. CASE ~\E i \in DOMAIN w : Decides(w, i, m)
    BY <2>2 DEF Replayed
  <2>3. QED
    BY <2>1, <2>2
<1>3. Replayed(base, w) \in [Names -> Version]
  BY <1>2 DEF Replayed
<1>4. QED
  BY <1>2, <1>3

LEMMA EmptyLog == <<>> \in Seq(Entry \cup Bad)
OBVIOUS

-----------------------------------------------------------------------------
Typed == TypeOK /\ PlacesOK

\* Every variable keeps its type, whatever raises, crashes or interleaves,
\* and only a saver is ever inside save().
LEMMA TypedStep ==
  ASSUME Typed, [Next]_vars
  PROVE  Typed'
<1> USE DEF Typed, TypeOK, PlacesOK, Goto
<1>1. ASSUME NEW t \in Savers, NEW n \in Names, Save(t, n)
      PROVE  Typed'
  <2>1. newest[n] \in Version /\ newest[n] + 1 \in 1..MaxVer
    BY <1>1, MaxVerAssumption DEF Save, Version
  <2>2. newest' \in [Names -> Version]
    BY <1>1, <2>1, MaxVerAssumption DEF Save, Version
  <2>3. job' = [job EXCEPT ![t] = [name |-> n, ver |-> newest[n] + 1]]
    BY <1>1 DEF Save
  <2>4. job'[t] \in Entry
    BY <2>1, <2>3 DEF Entry
  <2>5. job' \in [Savers -> Entry \cup {NoJob}]
    BY <2>1, <2>3 DEF Entry
  <2>6. pc' = [pc EXCEPT ![t] = "append"] /\ lock' = t
    BY <1>1 DEF Save
  <2>7. UNCHANGED <<file, wal, tmp, mem, up, acked, here, recovered, crashes>>
    BY <1>1 DEF Save, disk
  <2>8. pc' \in [Threads -> Where]
    BY <2>6 DEF Where, Locked
  <2>9. PlacesOK'
    BY <2>3, <2>4, <2>6, ThreadsAssumption DEF Locked, Threads
  <2>10. QED
    BY <2>2, <2>5, <2>6, <2>7, <2>8, <2>9
<1>2. ASSUME NEW t \in Recoverers, Recover(t)
      PROVE  Typed'
  BY <1>2, MaxVerAssumption, ThreadsAssumption
  DEF Recover, disk, history, Version, Where, Locked, Threads
<1>3. ASSUME NEW t \in Threads, Step(t)
      PROVE  Typed'
  <2> USE DEF Threads, Where, Locked, Commit
  <2>1. CASE AppendWal(t)
    <3>1. t \in Savers /\ job[t] \in Entry
      BY <2>1 DEF AppendWal
    <3>2. wal' \in Seq(Entry \cup Bad)
      BY <2>1, <3>1, AppendLineLemma DEF AppendWal
    <3>3. QED
      BY <2>1, <3>1, <3>2, ThreadsAssumption DEF AppendWal, history
  <2>2. CASE AppendFails(t)
    <3>1. t \in Savers /\ job[t] \in Entry
      BY <2>2 DEF AppendFails
    <3>2. wal' \in Seq(Entry \cup Bad)
      BY <2>2, <3>1, AppendLineLemma DEF AppendFails
    <3>3. QED
      BY <2>2, <3>1, <3>2, ThreadsAssumption DEF AppendFails, history
  <2>3. CASE UpdateMemory(t)
    <3>1. t \in Savers /\ job[t] \in Entry
      BY <2>3 DEF UpdateMemory
    <3>2. mem' \in [Names -> Version]
      BY <2>3, <3>1, MaxVerAssumption DEF UpdateMemory, Entry, Version
    <3>3. QED
      BY <2>3, <3>1, <3>2, ThreadsAssumption DEF UpdateMemory, disk, history
  <2>4. CASE WriteTmp(t)
    BY <2>4, ThreadsAssumption DEF WriteTmp, history
  <2>5. CASE Rename(t)
    BY <2>5, ThreadsAssumption DEF Rename, history
  <2>6. CASE ClearWal(t)
    BY <2>6, ThreadsAssumption DEF ClearWal, history
  <2>7. CASE CommitFails(t)
    BY <2>7, ThreadsAssumption DEF CommitFails, disk, history
  <2>8. CASE SaveReturns(t)
    <3>1. t \in Savers /\ job[t] \in Entry
      BY <2>8 DEF SaveReturns
    <3>2. /\ acked' \in [Names -> Version]
          /\ here' \in [Names -> Version]
      BY <2>8, <3>1, MaxVerAssumption DEF SaveReturns, Entry, Version
    <3>3. QED
      BY <2>8, <3>1, <3>2, ThreadsAssumption DEF SaveReturns, disk
  <2>9. CASE ReadFile(t)
    <3>1. t \notin Savers
      BY <2>9 DEF ReadFile
    <3>2. mem' \in [Names -> Version]
      BY <2>9 DEF ReadFile, Over
    <3>3. QED
      BY <2>9, <3>1, <3>2 DEF ReadFile, disk, history
  <2>10. CASE ReplayWal(t)
    <3>1. t \notin Savers
      BY <2>10 DEF ReplayWal
    <3>2. \A n \in Names : Replayed(mem, wal) \in [Names -> Version]
      BY ReplayedLemma
    <3>3. Names = {} => Replayed(mem, wal) = mem
      BY DEF Replayed
    <3>4. mem' \in [Names -> Version]
      BY <2>10, <3>2, <3>3 DEF ReplayWal
    <3>5. QED
      BY <2>10, <3>1, <3>4 DEF ReplayWal, disk, history
  <2>11. CASE UnlinkWal(t)
    <3>1. wal' = wal \/ wal' = <<>>
      BY <2>11 DEF UnlinkWal
    <3>2. wal' \in Seq(Entry \cup Bad)
      BY <3>1, EmptyLog, Zenon
    <3>3. QED
      BY <2>11, <3>2, ThreadsAssumption DEF UnlinkWal, history
  <2>12. CASE RecoverReturns(t)
    BY <2>12, ThreadsAssumption DEF RecoverReturns, disk, history
  <2>13. QED
    BY <1>3, <2>1, <2>2, <2>3, <2>4, <2>5, <2>6, <2>7, <2>8, <2>9, <2>10,
       <2>11, <2>12 DEF Step
<1>4. CASE Crash
  <2>1. wal' \in Seq(Entry \cup Bad)
    <3>1. \A t \in Savers : pc[t] = "append" => job[t] \in Entry
      OBVIOUS
    <3>2. QED
      BY <1>4, <3>1, AppendLineLemma DEF Crash
  <2>2. mem' \in [Names -> Version]
    BY <1>4, MaxVerAssumption DEF Crash, Version, NoStates
  <2>3. /\ pc' \in [Threads -> Where] /\ \A t \in Threads : pc'[t] = "idle"
        /\ job' \in [Savers -> Entry \cup {NoJob}]
    BY <1>4 DEF Crash, Where
  <2>4. /\ crashes' \in 0..MaxCrash
        /\ lock' \in Savers \cup {NoThread}
        /\ up' \in BOOLEAN
    <3>1. crashes \in 0..MaxCrash /\ crashes < MaxCrash /\ crashes' = crashes + 1
      BY <1>4 DEF Crash
    <3>2. crashes' \in 0..MaxCrash
      BY <3>1, MaxCrashAssumption
    <3>3. lock' = NoThread /\ up' = FALSE
      BY <1>4 DEF Crash
    <3>4. QED
      BY <3>2, <3>3
  <2>5. UNCHANGED <<file, tmp, newest, acked, here, recovered>>
    BY <1>4 DEF Crash
  <2>6. QED
    BY <2>1, <2>2, <2>3, <2>4, <2>5 DEF Threads
<1>5. CASE Restart
  <2>1. NoStates \in [Names -> Version]
    BY MaxVerAssumption DEF NoStates, Version
  <2>2. \A base \in [Names -> Version], n \in Names :
          Replayed(base, wal) \in [Names -> Version]
    BY ReplayedLemma
  <2>3. \A base \in [Names -> Version] :
          Replayed(base, wal) \in [Names -> Version]
    BY <2>2 DEF Replayed
  <2>4. mem' \in [Names -> Version]
    BY <1>5, <2>1, <2>3 DEF Restart
  <2>5. wal' = wal \/ wal' = <<>>
    BY <1>5 DEF Restart
  <2>6. wal' \in Seq(Entry \cup Bad)
    BY <2>5, EmptyLog, Zenon
  <2>7. /\ UNCHANGED <<file, tmp, lock, pc, job, newest, acked, crashes>>
        /\ up' = TRUE /\ here' = NoStates /\ recovered' = FALSE
    BY <1>5 DEF Restart
  <2>8. QED
    BY <2>1, <2>4, <2>6, <2>7
<1>6. CASE UNCHANGED vars
  BY <1>6 DEF vars, disk, history
<1>7. QED
  BY <1>1, <1>2, <1>3, <1>4, <1>5, <1>6 DEF Next

LEMMA TypedInit == Init => Typed
<1>1. SUFFICES ASSUME Init PROVE TypeOK /\ PlacesOK
  BY DEF Typed
<1>2. NoStates \in [Names -> Version]
  BY MaxVerAssumption DEF NoStates, Version
<1>3. wal \in Seq(Entry \cup Bad)
  BY <1>1, EmptyLog, Zenon DEF Init
<1>4. pc \in [Threads -> Where] /\ job \in [Savers -> Entry \cup {NoJob}]
  BY <1>1 DEF Init, Where
<1>5. lock \in Savers \cup {NoThread} /\ crashes \in 0..MaxCrash
  BY <1>1, MaxCrashAssumption DEF Init
<1>6. up \in BOOLEAN /\ recovered \in BOOLEAN
  BY <1>1 DEF Init
<1>7. TypeOK
  BY <1>1, <1>2, <1>3, <1>4, <1>5, <1>6 DEF Init, TypeOK
<1>8. PlacesOK
  BY <1>1 DEF Init, PlacesOK, Threads
<1>9. QED
  BY <1>7, <1>8

\* The type invariant, for every value of the constants.
THEOREM TypeCorrect == Spec => []TypeOK
<1>1. Init => Typed
  BY TypedInit
<1>2. Typed /\ [Next]_vars => Typed'
  BY TypedStep
<1>3. Typed => TypeOK
  BY DEF Typed
<1>4. QED
  BY <1>1, <1>2, <1>3, PTL DEF Spec

-----------------------------------------------------------------------------
\* On disks that work and without recover(), no step leaves anything on the
\* disk or in memory older than what was acknowledged.
LEMMA InvStep ==
  ASSUME IOErrors = FALSE, Recoverers = {}, IInv, [Next]_vars
  PROVE  IInv'
<1> USE DEF IInv
<1>1. TypeOK' /\ PlacesOK'
  BY TypedStep DEF Typed
<1>2. /\ \A n \in Names : /\ file[n] \in Nat /\ mem[n] \in Nat
                           /\ acked[n] \in Nat /\ newest[n] \in Nat
      /\ \A e \in Entry : e.name \in Names /\ e.ver \in Nat /\ e.ver # 0
      /\ \A i \in DOMAIN wal : IsGood(wal[i]) => wal[i] \in Entry
  BY DEF TypeOK, Version, Entry, Bad, IsGood
<1>3. /\ Threads = Savers
      /\ \A t \in Savers : /\ t # NoThread
                           /\ pc[t] \in Locked \cup {"idle"}
                           /\ lock = t => job[t] \in Entry
      /\ \A t \in Savers, u \in Savers :
            pc[t] # "idle" /\ pc[u] # "idle" => t = u
  BY ThreadsAssumption DEF Threads, PlacesOK, LockInv
<1>4. ASSUME NEW t \in Savers, NEW n \in Names, Save(t, n)
      PROVE  LockInv' /\ DiskInv' /\ CommitInv'
  <2>1. /\ \A u \in Savers : pc[u] = "idle"
        /\ lock' = t /\ up
        /\ newest' = [newest EXCEPT ![n] = @ + 1]
        /\ job' = [job EXCEPT ![t] = [name |-> n, ver |-> newest[n] + 1]]
        /\ pc' = [pc EXCEPT ![t] = "append"]
        /\ UNCHANGED <<file, wal, tmp, mem, up, acked>>
    BY <1>3, <1>4 DEF Save, LockInv, Goto, disk
  <2>2. LockInv'
    BY <1>2, <1>3, <2>1 DEF LockInv, TypeOK, Threads
  <2>3. DiskInv'
    BY <2>1 DEF DiskInv
  <2>4. \A u \in Savers : pc'[u] \in {"idle", "append"}
    BY <1>3, <2>1 DEF TypeOK
  <2>5. CommitInv'
    BY <2>4 DEF CommitInv, Commit
  <2>6. QED
    BY <2>2, <2>3, <2>5
<1>5. ASSUME NEW t \in Savers, Step(t)
      PROVE  LockInv' /\ DiskInv' /\ CommitInv'
  <2> DEFINE n == job[t].name
             v == job[t].ver
  <2>1. CASE AppendWal(t)
    <3>1. /\ pc[t] = "append" /\ lock = t /\ up /\ job[t] \in Entry
          /\ wal' = AppendLine(wal, job[t])
          /\ pc' = [pc EXCEPT ![t] = "memory"]
          /\ UNCHANGED <<file, tmp, mem, up, lock, job, newest, acked>>
      BY <1>3, <2>1 DEF AppendWal, LockInv, Goto, history
    <3>2. LockInv'
      BY <1>3, <3>1 DEF LockInv, TypeOK
    <3>3. v >= acked[n]
      BY <1>2, <3>1 DEF LockInv
    <3>4. \A i \in DOMAIN wal' : IsGood(wal'[i]) =>
            wal'[i] = job[t] \/ (i \in DOMAIN wal /\ wal'[i] = wal[i])
      BY <3>1, AppendLineLemma DEF TypeOK
    <3>5. DiskInv'
      BY <3>1, <3>3, <3>4 DEF DiskInv
    <3>6. CommitInv'
      BY <1>3, <3>1 DEF CommitInv, Commit, TypeOK
    <3>7. QED
      BY <3>2, <3>5, <3>6
  <2>2. CASE UpdateMemory(t)
    <3>1. /\ pc[t] = "memory" /\ lock = t /\ up /\ job[t] \in Entry
          /\ mem' = [mem EXCEPT ![n] = v]
          /\ pc' = [pc EXCEPT ![t] = "write"]
          /\ UNCHANGED <<file, wal, tmp, up, lock, job, newest, acked>>
      BY <1>3, <2>2 DEF UpdateMemory, LockInv, Goto, disk, history
    <3>2. LockInv'
      BY <1>3, <3>1 DEF LockInv, TypeOK
    <3>3. v >= acked[n]
      BY <1>2, <3>1 DEF LockInv
    <3>4. DiskInv'
      BY <1>2, <3>1, <3>3 DEF DiskInv, TypeOK
    <3>5. CommitInv'
      BY <1>2, <1>3, <3>1 DEF CommitInv, Commit, TypeOK
    <3>6. QED
      BY <3>2, <3>4, <3>5
  <2>3. CASE WriteTmp(t)
    <3>1. /\ pc[t] = "write" /\ lock = t /\ up /\ job[t] \in Entry
          /\ tmp' = mem
          /\ pc' = [pc EXCEPT ![t] = "rename"]
          /\ UNCHANGED <<file, wal, mem, up, lock, job, newest, acked>>
      BY <1>3, <2>3 DEF WriteTmp, LockInv, Goto, history
    <3>2. LockInv'
      BY <1>3, <3>1 DEF LockInv, TypeOK
    <3>3. DiskInv'
      BY <3>1 DEF DiskInv
    <3>4. mem # NoFile
      BY NoFileAssumption DEF TypeOK, Version
    <3>5. CommitInv'
      BY <1>3, <3>1, <3>4 DEF CommitInv, DiskInv, Commit, TypeOK
    <3>6. QED
      BY <3>2, <3>3, <3>5
  <2>4. CASE Rename(t)
    <3>1. /\ pc[t] = "rename" /\ lock = t /\ up /\ job[t] \in Entry
          /\ file' = tmp
          /\ pc' = [pc EXCEPT ![t] = "clear"]
          /\ UNCHANGED <<wal, mem, up, lock, job, newest, acked>>
      BY <1>3, <2>4 DEF Rename, LockInv, Goto, history
    <3>2. LockInv'
      BY <1>3, <3>1 DEF LockInv, TypeOK
    <3>3. DiskInv'
      BY <3>1 DEF DiskInv, CommitInv
    <3>4. CommitInv'
      BY <1>3, <3>1 DEF CommitInv, Commit, TypeOK
    <3>5. QED
      BY <3>2, <3>3, <3>4
  <2>5. CASE ClearWal(t)
    <3>1. /\ pc[t] = "clear" /\ lock = t /\ up /\ job[t] \in Entry
          /\ wal' = <<>>
          /\ pc' = [pc EXCEPT ![t] = "return"]
          /\ UNCHANGED <<file, tmp, mem, up, lock, job, newest, acked>>
      BY <1>3, <2>5 DEF ClearWal, LockInv, Goto, history
    <3>2. LockInv'
      BY <1>3, <3>1 DEF LockInv, TypeOK
    <3>3. DiskInv'
      BY <3>1 DEF DiskInv
    <3>4. CommitInv'
      BY <1>3, <3>1 DEF CommitInv, Commit, TypeOK
    <3>5. QED
      BY <3>2, <3>3, <3>4
  <2>6. CASE SaveReturns(t)
    <3>1. /\ pc[t] = "return" /\ lock = t /\ up /\ job[t] \in Entry
          /\ lock' = NoThread
          /\ acked' = [acked EXCEPT ![n] = v]
          /\ job' = [job EXCEPT ![t] = NoJob]
          /\ pc' = [pc EXCEPT ![t] = "idle"]
          /\ UNCHANGED <<file, wal, tmp, mem, up, newest>>
      BY <1>3, <2>6 DEF SaveReturns, LockInv, Goto, disk
    <3>2. \A u \in Savers : pc'[u] = "idle"
      BY <1>3, <3>1 DEF TypeOK
    <3>3. LockInv'
      BY <1>2, <1>3, <3>1, <3>2 DEF LockInv, TypeOK
    <3>4. wal = <<>> /\ file[n] = v /\ mem[n] = v
      BY <3>1 DEF CommitInv
    <3>5. DiskInv'
      BY <1>2, <3>1, <3>4 DEF DiskInv, TypeOK
    <3>6. CommitInv'
      BY <3>2 DEF CommitInv, Commit
    <3>7. QED
      BY <3>3, <3>5, <3>6
  <2>7. ~CommitFails(t)
    BY <1>3 DEF CommitFails, CommitInv, ChangesMap
  <2>8. ~AppendFails(t) /\ ~ReadFile(t) /\ ~ReplayWal(t) /\ ~UnlinkWal(t)
        /\ ~RecoverReturns(t)
    BY <1>3 DEF AppendFails, ReadFile, ReplayWal, UnlinkWal, RecoverReturns,
       Locked, Commit
  <2>9. QED
    BY <1>5, <2>1, <2>2, <2>3, <2>4, <2>5, <2>6, <2>7, <2>8 DEF Step
<1>6. CASE Crash
  <2>1. /\ up' = FALSE /\ lock' = NoThread
        /\ pc' = [t \in Threads |-> "idle"]
        /\ UNCHANGED <<file, newest, acked>>
    BY <1>6 DEF Crash
  <2>2. \A t \in Savers : pc'[t] = "idle"
    BY <1>3, <2>1
  <2>3. LockInv'
    BY <1>3, <2>1, <2>2 DEF LockInv
  <2>4. ASSUME NEW i \in DOMAIN wal', IsGood(wal'[i])
        PROVE  wal'[i].ver >= acked[wal'[i].name]
    <3>1. CASE wal' = wal
      BY <2>4, <3>1 DEF DiskInv
    <3>2. ASSUME NEW t \in Savers, pc[t] = "append",
                 NEW line \in {Torn, job[t]}, wal' = AppendLine(wal, line)
          PROVE  wal'[i].ver >= acked[wal'[i].name]
      <4>1. job[t] \in Entry /\ job[t].ver >= acked[job[t].name]
        BY <1>2, <1>3, <3>2 DEF LockInv
      <4>2. wal'[i] = line \/ (i \in DOMAIN wal /\ wal'[i] = wal[i])
        BY <2>4, <3>2, <4>1, AppendLineLemma DEF TypeOK
      <4>3. wal'[i] # Torn
        BY <2>4 DEF IsGood, Torn
      <4>4. CASE wal'[i] = job[t]
        BY <4>1, <4>4
      <4>5. CASE i \in DOMAIN wal /\ wal'[i] = wal[i]
        BY <2>4, <4>5 DEF DiskInv
      <4>6. QED
        BY <4>2, <4>3, <4>4, <4>5
    <3>3. QED
      BY <1>6, <3>1, <3>2 DEF Crash
  <2>5. DiskInv'
    BY <2>1, <2>4 DEF DiskInv
  <2>6. CommitInv'
    BY <2>2 DEF CommitInv, Commit
  <2>7. QED
    BY <1>1, <2>3, <2>5, <2>6
<1>7. CASE Restart
  <2>1. /\ ~up /\ up' = TRUE /\ mem' = Replayed(file, wal)
        /\ wal' = wal \/ wal' = <<>>
        /\ UNCHANGED <<file, tmp, lock, pc, job, newest, acked>>
    BY <1>7 DEF Restart
  <2>2. \A t \in Savers : pc[t] = "idle" /\ lock # t
    BY <1>3, <2>1 DEF LockInv
  <2>3. LockInv'
    BY <2>1, <2>2 DEF LockInv
  <2>4. ASSUME NEW n \in Names
        PROVE  mem'[n] >= acked[n]
    <3>1. CASE mem'[n] = file[n]
      BY <3>1 DEF DiskInv
    <3>2. CASE \E i \in DOMAIN wal : /\ IsGood(wal[i]) /\ wal[i].name = n
                                     /\ mem'[n] = wal[i].ver
      BY <3>2 DEF DiskInv
    <3>3. QED
      BY <2>1, <3>1, <3>2, ReplayedLemma DEF TypeOK
  <2>5. DiskInv'
    BY <2>1, <2>4 DEF DiskInv
  <2>6. CommitInv'
    BY <2>1, <2>2 DEF CommitInv, Commit
  <2>7. QED
    BY <1>1, <2>3, <2>5, <2>6
<1>8. CASE UNCHANGED vars
  BY <1>1, <1>8 DEF vars, disk, history, LockInv, DiskInv, CommitInv
<1>9. QED
  BY <1>1, <1>3, <1>4, <1>5, <1>6, <1>7, <1>8 DEF Next

LEMMA StartInv == Init => IInv
<1>1. Init => TypeOK /\ PlacesOK
  BY TypedInit DEF Typed
<1>2. Init => LockInv /\ DiskInv /\ CommitInv
  BY ThreadsAssumption
  DEF Init, LockInv, DiskInv, CommitInv, NoStates, Threads, Commit
<1>3. QED
  BY <1>1, <1>2 DEF IInv

\* A save that returned is found by every later process: on disks that do not
\* fail and without recover(), for any number of crashes, at any point.
THEOREM AckedNeverLost ==
  ASSUME IOErrors = FALSE, Recoverers = {}
  PROVE  Spec => []AckedDurable
<1>1. Init => IInv
  BY StartInv
<1>2. IInv /\ [Next]_vars => IInv'
  BY InvStep
<1>3. IInv => AckedDurable
  <2>1. SUFFICES ASSUME IInv, NEW n \in Names
                 PROVE  Replayed(file, wal)[n] >= acked[n]
    BY DEF AckedDurable, Recoverable
  <2>2. CASE Replayed(file, wal)[n] = file[n]
    BY <2>1, <2>2 DEF IInv, DiskInv
  <2>3. CASE \E i \in DOMAIN wal : /\ IsGood(wal[i]) /\ wal[i].name = n
                                   /\ Replayed(file, wal)[n] = wal[i].ver
    BY <2>1, <2>3 DEF IInv, DiskInv
  <2>4. QED
    BY <2>1, <2>2, <2>3, ReplayedLemma DEF IInv, TypeOK
<1>4. QED
  BY <1>1, <1>2, <1>3, PTL DEF Spec

-----------------------------------------------------------------------------
(* What a replay returns, line by line. *)

\* The last readable line of a name decides what a replay yields for it.
LEMMA DecidesLemma ==
  ASSUME NEW base, NEW w \in Seq(Entry \cup Bad), NEW n \in Names,
         NEW i \in DOMAIN w, Decides(w, i, n)
  PROVE  Replayed(base, w)[n] = w[i].ver
<1>1. PICK j \in DOMAIN w : j = CHOOSE k \in DOMAIN w : Decides(w, k, n)
  OBVIOUS
<1>2. Decides(w, j, n)
  BY <1>1
<1>3. i = j
  BY <1>2 DEF Decides, Readable
<1>4. QED
  BY <1>1, <1>3 DEF Replayed

\* A name no readable line decides keeps what the replay started from.
LEMMA UndecidedLemma ==
  ASSUME NEW base, NEW w, NEW n \in Names, ~\E i \in DOMAIN w : Decides(w, i, n)
  PROVE  Replayed(base, w)[n] = base[n]
BY DEF Replayed

\* Two replays of one log differ only where they started from.
LEMMA OtherBase ==
  ASSUME NEW old, NEW new, NEW w \in Seq(Entry \cup Bad), NEW n \in Names
  PROVE  \/ Replayed(new, w)[n] = Replayed(old, w)[n]
         \/ Replayed(new, w)[n] = new[n]
<1>1. CASE \E i \in DOMAIN w : Decides(w, i, n)
  BY <1>1, DecidesLemma
<1>2. CASE ~\E i \in DOMAIN w : Decides(w, i, n)
  BY <1>2, UndecidedLemma
<1>3. QED
  BY <1>1, <1>2

\* A line cut short at the end of the log changes nothing a replay yields.
LEMMA TornLemma ==
  ASSUME NEW base, NEW w \in Seq(Entry \cup Bad), NEW n \in Names
  PROVE  Replayed(base, AppendLine(w, Torn))[n] = Replayed(base, w)[n]
<1>1. CASE w # <<>> /\ w[Len(w)] = Torn
  BY <1>1 DEF AppendLine
<1>2. CASE ~(w # <<>> /\ w[Len(w)] = Torn)
  <2> DEFINE u == Append(w, Torn)
  <2>1. AppendLine(w, Torn) = u /\ u \in Seq(Entry \cup Bad)
    BY <1>2 DEF AppendLine, Bad, Torn
  <2>2. /\ DOMAIN w = 1..Len(w) /\ DOMAIN u = 1..(Len(w) + 1) /\ Len(w) \in Nat
        /\ \A i \in DOMAIN w : u[i] = w[i]
        /\ u[Len(w) + 1] = Torn /\ ~IsGood(Torn)
    BY DEF IsGood, Torn
  <2>3. Readable(u) = Readable(w)
    BY <2>2 DEF Readable
  <2>4. \A i \in DOMAIN u : Decides(u, i, n) <=> i \in DOMAIN w /\ Decides(w, i, n)
    BY <2>2, <2>3 DEF Decides, Readable
  <2>5. CASE \E i \in DOMAIN w : Decides(w, i, n)
    <3>1. PICK i \in DOMAIN w : Decides(w, i, n)
      BY <2>5
    <3>2. i \in DOMAIN u /\ Decides(u, i, n) /\ u[i] = w[i]
      BY <2>2, <2>4, <3>1
    <3>3. Replayed(base, u)[n] = u[i].ver
      BY <2>1, <3>2, DecidesLemma
    <3>4. Replayed(base, w)[n] = w[i].ver
      BY <3>1, DecidesLemma
    <3>5. QED
      BY <2>1, <3>2, <3>3, <3>4
  <2>6. CASE ~\E i \in DOMAIN w : Decides(w, i, n)
    <3>1. ~\E i \in DOMAIN u : Decides(u, i, n)
      BY <2>4, <2>6
    <3>2. Replayed(base, u)[n] = base[n] /\ Replayed(base, w)[n] = base[n]
      BY <2>6, <3>1, UndecidedLemma
    <3>3. QED
      BY <2>1, <3>2
  <2>7. QED
    BY <2>5, <2>6
<1>3. QED
  BY <1>1, <1>2

\* Two appends in a row have glued no line, and only the last may be short.
Unglued(w)  == \A i \in DOMAIN w : w[i] # Glued
TornLast(w) == \A i \in DOMAIN w : w[i] = Torn => i = Len(w)

\* A line that is appended whole, and not glued to one cut short, decides its
\* name; the other names stay as they were.
LEMMA WholeLemma ==
  ASSUME NEW base, NEW w \in Seq(Entry \cup Bad), NEW line \in Entry,
         TornLast(w), Unglued(AppendLine(w, line)), NEW n \in Names
  PROVE  /\ Unglued(w)
         /\ n = line.name => Replayed(base, AppendLine(w, line))[n] = line.ver
         /\ n # line.name =>
              Replayed(base, AppendLine(w, line))[n] = Replayed(base, w)[n]
<1> DEFINE u == Append(w, line)
<1>1. line # Torn /\ IsGood(line) /\ Entry \cap Bad = {}
  BY DEF Entry, Bad, Torn, IsGood
<1>2. ~(w # <<>> /\ w[Len(w)] = Torn)
  <2>1. SUFFICES ASSUME w # <<>>, w[Len(w)] = Torn PROVE FALSE
    OBVIOUS
  <2>2. AppendLine(w, line) = [w EXCEPT ![Len(w)] = Glued]
    BY <1>1, <2>1 DEF AppendLine
  <2>3. Len(w) \in DOMAIN w
    BY <2>1
  <2>4. QED
    BY <2>2, <2>3 DEF Unglued
<1>3. AppendLine(w, line) = u /\ u \in Seq(Entry \cup Bad)
  BY <1>2 DEF AppendLine
<1>4. /\ DOMAIN w = 1..Len(w) /\ DOMAIN u = 1..(Len(w) + 1) /\ Len(w) \in Nat
      /\ \A i \in DOMAIN w : u[i] = w[i]
      /\ u[Len(w) + 1] = line
  OBVIOUS
<1>5. Unglued(w)
  BY <1>3, <1>4 DEF Unglued
<1>6. \A i \in DOMAIN w : w[i] # Torn
  BY <1>2, <1>4 DEF TornLast
<1>7. \A i \in DOMAIN w : IsGood(w[i])
  BY <1>5, <1>6 DEF Unglued, Bad, Entry, IsGood, Torn, Glued
<1>8. Readable(w) = DOMAIN w /\ Readable(u) = DOMAIN u
  BY <1>1, <1>4, <1>7 DEF Readable
<1>9. CASE n = line.name
  <2>1. Decides(u, Len(w) + 1, n)
    BY <1>4, <1>8, <1>9 DEF Decides
  <2>2. Replayed(base, u)[n] = u[Len(w) + 1].ver
    <3>1. Len(w) + 1 \in DOMAIN u
      BY <1>4
    <3>2. QED
      BY <1>3, <2>1, <3>1, DecidesLemma
  <2>3. QED
    BY <1>3, <1>4, <1>5, <1>9, <2>2
<1>10. CASE n # line.name
  <2>1. \A i \in DOMAIN u : Decides(u, i, n) <=> i \in DOMAIN w /\ Decides(w, i, n)
    BY <1>4, <1>8, <1>10 DEF Decides
  <2>2. CASE \E i \in DOMAIN w : Decides(w, i, n)
    <3>1. PICK i \in DOMAIN w : Decides(w, i, n)
      BY <2>2
    <3>2. i \in DOMAIN u /\ Decides(u, i, n) /\ u[i] = w[i]
      BY <1>4, <2>1, <3>1
    <3>3. Replayed(base, u)[n] = u[i].ver
      BY <1>3, <3>2, DecidesLemma
    <3>4. Replayed(base, w)[n] = w[i].ver
      BY <3>1, DecidesLemma
    <3>5. QED
      BY <1>3, <1>5, <1>10, <3>2, <3>3, <3>4
  <2>3. CASE ~\E i \in DOMAIN w : Decides(w, i, n)
    <3>1. ~\E i \in DOMAIN u : Decides(u, i, n)
      BY <2>1, <2>3
    <3>2. Replayed(base, u)[n] = base[n] /\ Replayed(base, w)[n] = base[n]
      BY <2>3, <3>1, UndecidedLemma
    <3>3. QED
      BY <1>3, <1>5, <1>10, <3>2
  <2>4. QED
    BY <2>2, <2>3
<1>11. QED
  BY <1>9, <1>10

\* Appending keeps the short line, if there is one, the last.
LEMMA TornStaysLast ==
  ASSUME NEW w \in Seq(Entry \cup Bad), NEW line \in Entry \cup {Torn}, TornLast(w)
  PROVE  /\ TornLast(AppendLine(w, line))
         /\ Unglued(AppendLine(w, line)) => Unglued(w)
<1>1. CASE w # <<>> /\ w[Len(w)] = Torn
  BY <1>1 DEF AppendLine, TornLast, Unglued, Entry, Torn, Glued
<1>2. CASE ~(w # <<>> /\ w[Len(w)] = Torn)
  <2>1. AppendLine(w, line) = Append(w, line)
    BY <1>2 DEF AppendLine
  <2>2. \A i \in DOMAIN w : w[i] # Torn
    BY <1>2 DEF TornLast
  <2>3. QED
    BY <2>1, <2>2 DEF TornLast, Unglued
<1>3. QED
  BY <1>1, <1>2
-----------------------------------------------------------------------------
(* The disk may fail and recover() may run.                                *)

\* Who is where: a thread inside save() holds the lock and saves the newest
\* version, and a process that never ran recover() has no thread inside it.
HoldsInv ==
  /\ \A t \in Savers : pc[t] # "idle" <=> lock = t
  /\ \A t \in Savers : lock = t => up /\ job[t].ver = newest[job[t].name]
  /\ \A n \in Names : here[n] <= newest[n]
  /\ ~up => \A t \in Threads : pc[t] = "idle"
  /\ ~recovered => \A t \in Recoverers : pc[t] = "idle"

\* The save of t has written its line.
Logged(t) == pc[t] \in Commit \cup {"memory", "return"}

\* How far the commit of t has reached.
ReachedInv(t) ==
  /\ pc[t] \in Commit \cup {"return"} => mem[job[t].name] = job[t].ver
  /\ pc[t] = "rename" => /\ tmp # NoFile
                         /\ \A n \in Names : tmp[n] >= here[n]
                         /\ tmp[job[t].name] = job[t].ver
  /\ pc[t] = "clear" => /\ \A n \in Names : file[n] >= here[n]
                        /\ file[job[t].name] = job[t].ver

\* Until recover() runs, this process forgets no save it acknowledged: not in
\* memory, and not on the disk either unless two lines were glued together.
KeptInv ==
  /\ up => \A n \in Names : mem[n] >= here[n]
  /\ \A t \in Savers : ReachedInv(t)
  /\ Unglued(wal) => /\ \A n \in Names : Recoverable(n) >= here[n]
                     /\ \A t \in Savers : Logged(t) =>
                          Recoverable(job[t].name) >= job[t].ver

CrashInv == Typed /\ TornLast(wal) /\ HoldsInv /\ (~recovered => KeptInv)

\* A failing disk breaks no rule about who is where.
LEMMA HoldsStep ==
  ASSUME Typed, TornLast(wal), HoldsInv, [Next]_vars
  PROVE  TornLast(wal') /\ HoldsInv'
<1> USE DEF Typed, TypeOK, PlacesOK, HoldsInv, Goto
<1>1. /\ \A t \in Savers : t # NoThread /\ t \in Threads
      /\ Savers \cap Recoverers = {}
      /\ \A n \in Names : newest[n] \in Nat /\ here[n] \in Nat
      /\ TornLast(<<>>)
  BY ThreadsAssumption DEF Threads, Version, TornLast
<1>2. ASSUME NEW t \in Savers, NEW n \in Names, Save(t, n)
      PROVE  TornLast(wal') /\ HoldsInv'
  <2>1. /\ \A u \in Savers : pc[u] = "idle"
        /\ lock' = t /\ up
        /\ newest' = [newest EXCEPT ![n] = @ + 1]
        /\ job' = [job EXCEPT ![t] = [name |-> n, ver |-> newest[n] + 1]]
        /\ pc' = [pc EXCEPT ![t] = "append"]
        /\ UNCHANGED <<wal, up, here, recovered>>
    BY <1>1, <1>2 DEF Save, disk
  <2>2. QED
    BY <1>1, <2>1
<1>3. ASSUME NEW t \in Recoverers, Recover(t)
      PROVE  TornLast(wal') /\ HoldsInv'
  BY <1>1, <1>3 DEF Recover, disk, Threads
<1>4. ASSUME NEW t \in Threads, Step(t)
      PROVE  TornLast(wal') /\ HoldsInv'
  <2>1. up /\ pc[t] # "idle"
    BY <1>4 DEF Step, AppendWal, AppendFails, UpdateMemory, WriteTmp, Rename,
       ClearWal, CommitFails, SaveReturns, ReadFile, ReplayWal, UnlinkWal,
       RecoverReturns, Commit
  <2>2. CASE SaveReturns(t)
    <3>1. /\ t \in Savers /\ lock = t /\ job[t] \in Entry
          /\ lock' = NoThread
          /\ here' = [here EXCEPT ![job[t].name] = job[t].ver]
          /\ job' = [job EXCEPT ![t] = NoJob]
          /\ pc' = [pc EXCEPT ![t] = "idle"]
          /\ UNCHANGED <<wal, up, newest, recovered>>
      BY <2>2 DEF SaveReturns, disk
    <3>2. \A u \in Savers : pc'[u] = "idle"
      BY <1>1, <3>1
    <3>3. \A n \in Names : here'[n] <= newest'[n]
      BY <1>1, <3>1 DEF Entry
    <3>4. QED
      BY <1>1, <2>1, <3>1, <3>2, <3>3 DEF Threads
  <2>3. CASE AppendFails(t)
    <3>1. /\ t \in Savers /\ lock = t /\ job[t] \in Entry
          /\ wal' \in {wal, AppendLine(wal, Torn), AppendLine(wal, job[t])}
          /\ lock' = NoThread
          /\ pc' = [pc EXCEPT ![t] = "idle"]
          /\ UNCHANGED <<up, newest, here, recovered>>
      BY <2>3 DEF AppendFails, history, Threads
    <3>2. TornLast(wal')
      BY <3>1, TornStaysLast
    <3>3. \A u \in Savers : pc'[u] = "idle"
      BY <1>1, <3>1
    <3>4. QED
      BY <1>1, <2>1, <3>1, <3>2, <3>3 DEF Threads
  <2>4. CASE /\ UNCHANGED <<up, lock, job, newest, here, recovered>>
             /\ \E l \in Where \ {"idle"} : pc' = [pc EXCEPT ![t] = l]
             /\ TornLast(wal')
    BY <1>1, <2>1, <2>4 DEF Threads
  <2>5. CASE RecoverReturns(t)
    BY <1>1, <2>1, <2>5 DEF RecoverReturns, disk, history, Threads
  <2>6. CASE AppendWal(t)
    <3>1. t \in Savers /\ job[t] \in Entry
      BY <2>6 DEF AppendWal, Threads
    <3>2. TornLast(wal')
      BY <2>6, <3>1, TornStaysLast DEF AppendWal
    <3>3. QED
      BY <2>4, <2>6, <3>2 DEF AppendWal, history, Where, Locked
  <2>7. CASE UpdateMemory(t)
    BY <2>4, <2>7 DEF UpdateMemory, disk, history, Where, Locked, Commit
  <2>8. CASE WriteTmp(t)
    BY <2>4, <2>8 DEF WriteTmp, history, Where, Locked, Commit
  <2>9. CASE Rename(t)
    BY <2>4, <2>9 DEF Rename, history, Where, Locked, Commit
  <2>10. CASE ClearWal(t)
    BY <1>1, <2>4, <2>10 DEF ClearWal, history, Where, Locked
  <2>11. CASE CommitFails(t)
    BY <2>4, <2>11 DEF CommitFails, disk, history, Where, Locked
  <2>12. CASE ReadFile(t)
    BY <2>4, <2>12 DEF ReadFile, disk, history, Where
  <2>13. CASE ReplayWal(t)
    BY <2>4, <2>13 DEF ReplayWal, disk, history, Where, Locked, Commit
  <2>14. CASE UnlinkWal(t)
    <3>1. wal' = wal \/ wal' = <<>>
      BY <2>14 DEF UnlinkWal
    <3>2. TornLast(wal')
      BY <1>1, <3>1
    <3>3. QED
      BY <2>4, <2>14, <3>2 DEF UnlinkWal, history, Where, Locked, Commit
  <2>15. QED
    BY <1>4, <2>2, <2>3, <2>5, <2>6, <2>7, <2>8, <2>9, <2>10, <2>11, <2>12,
       <2>13, <2>14 DEF Step
<1>5. CASE Crash
  <2>1. /\ up' = FALSE /\ lock' = NoThread
        /\ pc' = [t \in Threads |-> "idle"]
        /\ UNCHANGED <<newest, here, recovered>>
    BY <1>5 DEF Crash
  <2>2. TornLast(wal')
    <3>1. \A t \in Savers : pc[t] = "append" => job[t] \in Entry
      OBVIOUS
    <3>2. QED
      BY <1>5, <3>1, TornStaysLast DEF Crash
  <2>3. QED
    BY <1>1, <2>1, <2>2 DEF Threads
<1>6. CASE Restart
  <2>1. /\ ~up /\ up' = TRUE /\ here' = NoStates
        /\ wal' = wal \/ wal' = <<>>
        /\ UNCHANGED <<lock, pc, job, newest>>
    BY <1>6 DEF Restart
  <2>2. TornLast(wal')
    BY <1>1, <2>1
  <2>3. \A n \in Names : here'[n] <= newest'[n]
    BY <1>1, <2>1 DEF NoStates
  <2>4. QED
    BY <1>1, <2>1, <2>2, <2>3 DEF Threads
<1>7. CASE UNCHANGED vars
  BY <1>7 DEF vars, disk, history
<1>8. QED
  BY <1>2, <1>3, <1>4, <1>5, <1>6, <1>7 DEF Next
\* As long as recover() has not run, no step of this process loses what it
\* acknowledged, whichever operation on the disk raises.
LEMMA KeptStep ==
  ASSUME CrashInv, [Next]_vars, ~recovered'
  PROVE  KeptInv'
<1> USE DEF CrashInv, Typed
<1>0. TornLast(wal) /\ wal \in Seq(Entry \cup Bad)
  BY DEF TypeOK
<1>1. /\ \A n \in Names : /\ file[n] \in Nat /\ mem[n] \in Nat
                           /\ here[n] \in Nat /\ newest[n] \in Nat
                           /\ tmp # NoFile => tmp[n] \in Nat
      /\ wal \in Seq(Entry \cup Bad)
      /\ \A e \in Entry : e.name \in Names /\ e.ver \in Nat
      /\ pc \in [Threads -> Where]
  BY DEF TypeOK, Version, Entry
<1>2. /\ \A t \in Savers : /\ t # NoThread /\ t \in Threads
                           /\ pc[t] \in Locked \cup {"idle"}
                           /\ pc[t] # "idle" <=> lock = t
                           /\ lock = t => /\ job[t] \in Entry /\ up
                                          /\ job[t].ver = newest[job[t].name]
      /\ \A n \in Names : here[n] <= newest[n]
  BY ThreadsAssumption DEF Threads, PlacesOK, HoldsInv
<1>whole. ASSUME NEW t \in Savers, job[t] \in Entry,
                 Unglued(AppendLine(wal, job[t])), NEW m \in Names
          PROVE  LET new == Replayed(file, AppendLine(wal, job[t]))[m] IN
                 /\ m = job[t].name => new = job[t].ver
                 /\ m # job[t].name => new = Replayed(file, wal)[m]
  BY <1>0, <1>whole, WholeLemma
<1>3. ASSUME NEW t \in Savers, NEW n \in Names, Save(t, n)
      PROVE  KeptInv'
  <2>1. /\ \A u \in Savers : pc[u] = "idle"
        /\ pc' = [pc EXCEPT ![t] = "append"]
        /\ UNCHANGED <<file, wal, tmp, mem, up, here, recovered>>
    BY <1>2, <1>3 DEF Save, Goto, disk
  <2>2. \A u \in Savers : pc'[u] \in {"idle", "append"}
    BY <1>1, <2>1
  <2>3. \A u \in Savers : ReachedInv(u)' /\ ~Logged(u)'
    BY <2>2 DEF ReachedInv, Logged, Commit
  <2>4. QED
    BY <2>1, <2>3 DEF KeptInv, Recoverable, Unglued
<1>4. ASSUME NEW t \in Recoverers, Recover(t)
      PROVE  KeptInv'
  BY <1>4 DEF Recover
<1>5. ASSUME NEW t \in Threads, Step(t)
      PROVE  KeptInv'
  <2> DEFINE n == job[t].name
             v == job[t].ver
  <2>1. recovered' = recovered
    BY <1>5 DEF Step, AppendWal, AppendFails, UpdateMemory, WriteTmp, Rename,
       ClearWal, CommitFails, SaveReturns, ReadFile, ReplayWal, UnlinkWal,
       RecoverReturns, history
  <2>2. KeptInv /\ \A u \in Recoverers : pc[u] = "idle"
    BY <2>1 DEF HoldsInv
  <2>3. pc[t] # "idle"
    BY <1>5 DEF Step, AppendWal, AppendFails, UpdateMemory, WriteTmp, Rename,
       ClearWal, CommitFails, SaveReturns, ReadFile, ReplayWal, UnlinkWal,
       RecoverReturns, Commit
  <2>4. /\ t \in Savers /\ lock = t /\ up /\ job[t] \in Entry
        /\ v = newest[n] /\ n \in Names /\ v \in Nat
        /\ \A u \in Savers \ {t} : pc[u] = "idle"
    BY <1>1, <1>2, <2>2, <2>3 DEF Threads
  <2>5. ASSUME NEW l \in Where, pc' = [pc EXCEPT ![t] = l]
        PROVE  /\ pc'[t] = l
               /\ \A u \in Savers \ {t} : ReachedInv(u)' /\ ~Logged(u)'
    <3>1. pc'[t] = l /\ \A u \in Savers \ {t} : pc'[u] = "idle"
      BY <1>1, <1>2, <2>4, <2>5
    <3>2. QED
      BY <3>1 DEF ReachedInv, Logged, Commit
  <2>6. ReachedInv(t) /\ \A m \in Names : mem[m] >= here[m]
    BY <2>2, <2>4 DEF KeptInv
  <2>7. Unglued(wal) => /\ \A m \in Names : Recoverable(m) >= here[m]
                        /\ Logged(t) => Recoverable(n) >= v
    BY <2>2, <2>4 DEF KeptInv
  <2>8. ASSUME ReachedInv(t)', \A u \in Savers \ {t} : ReachedInv(u)' /\ ~Logged(u)',
               \A m \in Names : mem'[m] >= here'[m],
               Unglued(wal') => /\ \A m \in Names : Recoverable(m)' >= here'[m]
                                /\ Logged(t)' => Recoverable(n)' >= v,
               Logged(t)' => job' = job
        PROVE  KeptInv'
    BY <2>4, <2>8 DEF KeptInv
  <2>9. CASE AppendWal(t)
    <3>1. /\ wal' = AppendLine(wal, job[t])
          /\ pc' = [pc EXCEPT ![t] = "memory"]
          /\ UNCHANGED <<file, tmp, mem, up, lock, job, here>>
      BY <2>9 DEF AppendWal, Goto, history
    <3>2. ReachedInv(t)' /\ \A u \in Savers \ {t} : ReachedInv(u)' /\ ~Logged(u)'
      BY <2>5, <3>1 DEF ReachedInv, Where, Locked, Commit
    <3>3. ASSUME Unglued(wal'), NEW m \in Names
          PROVE  /\ m = n => Recoverable(m)' = v
                 /\ m # n => Recoverable(m)' = Recoverable(m)
      BY <1>whole, <2>4, <3>1, <3>3 DEF Recoverable
    <3>4. Unglued(wal') => Unglued(wal)
      BY <1>1, <2>4, <3>1, TornStaysLast
    <3>5. QED
      BY <1>1, <1>2, <2>4, <2>6, <2>7, <2>8, <3>1, <3>2, <3>3, <3>4
  <2>10. CASE AppendFails(t)
    <3>1. /\ wal' \in {wal, AppendLine(wal, Torn), AppendLine(wal, job[t])}
          /\ pc' = [pc EXCEPT ![t] = "idle"]
          /\ UNCHANGED <<file, tmp, mem, up, here>>
      BY <2>10 DEF AppendFails, Goto, history
    <3>2. /\ ReachedInv(t)' /\ ~Logged(t)'
          /\ \A u \in Savers \ {t} : ReachedInv(u)' /\ ~Logged(u)'
      <4>1. "idle" \in Where
        BY DEF Where
      <4>2. pc'[t] = "idle" /\ \A u \in Savers \ {t} : ReachedInv(u)' /\ ~Logged(u)'
        BY <2>5, <3>1, <4>1
      <4>3. QED
        BY <4>2 DEF ReachedInv, Logged, Commit
    <3>3. ASSUME Unglued(wal'), NEW m \in Names
          PROVE  Recoverable(m)' >= here[m]
      <4>1. Unglued(wal)
        BY <1>1, <2>4, <3>1, <3>3, TornStaysLast
      <4>2. CASE wal' = AppendLine(wal, job[t])
        <5>1. /\ m = n => Recoverable(m)' = v
              /\ m # n => Recoverable(m)' = Recoverable(m)
          BY <1>whole, <2>4, <3>1, <3>3, <4>2 DEF Recoverable
        <5>2. QED
          BY <1>1, <1>2, <2>4, <2>7, <4>1, <5>1
      <4>3. CASE wal' = wal \/ wal' = AppendLine(wal, Torn)
        <5>1. Recoverable(m)' = Recoverable(m)
          BY <1>1, <3>1, <4>3, TornLemma DEF Recoverable
        <5>2. QED
          BY <2>7, <4>1, <5>1
      <4>4. QED
        BY <3>1, <4>2, <4>3
    <3>4. QED
      BY <2>6, <2>8, <3>1, <3>2, <3>3
  <2>11. CASE UpdateMemory(t)
    <3>1. /\ pc[t] = "memory" /\ mem' = [mem EXCEPT ![n] = v]
          /\ pc' = [pc EXCEPT ![t] = "write"]
          /\ UNCHANGED <<file, wal, tmp, up, lock, job, here>>
      BY <2>11 DEF UpdateMemory, Goto, disk, history
    <3>2. mem'[n] = v /\ \A m \in Names : mem'[m] >= here'[m]
      BY <1>1, <1>2, <2>4, <2>6, <3>1 DEF TypeOK
    <3>3. ReachedInv(t)' /\ \A u \in Savers \ {t} : ReachedInv(u)' /\ ~Logged(u)'
      BY <2>5, <3>1, <3>2 DEF ReachedInv, Where, Locked, Commit
    <3>4. QED
      BY <2>7, <2>8, <3>1, <3>2, <3>3 DEF Logged, Recoverable
  <2>12. CASE WriteTmp(t)
    <3>1. /\ pc[t] = "write" /\ tmp' = mem
          /\ pc' = [pc EXCEPT ![t] = "rename"]
          /\ UNCHANGED <<file, wal, mem, up, lock, job, here>>
      BY <2>12 DEF WriteTmp, Goto, history
    <3>2. mem # NoFile
      BY NoFileAssumption DEF TypeOK, Version
    <3>3. mem[n] = v
      BY <2>6, <3>1 DEF ReachedInv, Commit
    <3>4. ReachedInv(t)' /\ \A u \in Savers \ {t} : ReachedInv(u)' /\ ~Logged(u)'
      BY <2>5, <2>6, <3>1, <3>2, <3>3 DEF ReachedInv, Where, Locked, Commit
    <3>5. QED
      BY <2>6, <2>7, <2>8, <3>1, <3>4 DEF Logged, Recoverable, Commit
  <2>13. CASE Rename(t)
    <3>1. /\ pc[t] = "rename" /\ file' = tmp
          /\ pc' = [pc EXCEPT ![t] = "clear"]
          /\ UNCHANGED <<wal, mem, up, lock, job, here>>
      BY <2>13 DEF Rename, Goto, history
    <3>2. /\ mem[n] = v /\ file'[n] = v
          /\ \A m \in Names : file'[m] >= here[m]
      BY <2>6, <3>1 DEF ReachedInv, Commit
    <3>3. ReachedInv(t)' /\ \A u \in Savers \ {t} : ReachedInv(u)' /\ ~Logged(u)'
      BY <2>5, <3>1, <3>2 DEF ReachedInv, Where, Locked, Commit
    <3>4. ASSUME NEW m \in Names
          PROVE  Recoverable(m)' = Recoverable(m) \/ Recoverable(m)' = file'[m]
      BY <1>1, <3>1, OtherBase DEF Recoverable
    <3>5. v >= v
      BY <2>4
    <3>6. ASSUME Unglued(wal') PROVE /\ \A m \in Names : Recoverable(m)' >= here[m]
                                     /\ Recoverable(n)' >= v
      BY <2>4, <2>7, <3>1, <3>2, <3>4, <3>5, <3>6 DEF Logged, Commit
    <3>7. QED
      BY <2>6, <2>8, <3>1, <3>3, <3>6
  <2>14. CASE ClearWal(t)
    <3>1. /\ pc[t] = "clear" /\ wal' = <<>>
          /\ pc' = [pc EXCEPT ![t] = "return"]
          /\ UNCHANGED <<file, tmp, mem, up, lock, job, here>>
      BY <2>14 DEF ClearWal, Goto, history
    <3>2. /\ mem[n] = v /\ file[n] = v
          /\ \A m \in Names : file[m] >= here[m]
      BY <2>6, <3>1 DEF ReachedInv, Commit
    <3>3. ReachedInv(t)' /\ \A u \in Savers \ {t} : ReachedInv(u)' /\ ~Logged(u)'
      BY <2>5, <3>1, <3>2 DEF ReachedInv, Where, Locked, Commit
    <3>4. \A m \in Names : Recoverable(m)' = file[m]
      BY <3>1, UndecidedLemma DEF Recoverable
    <3>5. v >= v
      BY <2>4
    <3>6. QED
      BY <2>4, <2>6, <2>8, <3>1, <3>2, <3>3, <3>4, <3>5
  <2>15. CASE CommitFails(t)
    <3>1. /\ pc[t] \in Commit
          /\ pc' = [pc EXCEPT ![t] = "return"]
          /\ UNCHANGED <<file, wal, tmp, mem, up, lock, job, here>>
      BY <2>15 DEF CommitFails, Goto, disk, history
    <3>2. mem[n] = v
      BY <2>6, <3>1 DEF ReachedInv
    <3>3. ReachedInv(t)' /\ \A u \in Savers \ {t} : ReachedInv(u)' /\ ~Logged(u)'
      BY <2>5, <3>1, <3>2 DEF ReachedInv, Where, Locked, Commit
    <3>4. QED
      BY <2>6, <2>7, <2>8, <3>1, <3>3 DEF Logged, Recoverable
  <2>16. CASE SaveReturns(t)
    <3>1. /\ pc[t] = "return"
          /\ here' = [here EXCEPT ![n] = v]
          /\ pc' = [pc EXCEPT ![t] = "idle"]
          /\ UNCHANGED <<file, wal, tmp, mem, up>>
      BY <2>16 DEF SaveReturns, Goto, disk
    <3>2. /\ ReachedInv(t)' /\ ~Logged(t)'
          /\ \A u \in Savers \ {t} : ReachedInv(u)' /\ ~Logged(u)'
      <4>1. "idle" \in Where
        BY DEF Where
      <4>2. pc'[t] = "idle" /\ \A u \in Savers \ {t} : ReachedInv(u)' /\ ~Logged(u)'
        BY <2>5, <3>1, <4>1
      <4>3. QED
        BY <4>2 DEF ReachedInv, Logged, Commit
    <3>3. \A m \in Names : here'[m] = IF m = n THEN v ELSE here[m]
      BY <3>1 DEF TypeOK
    <3>4. mem[n] = v /\ v >= v
      BY <2>4, <2>6, <3>1 DEF ReachedInv
    <3>5. Unglued(wal) => Recoverable(n) >= v
      BY <2>7, <3>1 DEF Logged
    <3>6. QED
      BY <2>6, <2>7, <2>8, <3>1, <3>2, <3>3, <3>4, <3>5 DEF Recoverable
  <2>17. ~ReadFile(t) /\ ~ReplayWal(t) /\ ~UnlinkWal(t) /\ ~RecoverReturns(t)
    BY <1>2, <2>4, ThreadsAssumption
    DEF ReadFile, ReplayWal, UnlinkWal, RecoverReturns, Locked, Commit
  <2>18. QED
    BY <1>5, <2>9, <2>10, <2>11, <2>12, <2>13, <2>14, <2>15, <2>16, <2>17 DEF Step
<1>6. CASE Crash
  <2>1. /\ up' = FALSE /\ pc' = [t \in Threads |-> "idle"]
        /\ UNCHANGED <<file, here, recovered>>
    BY <1>6 DEF Crash
  <2>2. KeptInv
    BY <2>1
  <2>3. \A t \in Savers : ReachedInv(t)' /\ ~Logged(t)'
    BY <1>2, <2>1 DEF ReachedInv, Logged, Commit
  <2>4. ASSUME Unglued(wal'), NEW m \in Names
        PROVE  Recoverable(m)' >= here[m]
    <3>1. CASE wal' = wal
      BY <2>1, <2>2, <2>4, <3>1 DEF KeptInv, Recoverable
    <3>2. ASSUME NEW t \in Savers, pc[t] = "append", wal' = AppendLine(wal, Torn)
          PROVE  Recoverable(m)' >= here[m]
      <4>1. Unglued(wal)
        BY <1>1, <2>4, <3>2, TornStaysLast
      <4>2. Recoverable(m)' = Recoverable(m)
        BY <1>1, <2>1, <3>2, TornLemma DEF Recoverable
      <4>3. QED
        BY <2>2, <4>1, <4>2 DEF KeptInv
    <3>3. ASSUME NEW t \in Savers, pc[t] = "append", wal' = AppendLine(wal, job[t])
          PROVE  Recoverable(m)' >= here[m]
      <4>1. job[t] \in Entry /\ job[t].ver = newest[job[t].name]
        BY <1>2, <3>3
      <4>2. Unglued(wal)
        BY <1>1, <2>4, <3>3, <4>1, TornStaysLast
      <4>3. /\ m = job[t].name => Recoverable(m)' = job[t].ver
            /\ m # job[t].name => Recoverable(m)' = Recoverable(m)
        BY <1>whole, <2>1, <2>4, <3>3, <4>1 DEF Recoverable
      <4>4. QED
        BY <1>1, <1>2, <2>2, <4>1, <4>2, <4>3 DEF KeptInv
    <3>4. QED
      BY <1>6, <3>1, <3>2, <3>3 DEF Crash
  <2>5. QED
    BY <2>1, <2>3, <2>4 DEF KeptInv
<1>7. CASE Restart
  <2>1. /\ here' = NoStates /\ UNCHANGED pc
        /\ \A t \in Savers : pc[t] = "idle"
    BY <1>7 DEF Restart, HoldsInv, Threads
  <2>2. /\ \A m \in Names : here'[m] = 0
        /\ \A t \in Savers : ReachedInv(t)' /\ ~Logged(t)'
    BY <2>1 DEF ReachedInv, Logged, Commit, NoStates
  <2>3. Typed'
    BY TypedStep
  <2>4. ASSUME NEW m \in Names
        PROVE  mem'[m] \in Nat /\ Recoverable(m)' \in Nat
    <3>1. /\ file' \in [Names -> Version] /\ wal' \in Seq(Entry \cup Bad)
          /\ mem' \in [Names -> Version]
      BY <2>3 DEF TypeOK
    <3>2. Replayed(file', wal') \in [Names -> Version]
      BY <3>1, ReplayedLemma
    <3>3. QED
      BY <3>1, <3>2 DEF Recoverable, Version
  <2>5. \A m \in Names : mem'[m] >= here'[m] /\ Recoverable(m)' >= here'[m]
    BY <2>2, <2>4
  <2>6. QED
    BY <2>2, <2>5 DEF KeptInv
<1>8. CASE UNCHANGED vars
  BY <1>8 DEF vars, disk, history, KeptInv, ReachedInv, Logged, Unglued, Recoverable
<1>9. QED
  BY <1>3, <1>4, <1>5, <1>6, <1>7, <1>8 DEF Next

LEMMA CrashInit == Init => CrashInv
<1>1. SUFFICES ASSUME Init PROVE CrashInv
  OBVIOUS
<1>2. Typed
  BY <1>1, TypedInit
<1>3. TornLast(wal)
  BY <1>1 DEF Init, TornLast
<1>4. HoldsInv
  BY <1>1, ThreadsAssumption DEF Init, HoldsInv, NoStates, Threads
<1>5. \A n \in Names : Recoverable(n) = 0
  <2>1. file = NoStates /\ ~\E i \in DOMAIN wal : TRUE
    BY <1>1 DEF Init
  <2>2. \A n \in Names : Replayed(file, wal)[n] = file[n]
    BY <2>1 DEF Replayed
  <2>3. QED
    BY <2>1, <2>2 DEF Recoverable, NoStates
<1>6. KeptInv
  BY <1>1, <1>5
  DEF Init, KeptInv, ReachedInv, Logged, Commit, NoStates, Threads
<1>7. QED
  BY <1>2, <1>3, <1>4, <1>6 DEF CrashInv

\* Even when the disk fails, the process that dies next leaves every save it
\* acknowledged where _load finds it, unless two lines were glued together or
\* recover() ran: for any number of names, threads, saves and crashes.
THEOREM FirstCrashLosesNothing == Spec => []FirstCrashSafe
<1>1. Init => CrashInv
  BY CrashInit
<1>2. CrashInv /\ [Next]_vars => CrashInv'
  BY TypedStep, HoldsStep, KeptStep DEF CrashInv
<1>3. CrashInv => FirstCrashSafe
  BY DEF CrashInv, KeptInv, FirstCrashSafe, Unglued
<1>4. QED
  BY <1>1, <1>2, <1>3, PTL DEF Spec
-----------------------------------------------------------------------------
(* AtomicState implements DurableMap.                                      *)

\* Nothing on the disk or in memory was never saved.
NotAhead ==
  /\ \A n \in Names : file[n] <= newest[n] /\ mem[n] <= newest[n]
  /\ tmp # NoFile => \A n \in Names : tmp[n] <= newest[n]
  /\ \A i \in DOMAIN wal : IsGood(wal[i]) => wal[i].ver <= newest[wal[i].name]

LEMMA NotAheadStep ==
  ASSUME Typed, HoldsInv, NotAhead, [Next]_vars
  PROVE  NotAhead'
<1> USE DEF Typed, NotAhead
<1>1. /\ \A n \in Names : file[n] \in Nat /\ mem[n] \in Nat /\ newest[n] \in Nat
      /\ wal \in Seq(Entry \cup Bad)
      /\ file \in [Names -> Version] /\ mem \in [Names -> Version]
      /\ \A i \in DOMAIN wal : IsGood(wal[i]) => wal[i] \in Entry
      /\ \A e \in Entry : e.name \in Names /\ e.ver \in Nat /\ e # Torn
      /\ ~IsGood(Torn)
  BY DEF TypeOK, Version, Entry, Bad, IsGood, Torn
<1>nat. \A n \in Names : file[n] \in Nat /\ mem[n] \in Nat /\ newest[n] \in Nat
  BY <1>1
<1>tmp. ASSUME tmp # NoFile, NEW n \in Names PROVE tmp[n] \in Nat
  BY <1>tmp DEF TypeOK, Version
<1>2. ASSUME NEW t \in Threads, pc[t] \in {"append", "memory"}
      PROVE  t \in Savers /\ job[t] \in Entry /\ job[t].ver = newest[job[t].name]
  BY <1>2 DEF HoldsInv, PlacesOK, Threads
<1>3. ASSUME NEW line \in Entry \cup {Torn},
             line # Torn => line.ver = newest[line.name],
             wal' = AppendLine(wal, line), newest' = newest
      PROVE  \A i \in DOMAIN wal' : IsGood(wal'[i]) => wal'[i].ver <= newest'[wal'[i].name]
  <2>1. SUFFICES ASSUME NEW i \in DOMAIN wal', IsGood(wal'[i])
                 PROVE  wal'[i].ver <= newest[wal'[i].name]
    BY <1>3
  <2>2. wal'[i] = line \/ (i \in DOMAIN wal /\ wal'[i] = wal[i])
    BY <1>1, <1>3, <2>1, AppendLineLemma
  <2>3. CASE wal'[i] = line
    <3>1. line \in Entry /\ line.ver = newest[line.name]
      BY <1>1, <1>3, <2>1, <2>3
    <3>2. QED
      BY <1>1, <2>3, <3>1
  <2>4. CASE i \in DOMAIN wal /\ wal'[i] = wal[i]
    BY <2>1, <2>4
  <2>5. QED
    BY <2>2, <2>3, <2>4
<1>4. ASSUME NEW base \in [Names -> Version], NEW n \in Names, base[n] <= newest[n]
      PROVE  Replayed(base, wal)[n] <= newest[n]
  BY <1>1, <1>4, ReplayedLemma
<1>5. ASSUME NEW t \in Savers, NEW n \in Names, Save(t, n)
      PROVE  NotAhead'
  <2>1. /\ newest' = [newest EXCEPT ![n] = @ + 1]
        /\ UNCHANGED <<file, wal, tmp, mem>>
    BY <1>5 DEF Save, disk
  <2>2. \A m \in Names : newest'[m] \in Nat /\ newest[m] <= newest'[m]
    <3>1. \A m \in Names : newest'[m] = newest[m] \/ newest'[m] = newest[m] + 1
      BY <2>1 DEF TypeOK
    <3>2. QED
      BY <1>nat, <3>1
  <2>3. \A m \in Names, v \in Nat : v <= newest[m] => v <= newest'[m]
    BY <1>nat, <2>2
  <2>4. ASSUME NEW i \in DOMAIN wal, IsGood(wal[i])
        PROVE  wal[i].ver <= newest'[wal[i].name]
    <3>1. wal[i].name \in Names /\ wal[i].ver \in Nat
      BY <1>1, <2>4
    <3>2. QED
      BY <2>3, <2>4, <3>1
  <2>5. ASSUME NEW m \in Names
        PROVE  /\ file[m] <= newest'[m] /\ mem[m] <= newest'[m]
               /\ tmp # NoFile => tmp[m] <= newest'[m]
    <3>1. /\ file[m] <= newest[m] /\ mem[m] <= newest[m]
          /\ tmp # NoFile => tmp[m] <= newest[m]
      OBVIOUS
    <3>2. file[m] <= newest'[m] /\ mem[m] <= newest'[m]
      BY <1>nat, <2>3, <3>1
    <3>3. ASSUME tmp # NoFile PROVE tmp[m] <= newest'[m]
      BY <1>tmp, <2>3, <3>1, <3>3
    <3>4. QED
      BY <3>2, <3>3
  <2>6. QED
    BY <2>1, <2>4, <2>5
<1>6. ASSUME NEW t \in Recoverers, Recover(t)
      PROVE  NotAhead'
  <2>1. /\ mem' = [n \in Names |-> IF n \in Corrupted(mem) THEN 0 ELSE mem[n]]
        /\ UNCHANGED <<file, wal, tmp, newest>>
    BY <1>6 DEF Recover, disk
  <2>2. \A n \in Names : mem'[n] = 0 \/ mem'[n] = mem[n]
    BY <2>1
  <2>3. \A n \in Names : mem'[n] <= newest[n]
    BY <1>nat, <2>2
  <2>4. QED
    BY <2>1, <2>3
<1>7. ASSUME NEW t \in Threads, Step(t)
      PROVE  NotAhead'
  <2>1. CASE AppendWal(t)
    BY <1>2, <1>3, <2>1 DEF AppendWal, history
  <2>2. CASE AppendFails(t)
    <3>1. /\ job[t] \in Entry /\ job[t].ver = newest[job[t].name]
          /\ UNCHANGED <<file, tmp, mem, newest>>
      BY <1>2, <2>2 DEF AppendFails, history
    <3>2. wal' \in {wal, AppendLine(wal, Torn), AppendLine(wal, job[t])}
      BY <2>2 DEF AppendFails
    <3>3. \A i \in DOMAIN wal' : IsGood(wal'[i]) => wal'[i].ver <= newest'[wal'[i].name]
      BY <1>3, <3>1, <3>2
    <3>4. QED
      BY <3>1, <3>3
  <2>3. CASE UpdateMemory(t)
    <3>1. /\ job[t] \in Entry /\ job[t].ver = newest[job[t].name]
          /\ mem' = [mem EXCEPT ![job[t].name] = job[t].ver]
          /\ UNCHANGED <<file, wal, tmp, newest>>
      BY <1>2, <2>3 DEF UpdateMemory, disk, history
    <3>2. \A m \in Names : mem'[m] = mem[m] \/ mem'[m] = newest[m]
      BY <3>1 DEF TypeOK
    <3>3. QED
      BY <1>1, <3>1, <3>2
  <2>4. CASE WriteTmp(t)
    BY <2>4 DEF WriteTmp, history
  <2>5. CASE Rename(t)
    BY <2>5 DEF Rename, history
  <2>6. CASE ClearWal(t)
    BY <2>6 DEF ClearWal, history
  <2>7. CASE CommitFails(t) \/ RecoverReturns(t)
    BY <2>7 DEF CommitFails, RecoverReturns, disk, history
  <2>8. CASE SaveReturns(t)
    BY <2>8 DEF SaveReturns, disk
  <2>9. CASE ReadFile(t)
    BY <2>9 DEF ReadFile, Over, disk, history
  <2>10. CASE ReplayWal(t)
    <3>1. UNCHANGED <<file, wal, tmp, newest>>
      BY <2>10 DEF ReplayWal, disk, history
    <3>2. mem' = mem \/ mem' = Replayed(mem, wal)
      BY <2>10 DEF ReplayWal
    <3>3. \A m \in Names : Replayed(mem, wal)[m] <= newest[m]
      BY <1>1, <1>4
    <3>4. QED
      BY <3>1, <3>2, <3>3
  <2>11. CASE UnlinkWal(t)
    <3>1. UNCHANGED <<file, tmp, mem, newest>> /\ (wal' = wal \/ wal' = <<>>)
      BY <2>11 DEF UnlinkWal, history
    <3>2. QED
      BY <3>1
  <2>12. QED
    BY <1>7, <2>1, <2>2, <2>3, <2>4, <2>5, <2>6, <2>7, <2>8, <2>9, <2>10,
       <2>11 DEF Step
<1>8. CASE Crash
  <2>1. mem' = NoStates /\ UNCHANGED <<file, tmp, newest>>
    BY <1>8 DEF Crash
  <2>2. \A i \in DOMAIN wal' : IsGood(wal'[i]) => wal'[i].ver <= newest'[wal'[i].name]
    <3>1. CASE wal' = wal
      BY <2>1, <3>1
    <3>2. ASSUME NEW t \in Savers, pc[t] = "append", NEW line \in {Torn, job[t]},
                 wal' = AppendLine(wal, line)
          PROVE  \A i \in DOMAIN wal' :
                   IsGood(wal'[i]) => wal'[i].ver <= newest'[wal'[i].name]
      <4>1. job[t] \in Entry /\ job[t].ver = newest[job[t].name]
        BY <1>2, <3>2 DEF Threads
      <4>2. QED
        BY <1>3, <2>1, <3>2, <4>1
    <3>3. QED
      BY <1>8, <3>1, <3>2 DEF Crash
  <2>3. \A n \in Names : mem'[n] <= newest[n]
    BY <1>nat, <2>1 DEF NoStates
  <2>4. QED
    BY <2>1, <2>2, <2>3
<1>9. CASE Restart
  <2>1. UNCHANGED <<file, tmp, newest>> /\ (wal' = wal \/ wal' = <<>>)
    BY <1>9 DEF Restart
  <2>2. PICK base \in {file, NoStates} : mem' = Replayed(base, wal) \/ mem' = base
    BY <1>9 DEF Restart
  <2>3. NoStates \in [Names -> Version] /\ \A m \in Names : NoStates[m] = 0
    BY MaxVerAssumption DEF NoStates, Version
  <2>4. base \in [Names -> Version] /\ \A m \in Names : base[m] <= newest[m]
    <3>1. CASE base = file
      BY <1>1, <3>1
    <3>2. CASE base = NoStates
      BY <1>nat, <2>3, <3>2
    <3>3. QED
      BY <2>2, <3>1, <3>2
  <2>5. \A m \in Names : mem'[m] <= newest[m]
    BY <1>4, <2>2, <2>4
  <2>6. QED
    BY <2>1, <2>5
<1>10. CASE UNCHANGED vars
  BY <1>10 DEF vars, disk, history
<1>11. QED
  BY <1>5, <1>6, <1>7, <1>8, <1>9, <1>10 DEF Next

\* What one step does to the map that callers see.
LEMMA MapStep ==
  ASSUME IOErrors = FALSE, Recoverers = {}, IInv, HoldsInv, NotAhead, [Next]_vars
  PROVE  [Durable!Next]_Durable!dvars
<1> USE DEF IInv
<1>1. /\ Threads = Savers
      /\ \A t \in Savers : /\ pc[t] \in Locked \cup {"idle"}
                           /\ pc[t] # "idle" => /\ lock = t /\ up
                                                /\ job[t] \in Entry
                                                /\ job[t].ver = newest[job[t].name]
      /\ \A e \in Entry : e.name \in Names
  BY ThreadsAssumption DEF Threads, PlacesOK, LockInv, Entry
<1>2. ASSUME NEW t \in Savers, NEW n \in Names, Save(t, n)
      PROVE  Durable!Begin(n)
  BY <1>2 DEF Save, Durable!Begin
<1>3. ASSUME NEW t \in Savers, Step(t)
      PROVE  [Durable!Next]_Durable!dvars
  <2>1. CASE UpdateMemory(t)
    <3>1. /\ up /\ job[t].name \in Names
          /\ mem' = [mem EXCEPT ![job[t].name] = newest[job[t].name]]
          /\ UNCHANGED <<newest, acked, up>>
      BY <1>1, <2>1 DEF UpdateMemory, history
    <3>2. Durable!Show(job[t].name)
      BY <3>1 DEF Durable!Show
    <3>3. QED
      BY <3>1, <3>2 DEF Durable!Next
  <2>2. CASE SaveReturns(t)
    <3>1. pc[t] = "return" /\ job[t].name \in Names
      BY <1>1, <2>2 DEF SaveReturns
    <3>2. up /\ mem[job[t].name] = job[t].ver /\ job[t].ver = newest[job[t].name]
      BY <1>1, <3>1 DEF CommitInv
    <3>3. /\ acked' = [acked EXCEPT ![job[t].name] = newest[job[t].name]]
          /\ UNCHANGED <<newest, up, mem>>
      BY <2>2, <3>2 DEF SaveReturns
    <3>4. Durable!Return(job[t].name)
      BY <3>2, <3>3 DEF Durable!Return
    <3>5. QED
      BY <3>1, <3>4 DEF Durable!Next
  <2>3. CASE \/ AppendWal(t) \/ AppendFails(t) \/ WriteTmp(t) \/ Rename(t)
             \/ ClearWal(t) \/ CommitFails(t) \/ UnlinkWal(t) \/ RecoverReturns(t)
    <3>1. UNCHANGED <<newest, acked, up, mem>>
      BY <2>3 DEF AppendWal, AppendFails, WriteTmp, Rename, ClearWal, CommitFails,
         UnlinkWal, RecoverReturns, history
    <3>2. QED
      BY <3>1 DEF Durable!dvars
  <2>4. ~ReadFile(t) /\ ~ReplayWal(t)
    BY <1>1 DEF ReadFile, ReplayWal, Locked, Commit
  <2>5. QED
    BY <1>3, <2>1, <2>2, <2>3, <2>4 DEF Step
<1>4. CASE Crash
  BY <1>4 DEF Crash, NoStates, Durable!Next, Durable!Crash
<1>5. CASE Restart
  <2>1. /\ ~up /\ up' = TRUE /\ mem' = Replayed(file, wal)
        /\ UNCHANGED <<newest, acked>>
    BY <1>5 DEF Restart
  <2>2. mem' \in [Names -> Durable!Version]
    <3>1. TypeOK'
      BY TypedStep DEF Typed
    <3>2. QED
      BY <3>1 DEF TypeOK, Version, Durable!Version
  <2>3. \A n \in Names : acked[n] <= mem'[n] /\ mem'[n] <= newest[n]
    <3>1. IInv' /\ NotAhead'
      BY InvStep, NotAheadStep DEF Typed
    <3>2. /\ \A n \in Names : mem'[n] >= acked'[n]
          /\ \A n \in Names : mem'[n] <= newest'[n]
      BY <2>1, <3>1 DEF DiskInv, NotAhead
    <3>3. \A n \in Names : mem'[n] \in Nat /\ acked[n] \in Nat
      BY <2>2, MaxVerAssumption DEF Durable!Version, TypeOK, Version
    <3>4. QED
      BY <2>1, <3>2, <3>3
  <2>4. Durable!Restart
    BY <2>1, <2>2, <2>3 DEF Durable!Restart
  <2>5. QED
    BY <2>4 DEF Durable!Next
<1>6. CASE UNCHANGED vars
  BY <1>6 DEF vars, history, Durable!dvars
<1>7. QED
  BY <1>1, <1>2, <1>3, <1>4, <1>5, <1>6 DEF Next, Durable!Next

\* With disks that do not fail and without recover(), a save that returned is
\* never forgotten and a restarted process sees, for each name, the last save
\* that returned or a later one: AtomicState implements DurableMap.
THEOREM ImplementsDurableMap ==
  ASSUME IOErrors = FALSE, Recoverers = {}
  PROVE  Spec => RefinesDurableMap
<1> DEFINE MapInv == IInv /\ TornLast(wal) /\ HoldsInv /\ NotAhead
<1>1. Init => MapInv
  BY StartInv, CrashInit, ThreadsAssumption, NoFileAssumption
  DEF CrashInv, Init, NotAhead, NoStates
<1>2. MapInv /\ [Next]_vars => MapInv'
  BY InvStep, HoldsStep, NotAheadStep DEF IInv, Typed
<1>3. Init => Durable!Init
  BY DEF Init, NoStates, Durable!Init
<1>4. MapInv /\ [Next]_vars => [Durable!Next]_Durable!dvars
  BY MapStep
<1> HIDE DEF MapInv
<1>5. QED
  BY <1>1, <1>2, <1>3, <1>4, PTL DEF Spec, RefinesDurableMap, Durable!Spec
=============================================================================
