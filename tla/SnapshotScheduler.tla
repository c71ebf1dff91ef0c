------------------------- MODULE SnapshotScheduler -------------------------
(***************************************************************************)
(* gui/snapshot_scheduler.py: snapshots of a disk made by schedules, and   *)
(* the retention that deletes the old ones.                                *)
(*                                                                         *)
(* Everything runs in the thread of the desktop's timers.  qemu-img may    *)
(* fail to make, to list or to delete a snapshot.  A snapshot is named     *)
(* sched_<schedule>_<local time>, and retention knows the snapshots of a   *)
(* schedule only by that prefix and their age only by the order of names.  *)
(* So Matches[s] is the set of schedules whose names s takes for its own,  *)
(* and Rank orders their names: "sched_a_b_..." starts with "sched_a_" and *)
(* sorts after every "sched_a_<year>...".  A schedule whose name has a     *)
(* space in it does not know its own snapshots: the list of qemu-img is    *)
(* split at spaces.                                                        *)
(*                                                                         *)
(* Left out: the file of the schedules, two schedules of one name, more    *)
(* than one disk, and update_schedule() of other fields than enabled.      *)
(***************************************************************************)
EXTENDS Naturals, Sequences, FiniteSets, SequencesExt

CONSTANTS
  Schedules,   \* names of schedules
  OnStop,      \* those of type on_vm_stop; the others are of type interval
  Matches,     \* Matches[s]: the schedules whose snapshots match the prefix of s
  Rank,        \* Rank[s]: where the names of s sort among those
  Keep,        \* retention_count
  Interval,    \* interval_minutes
  Never,       \* last_run is empty
  MaxTime,     \* bound: the clock
  MaxSnaps,    \* bound: snapshots made
  MaxBack      \* bound: times the local time is set back

ASSUME SnapshotBounds == /\ Keep \in Nat \ {0}
                         /\ Interval \in Nat
                         /\ MaxTime \in Nat
                         /\ MaxSnaps \in Nat
                         /\ MaxBack \in Nat
                         /\ Never \notin Nat
ASSUME NamesAssumption == /\ OnStop \subseteq Schedules
                          /\ Matches \in [Schedules -> SUBSET Schedules]
                          /\ Rank \in [Schedules -> Nat]

VARIABLES
  listed,   \* self._schedules
  enabled,  \* those that are enabled
  lastRun,  \* last_run of each schedule
  snaps,    \* the snapshots on the disk
  clock,    \* datetime.now()
  backs,    \* how often the local time was set back
  vmWas,    \* self._vm_was_running
  due,      \* the schedules a timer's handler has still to execute
  madeBy,   \* the serial numbers of the snapshots each schedule has made
  behind    \* schedules whose last retention was not carried through

snapshotVars == <<listed, enabled, lastRun, snaps, clock, backs, vmWas, due, madeBy,
                  behind>>

Snapshot == [of : Schedules, stamp : 0..MaxTime, serial : 1..MaxSnaps]
Serial   == 1 + Cardinality(UNION {ToSet(madeBy[s]) : s \in Schedules})

SnapshotTypeOK ==
  /\ listed \subseteq Schedules
  /\ enabled \subseteq listed
  /\ lastRun \in [Schedules -> 0..MaxTime \cup {Never}]
  /\ snaps \subseteq Snapshot
  /\ clock \in 0..MaxTime
  /\ backs \in 0..MaxBack
  /\ vmWas \in BOOLEAN
  /\ due \subseteq Schedules
  /\ madeBy \in [Schedules -> Seq(1..MaxSnaps)]
  /\ behind \subseteq Schedules

SnapshotInit ==
  /\ listed = Schedules
  /\ enabled = Schedules
  /\ lastRun = [s \in Schedules |-> Never]
  /\ snaps = {}
  /\ clock = 0
  /\ backs = 0
  /\ vmWas = FALSE
  /\ due = {}
  /\ madeBy = [s \in Schedules |-> <<>>]
  /\ behind = {}

\* Fault: the names are not sorted in reverse.
BeforeAscending(x, y) ==
  \/ Rank[x.of] < Rank[y.of]
  \/ Rank[x.of] = Rank[y.of] /\ x.stamp < y.stamp
  \/ Rank[x.of] = Rank[y.of] /\ x.stamp = y.stamp /\ x.serial > y.serial

\* x comes before y when the names are sorted in reverse; of two snapshots
\* with one name the deletion meets the older one first.
Before(x, y) ==
  \/ Rank[x.of] > Rank[y.of]
  \/ Rank[x.of] = Rank[y.of] /\ x.stamp > y.stamp
  \/ Rank[x.of] = Rank[y.of] /\ x.stamp = y.stamp /\ x.serial > y.serial

\* to_delete: the snapshots s takes for its own, but for the first Keep.
Surplus(s, all) ==
  LET own == {x \in all : x.of \in Matches[s]}
  IN  {x \in own : Cardinality({y \in own : Before(y, x)}) >= Keep}

\* What is left of them: all when the list fails, else those whose deletion
\* fails; of one name the older ones go first.
Leaves(s, all, left) ==
  /\ left \subseteq Surplus(s, all)
  /\ \A x \in left, y \in Surplus(s, all) \ left :
       x.of = y.of /\ x.stamp = y.stamp => y.serial < x.serial

\* A snapshot of s is made now.
NewSnapshot(s) == [of |-> s, stamp |-> clock, serial |-> Serial]
Makes(s) == /\ Serial <= MaxSnaps
            /\ madeBy' = [madeBy EXCEPT ![s] = Append(@, Serial)]

\* _execute_schedule() when qemu-img makes the snapshot, with
\* _enforce_retention().
Execute(s) ==
  /\ s \in due
  /\ Makes(s)
  /\ LET all == snaps \cup {NewSnapshot(s)}
     IN  \E left \in SUBSET Surplus(s, all) :
           /\ Leaves(s, all, left)
           /\ snaps' = (all \ Surplus(s, all)) \cup left
           /\ behind' = IF left = {} THEN behind \ {s} ELSE behind \cup {s}
  /\ lastRun' = [lastRun EXCEPT ![s] = clock]
  /\ due' = due \ {s}
  /\ UNCHANGED <<listed, enabled, clock, backs, vmWas>>

\* create() returns False: nothing was made, or qemu-img was given up after a
\* minute and the snapshot is there after all.  last_run stays and there is no
\* retention.
ExecuteFails(s) ==
  /\ s \in due
  /\ due' = due \ {s}
  /\ \/ UNCHANGED <<snaps, madeBy, behind>>
     \/ /\ Makes(s)
        /\ snaps' = snaps \cup {NewSnapshot(s)}
        /\ behind' = behind \cup {s}
  /\ UNCHANGED <<listed, enabled, lastRun, clock, backs, vmWas>>

\* _check_interval_schedules()
IntervalTimer ==
  /\ due = {}
  /\ due' = {s \in enabled \ OnStop : \/ lastRun[s] = Never
                                      \/ clock >= lastRun[s] + Interval}
  /\ UNCHANGED <<listed, enabled, lastRun, snaps, clock, backs, vmWas, madeBy, behind>>

\* _poll_vm_state(): _is_vm_running() answers isUp.
PollVM(isUp) ==
  /\ due = {}
  /\ due' = IF vmWas /\ ~isUp THEN enabled \cap OnStop ELSE {}
  /\ vmWas' = isUp
  /\ UNCHANGED <<listed, enabled, lastRun, snaps, clock, backs, madeBy, behind>>

\* trigger_manual(), of a disabled schedule too.
TriggerManual(s) ==
  /\ due = {}
  /\ s \in listed
  /\ due' = {s}
  /\ UNCHANGED <<listed, enabled, lastRun, snaps, clock, backs, vmWas, madeBy, behind>>

\* remove_schedule(): the snapshots stay.
RemoveSchedule(s) ==
  /\ due = {}
  /\ listed' = listed \ {s}
  /\ enabled' = enabled \ {s}
  /\ UNCHANGED <<lastRun, snaps, clock, backs, vmWas, due, madeBy, behind>>

\* add_schedule() of a name used before.
AddSchedule(s) ==
  /\ due = {}
  /\ s \notin listed
  /\ listed' = listed \cup {s}
  /\ enabled' = enabled \cup {s}
  /\ lastRun' = [lastRun EXCEPT ![s] = Never]
  /\ UNCHANGED <<snaps, clock, backs, vmWas, due, madeBy, behind>>

\* update_schedule(enabled=...)
UpdateSchedule(s) ==
  /\ due = {}
  /\ s \in listed
  /\ enabled' \in {enabled \cup {s}, enabled \ {s}}
  /\ UNCHANGED <<listed, lastRun, snaps, clock, backs, vmWas, due, madeBy, behind>>

\* The surroundings: time passes, or is set back (the end of summer time).
TimePasses ==
  /\ clock < MaxTime
  /\ clock' = clock + 1
  /\ UNCHANGED <<listed, enabled, lastRun, snaps, backs, vmWas, due, madeBy, behind>>

TimeSetBack ==
  /\ backs < MaxBack
  /\ clock > 0
  /\ clock' = clock - 1
  /\ backs' = backs + 1
  /\ UNCHANGED <<listed, enabled, lastRun, snaps, vmWas, due, madeBy, behind>>

SnapshotNext ==
  \/ \E s \in Schedules : \/ Execute(s) \/ ExecuteFails(s) \/ TriggerManual(s)
                          \/ RemoveSchedule(s) \/ AddSchedule(s) \/ UpdateSchedule(s)
  \/ \E isUp \in BOOLEAN : PollVM(isUp)
  \/ IntervalTimer \/ TimePasses \/ TimeSetBack

SnapshotSpec == SnapshotInit /\ [][SnapshotNext]_snapshotVars

(***************************************************************************)
(* Properties.                                                             *)
(***************************************************************************)

\* The serial numbers of the last Keep snapshots s has made.
LastOf(s)  == {madeBy[s][i] : i \in {j \in DOMAIN madeBy[s] : j + Keep > Len(madeBy[s])}}
Present(s) == {x.serial : x \in {y \in snaps : y.of = s}}

\* "Retention: keep last N snapshots per schedule" (snapshot_scheduler.py:6).
\* As long as no two names are prefixes of each other and the local time, by
\* which names sort, is never set back: the last N a schedule has made are never
\* deleted, whatever qemu-img fails at, whatever other schedules do, and however
\* often the schedule was disabled, removed and added again.  And one retention
\* that is carried through leaves no others, those that earlier failures have
\* left included, if the schedule knows its own snapshots.
Apart(s) == \A t \in Schedules \ {s} : t \notin Matches[s] /\ s \notin Matches[t]
KeepsLastApart ==
  backs = 0 => \A s \in Schedules : Apart(s) =>
                 /\ LastOf(s) \subseteq Present(s)
                 /\ (s \in Matches[s] /\ s \notin behind) => Present(s) = LastOf(s)
=============================================================================
