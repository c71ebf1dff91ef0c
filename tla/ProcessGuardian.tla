-------------------------- MODULE ProcessGuardian --------------------------
(***************************************************************************)
(* gui/process_guardian.py: a thread that watches the primary process and  *)
(* replaces it when it dies, and two calls made from other threads:        *)
(* stop() and restart_primary().                                           *)
(*                                                                         *)
(* The monitor takes no lock.  A call kills the primary in two steps: it   *)
(* asks the process to terminate and waits, then it forgets whatever       *)
(* self._primary_process is by then.  The monitor may see the death in     *)
(* between and put another process in its place.                           *)
(*                                                                         *)
(* The module begins after start(): a primary and the backups run.         *)
(***************************************************************************)
EXTENDS Naturals, Sequences

CONSTANTS
  NoProc,       \* self._primary_process is None
  Backups,      \* self._backup_count
  MaxRestarts,  \* self._max_restarts
  MaxProcs,     \* bound: processes ever started
  Restarter     \* may restart_primary() be called?

ASSUME GuardianBounds == /\ Backups \in Nat
                         /\ MaxRestarts \in Nat
                         /\ MaxProcs \in Nat
                         /\ Backups < MaxProcs
                         /\ Restarter \in BOOLEAN
                         /\ NoProc \notin Nat

VARIABLES
  alive,     \* the processes that run
  spawned,   \* number of processes started
  primary,   \* self._primary_process
  backups,   \* self._backup_processes
  restarts,  \* len(self._restart_times), within the window
  guarding,  \* self._running
  thread,    \* where the monitor and the two calls are
  victim,    \* the process a call waits for
  turn,      \* how far stop() is in the list of backups
  slipped    \* processes that got out of stop()'s reach

guardianVars == <<alive, spawned, primary, backups, restarts, guarding, thread,
                  victim, turn, slipped>>

Procs == 1..MaxProcs
Callers == {"stop", "restart"}

GuardianTypeOK ==
  /\ alive \subseteq Procs
  /\ spawned \in 0..MaxProcs
  /\ primary \in Procs \cup {NoProc}
  /\ backups \in Seq(Procs)
  /\ restarts \in 0..MaxRestarts
  /\ guarding \in BOOLEAN
  /\ thread \in [Callers \cup {"monitor"} ->
                   {"idle", "kill", "wait", "start", "backups", "join", "done",
                    "test", "poll", "crash", "spare", "over"}]
  /\ victim \in [Callers -> Procs \cup {NoProc}]
  /\ turn \in 1..(MaxProcs + 1)
  /\ slipped \subseteq Procs

GuardianInit ==
  /\ alive = 1..(Backups + 1)
  /\ spawned = Backups + 1
  /\ primary = 1
  /\ backups = [i \in 1..Backups |-> i + 1]
  /\ restarts = 0
  /\ guarding = TRUE
  /\ thread = [t \in Callers \cup {"monitor"} |->
                 IF t = "monitor" THEN "test" ELSE "idle"]
  /\ victim = [t \in Callers |-> NoProc]
  /\ turn = 1
  /\ slipped = {}

MovesTo(t, p) == thread' = [thread EXCEPT ![t] = p]

\* stop() has dealt with the primary; it comes yet to position i of the list.
Late     == thread["stop"] \in {"backups", "join", "done"}
Ahead(i) == thread["stop"] \notin {"join", "done"} /\ (Late => i >= turn)

\* A process slips: that of a primary that runs, when another takes its place
\* or it is forgotten; a new primary, when stop() has dealt with the old one.
Slips(ps)   == slipped' = slipped \cup ps
Dropped     == {primary} \cap alive
Installs(p) == /\ primary' = p
               /\ Slips(Dropped \cup IF Late THEN {p} ELSE {})

\* Popen: a new process runs, or it raises and nothing changes.
New == spawned + 1
Popen == /\ spawned < MaxProcs
         /\ spawned' = New
         /\ alive' = alive \cup {New}

(***************************************************************************)
(* The monitor.                                                            *)
(***************************************************************************)

\* while self._running
Test ==
  /\ thread["monitor"] = "test"
  /\ MovesTo("monitor", IF guarding THEN "poll" ELSE "over")
  /\ UNCHANGED <<alive, spawned, primary, backups, restarts, guarding, victim,
                 turn, slipped>>

\* Fault: a primary that was started is taken to be alive.
PollNotNone ==
  /\ thread["monitor"] = "poll"
  /\ MovesTo("monitor", IF primary # NoProc THEN "test" ELSE "crash")
  /\ UNCHANGED <<alive, spawned, primary, backups, restarts, guarding, victim,
                 turn, slipped>>

\* _check_primary(), and the sleep when all is well.
Poll ==
  /\ thread["monitor"] = "poll"
  /\ MovesTo("monitor", IF primary \in alive THEN "test" ELSE "crash")
  /\ UNCHANGED <<alive, spawned, primary, backups, restarts, guarding, victim,
                 turn, slipped>>

\* _handle_crash() after its callback: the budget is spent, or the first
\* backup becomes the primary, or a new primary is started.
GiveUp ==
  /\ thread["monitor"] = "crash"
  /\ restarts = MaxRestarts
  /\ MovesTo("monitor", "test")
  /\ UNCHANGED <<alive, spawned, primary, backups, restarts, guarding, victim,
                 turn, slipped>>

\* The first backup becomes the primary.  The list that stop() walks by position
\* moves up by one.
Skipped  == {backups[i] : i \in {turn} \cap 2..Len(backups)}
Promotes == /\ backups' = Tail(backups)
            /\ primary' = Head(backups)
            /\ Slips(Dropped \cup IF Late THEN {Head(backups)} \cup Skipped ELSE {})

\* Fault: the budget is not looked at.
PromoteUncounted ==
  /\ thread["monitor"] = "crash"
  /\ backups # <<>>
  /\ restarts' = restarts + 1
  /\ Promotes
  /\ MovesTo("monitor", "spare")
  /\ UNCHANGED <<alive, spawned, guarding, victim, turn>>

PromoteBackup ==
  /\ thread["monitor"] = "crash"
  /\ restarts < MaxRestarts
  /\ backups # <<>>
  /\ restarts' = restarts + 1
  /\ Promotes
  /\ MovesTo("monitor", "spare")
  /\ UNCHANGED <<alive, spawned, guarding, victim, turn>>

StartSpare ==
  /\ thread["monitor"] = "spare"
  /\ \/ /\ Popen
        /\ backups' = Append(backups, New)
        /\ Slips(IF Ahead(Len(backups')) THEN {} ELSE {New})
     \/ UNCHANGED <<alive, spawned, backups, slipped>>
  /\ MovesTo("monitor", "test")
  /\ UNCHANGED <<primary, restarts, guarding, victim, turn>>

RestartPrimary ==
  /\ thread["monitor"] = "crash"
  /\ restarts < MaxRestarts
  /\ backups = <<>>
  /\ restarts' = restarts + 1
  /\ \/ Popen /\ Installs(New)
     \/ UNCHANGED <<alive, spawned, primary, slipped>>
  /\ MovesTo("monitor", "test")
  /\ UNCHANGED <<backups, guarding, victim, turn>>

\* The restarts leave the window.
WindowPasses ==
  /\ restarts > 0
  /\ restarts' = 0
  /\ UNCHANGED <<alive, spawned, primary, backups, guarding, thread, victim,
                 turn, slipped>>

(***************************************************************************)
(* stop() and restart_primary().                                           *)
(***************************************************************************)

BeginStop ==
  /\ thread["stop"] = "idle"
  /\ guarding' = FALSE
  /\ MovesTo("stop", "kill")
  /\ UNCHANGED <<alive, spawned, primary, backups, restarts, victim, turn, slipped>>

BeginRestart ==
  /\ Restarter
  /\ thread["restart"] \in {"idle", "done"}
  /\ MovesTo("restart", "kill")
  /\ UNCHANGED <<alive, spawned, primary, backups, restarts, guarding, victim, turn, slipped>>

AfterKill(t) == IF t = "stop" THEN "backups" ELSE "start"

\* _kill_primary(): ask the primary to terminate, then wait for it.
Terminate(t) ==
  /\ thread[t] = "kill"
  /\ IF primary = NoProc
     THEN MovesTo(t, AfterKill(t)) /\ UNCHANGED victim
     ELSE MovesTo(t, "wait") /\ victim' = [victim EXCEPT ![t] = primary]
  /\ UNCHANGED <<alive, spawned, primary, backups, restarts, guarding, turn, slipped>>

\* The process asked to terminate has ended; what self._primary_process holds
\* by now is forgotten.
Forget(t) ==
  /\ thread[t] = "wait"
  /\ victim[t] \notin alive
  /\ primary' = NoProc
  /\ Slips(Dropped)
  /\ victim' = [victim EXCEPT ![t] = NoProc]
  /\ MovesTo(t, AfterKill(t))
  /\ UNCHANGED <<alive, spawned, backups, restarts, guarding, turn>>

\* It has not ended in time: what self._primary_process holds by now is killed
\* and forgotten.  If that is None, kill() raises and the call ends there: stop()
\* does not come to the backups.
WaitExpires(t) ==
  /\ thread[t] = "wait"
  /\ victim[t] \in alive
  /\ alive' = alive \ {primary}
  /\ primary' = NoProc
  /\ Slips(IF primary = NoProc /\ t = "stop" THEN alive ELSE {})
  /\ victim' = [victim EXCEPT ![t] = NoProc]
  /\ MovesTo(t, IF primary = NoProc THEN "done" ELSE AfterKill(t))
  /\ UNCHANGED <<spawned, backups, restarts, guarding, turn>>

\* restart_primary() starts the new primary.
StartAnew ==
  /\ thread["restart"] = "start"
  /\ \/ Popen /\ Installs(New)
     \/ UNCHANGED <<alive, spawned, primary, slipped>>
  /\ MovesTo("restart", "done")
  /\ UNCHANGED <<backups, restarts, guarding, victim, turn>>

\* _kill_backups(): the list is walked by position, then cleared.
KillBackup ==
  /\ thread["stop"] = "backups"
  /\ turn <= Len(backups)
  /\ alive' = alive \ {backups[turn]}
  /\ turn' = turn + 1
  /\ UNCHANGED <<spawned, primary, backups, restarts, guarding, thread, victim, slipped>>

\* Fault: the last backup is not killed.
ClearBackupsEarly ==
  /\ thread["stop"] = "backups"
  /\ turn >= Len(backups)
  /\ backups' = <<>>
  /\ MovesTo("stop", "join")
  /\ UNCHANGED <<alive, spawned, primary, restarts, guarding, victim, turn, slipped>>

ClearBackups ==
  /\ thread["stop"] = "backups"
  /\ turn > Len(backups)
  /\ backups' = <<>>
  /\ MovesTo("stop", "join")
  /\ UNCHANGED <<alive, spawned, primary, restarts, guarding, victim, turn, slipped>>

\* The thread is joined, or five seconds pass.
Join ==
  /\ thread["stop"] = "join"
  /\ MovesTo("stop", "done")
  /\ UNCHANGED <<alive, spawned, primary, backups, restarts, guarding, victim,
                 turn, slipped>>

\* A process ends, asked to or not.
ProcessEnds(p) ==
  /\ p \in alive
  /\ alive' = alive \ {p}
  /\ UNCHANGED <<spawned, primary, backups, restarts, guarding, thread, victim,
                 turn, slipped>>

Monitor      == Test \/ Poll \/ GiveUp \/ PromoteBackup \/ StartSpare \/ RestartPrimary
Kill(t)      == Terminate(t) \/ Forget(t) \/ WaitExpires(t)
StopSteps    == Kill("stop") \/ KillBackup \/ ClearBackups \/ Join
RestartSteps == Kill("restart") \/ StartAnew

GuardianNext ==
  \/ Monitor \/ WindowPasses
  \/ BeginStop \/ StopSteps
  \/ BeginRestart \/ RestartSteps
  \/ \E p \in Procs : ProcessEnds(p)

GuardianSpec == GuardianInit /\ [][GuardianNext]_guardianVars

\* Threads are scheduled, every wait has a deadline, and Popen does not raise
\* for ever.
GuardianFairness == /\ WF_guardianVars(Monitor)
                    /\ WF_guardianVars(StopSteps)
                    /\ WF_guardianVars(RestartSteps)
                    /\ SF_guardianVars(RestartPrimary /\ spawned' = New)

GuardianFairSpec == GuardianSpec /\ GuardianFairness

(***************************************************************************)
(* Properties.                                                             *)
(***************************************************************************)

\* "Stop the guardian and all processes." (process_guardian.py:68)  When stop()
\* has returned, a process runs only if it slipped: it was put in place after
\* stop() had passed (lines 87, 189, 203), or was the primary when another took its
\* place or a call forgot it (lines 87, 125, 189), or the list moved while stop()
\* walked it (line 188), or kill() raised (line 124).  Nothing else is left,
\* whatever the monitor replaces before stop() and beside it.
OnlySlippedRemain == thread["stop"] = "done" => alive \subseteq slipped

\* A primary that has died is replaced, unless stop() is called, the restarts
\* of the window are spent, or no process can be started any more.
PrimaryReplaced ==
  primary \notin alive ~> \/ primary \in alive
                          \/ ~guarding
                          \/ restarts = MaxRestarts
                          \/ spawned = MaxProcs
=============================================================================
