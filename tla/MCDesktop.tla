------------------------------ MODULE MCDesktop ------------------------------
(***************************************************************************)
(* TLC instances of six components of the desktop program.  They share no  *)
(* state, so they are checked side by side: every behaviour runs one of    *)
(* them, and the others keep their initial state.                          *)
(***************************************************************************)
EXTENDS AtomicState, ProcessGuardian, SnapshotScheduler,
        MultiVMManager, MultiVMBridge, MetricsStore, TLC

\* The names of the schedules: "sched_nightly_full_..." begins with
\* "sched_nightly_", and sorts after "sched_nightly_<year>...".
CONSTANTS nightly, nightly_full, at_stop
Prefixed == [s \in Schedules |->
               IF s = nightly THEN {nightly, nightly_full} \cap Schedules ELSE {s}]
Sorted   == [s \in Schedules |-> IF s = nightly_full THEN 1 ELSE 0]

VARIABLE part  \* the component that runs

desktopVars == <<part, vars, guardianVars, snapshotVars,
                 managerVars, tableVars, metricsVars>>

InState    == /\ part = "state"
              /\ UNCHANGED <<part, guardianVars, snapshotVars, managerVars, tableVars,
                             metricsVars>>
InGuardian == /\ part = "guardian"
              /\ UNCHANGED <<part, vars, snapshotVars, managerVars, tableVars,
                             metricsVars>>
InSnapshot == /\ part = "snapshot"
              /\ UNCHANGED <<part, vars, guardianVars, managerVars, tableVars,
                             metricsVars>>
InManager  == /\ part = "manager"
              /\ UNCHANGED <<part, vars, guardianVars, snapshotVars, tableVars,
                             metricsVars>>
InTable    == /\ part = "table"
              /\ UNCHANGED <<part, vars, guardianVars, snapshotVars, managerVars,
                             metricsVars>>
InMetrics  == /\ part = "metrics"
              /\ UNCHANGED <<part, vars, guardianVars, snapshotVars, managerVars,
                             tableVars>>

\* A table of bridges differs in its mode from the start; for the other
\* components one mode is enough.
DesktopInit ==
  /\ part \in {"state", "guardian", "snapshot", "manager", "table", "metrics"}
  /\ Init /\ GuardianInit /\ SnapshotInit
  /\ ManagerInit /\ TableInit /\ MetricsInit
  /\ part = "table" \/ mode = "switch"

DesktopNext ==
  \/ \E t \in Savers, n \in Names : InState /\ Save(t, n)
  \/ \E t \in Recoverers : InState /\ Recover(t)
  \/ \E t \in Threads : \/ InState /\ AppendWal(t)
                        \/ InState /\ AppendFails(t)
                        \/ InState /\ UpdateMemory(t)
                        \/ InState /\ WriteTmp(t)
                        \/ InState /\ Rename(t)
                        \/ InState /\ ClearWal(t)
                        \/ InState /\ CommitFails(t)
                        \/ InState /\ SaveReturns(t)
                        \/ InState /\ ReadFile(t)
                        \/ InState /\ ReplayWal(t)
                        \/ InState /\ UnlinkWal(t)
                        \/ InState /\ RecoverReturns(t)
  \/ InState /\ Crash
  \/ InState /\ Restart
  \/ InGuardian /\ Test
  \/ InGuardian /\ Poll
  \/ InGuardian /\ GiveUp
  \/ InGuardian /\ PromoteBackup
  \/ InGuardian /\ StartSpare
  \/ InGuardian /\ RestartPrimary
  \/ InGuardian /\ WindowPasses
  \/ InGuardian /\ BeginStop
  \/ InGuardian /\ BeginRestart
  \/ \E t \in Callers : \/ InGuardian /\ Terminate(t)
                        \/ InGuardian /\ Forget(t)
                        \/ InGuardian /\ WaitExpires(t)
  \/ InGuardian /\ KillBackup
  \/ InGuardian /\ ClearBackups
  \/ InGuardian /\ Join
  \/ InGuardian /\ StartAnew
  \/ \E p \in Procs : InGuardian /\ ProcessEnds(p)
  \/ \E s \in Schedules : \/ InSnapshot /\ Execute(s)
                          \/ InSnapshot /\ ExecuteFails(s)
                          \/ InSnapshot /\ TriggerManual(s)
                          \/ InSnapshot /\ RemoveSchedule(s)
                          \/ InSnapshot /\ AddSchedule(s)
                          \/ InSnapshot /\ UpdateSchedule(s)
  \/ InSnapshot /\ IntervalTimer
  \/ \E isUp \in BOOLEAN : InSnapshot /\ PollVM(isUp)
  \/ InSnapshot /\ TimePasses
  \/ InSnapshot /\ TimeSetBack
  \/ \E v \in VMs : \/ InManager /\ AddVM(v)
                    \/ InManager /\ UpdateVM(v)
                    \/ InManager /\ StartVM(v)
                    \/ InManager /\ StopVM(v)
                    \/ InManager /\ RemoveVM(v)
                    \/ InManager /\ IsRunning(v)
                    \/ InManager /\ PauseVM(v)
                    \/ InManager /\ ResumeVM(v)
                    \/ InManager /\ OtherSaves(v)
                    \/ \E w \in VMs : InManager /\ ImportVM(v, w)
  \/ InManager /\ AddRefused
  \/ InManager /\ OtherStarts
  \/ InManager /\ PollStatus
  \/ InManager /\ RestartManager
  \/ \E q \in Launched : InManager /\ QEMUExits(q)
  \/ \E m \in {"switch", "multi"} : InTable /\ SetMode(m)
  \/ \E v \in Machines : \/ InTable /\ AddStarted(v)
                         \/ InTable /\ AddLazily(v)
                         \/ InTable /\ RemoveMachine(v)
                         \/ InTable /\ AddAndSwitch(v)
                         \/ InTable /\ SwitchReference(v)
                         \/ \E known \in BOOLEAN : InTable /\ SwitchOver(v, known)
  \/ \E b \in BridgeIds : InTable /\ EnterLoop(b)
  \/ \E lag \in 0..MaxLag : InMetrics /\ InsertSample(lag)
  \/ InMetrics /\ Downsample
  \/ InMetrics /\ ClockTicks

\* The fairness each component assumes.
DesktopSpec ==
  /\ DesktopInit /\ [][DesktopNext]_desktopVars
  /\ \A t \in Threads : WF_desktopVars(InState /\ Step(t))
  /\ WF_desktopVars(InGuardian /\ Monitor)
  /\ WF_desktopVars(InGuardian /\ StopSteps)
  /\ WF_desktopVars(InGuardian /\ RestartSteps)
  /\ SF_desktopVars(InGuardian /\ RestartPrimary /\ spawned' = New)

\* Every variable keeps its type.
DesktopTypeOK ==
  /\ TypeOK /\ GuardianTypeOK /\ SnapshotTypeOK
  /\ ManagerTypeOK /\ TableTypeOK /\ MetricsTypeOK
=============================================================================
