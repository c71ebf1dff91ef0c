--------------------------- MODULE MultiVMManager ---------------------------
(***************************************************************************)
(* gui/multi_vm.py: the configurations of the virtual machines, one file   *)
(* each, and the QEMU processes this manager has launched.  A panel or     *)
(* headless_server.py calls it from one thread.                            *)
(*                                                                         *)
(* The manager may die between two calls, or while it writes a file: the   *)
(* file is then cut short and the next manager passes over it.  The next   *)
(* manager knows the files; it knows neither the processes that survived   *)
(* nor the ports that were handed out.                                     *)
(*                                                                         *)
(* The desktop program has two live managers over one directory, that of   *)
(* the dashboard (panels_multi_vm_dashboard.py:177) and that of the        *)
(* switcher (panels_vm_switcher.py:36).  This module is one of them; of    *)
(* the other it has what this one can meet: files written or deleted, and  *)
(* processes that listen on ports.                                         *)
(*                                                                         *)
(* Of a configuration only the QMP port and the status are kept; the SSH   *)
(* port is handed out in the same way.  The caps on memory and processors  *)
(* may refuse a VM, which changes nothing.                                 *)
(***************************************************************************)
EXTENDS Naturals

CONSTANTS
  VMs,          \* names
  Absent,       \* no such VM, or no such file
  NoQEMU,       \* no process
  FirstPort,    \* DEFAULT_QMP_PORT_BASE
  LastPort,     \* the last port tried
  MaxLaunches,  \* bound: processes ever launched
  MaxLives,     \* bound: managers ever started
  MaxOutside    \* bound: calls of update_vm() and steps of the other manager

ASSUME ManagerBounds == /\ FirstPort \in Nat \ {0}
                        /\ LastPort \in Nat
                        /\ FirstPort <= LastPort
                        /\ VMs # {}
                        /\ MaxLaunches \in Nat
                        /\ MaxLives \in Nat \ {0}
                        /\ MaxOutside \in Nat
                        /\ NoQEMU \notin Nat

VARIABLES
  configs,   \* self._configs
  files,     \* VM_CONFIGS_DIR
  tracked,   \* self._running
  qemus,     \* the processes launched that still run
  launches,  \* how many
  nextPort,  \* self._next_qmp_port
  lives,     \* managers started so far
  fresh,     \* VMs whose port this manager has allocated
  told,      \* VMs whose status came from a file or a caller, and was not set since
  outside    \* calls of update_vm() and steps of the other manager so far

managerVars == <<configs, files, tracked, qemus, launches, nextPort, lives, fresh, told,
                 outside>>

Ports    == FirstPort..LastPort
Launched == 1..MaxLaunches
Statuses == {"stopped", "running", "paused", "error"}
Config   == [port : Ports, status : Statuses]
NoLaunch == [vm |-> CHOOSE v \in VMs : TRUE, up |-> FALSE, life |-> 0, port |-> FirstPort]

ASSUME AbsentAssumption == Absent \notin Config

ManagerTypeOK ==
  /\ configs \in [VMs -> Config \cup {Absent}]
  /\ files \in [VMs -> Config \cup {Absent}]
  /\ tracked \in [VMs -> Launched \cup {NoQEMU}]
  /\ qemus \in [Launched -> [vm : VMs, up : BOOLEAN, life : 0..MaxLives, port : Ports]]
  /\ launches \in 0..MaxLaunches
  /\ nextPort \in FirstPort..(LastPort + 1)
  /\ lives \in 1..MaxLives
  /\ fresh \subseteq VMs
  /\ told \subseteq VMs
  /\ outside \in 0..MaxOutside

ManagerInit ==
  /\ configs = [v \in VMs |-> Absent]
  /\ files = [v \in VMs |-> Absent]
  /\ tracked = [v \in VMs |-> NoQEMU]
  /\ qemus = [q \in Launched |-> NoLaunch]
  /\ launches = 0
  /\ nextPort = FirstPort
  /\ lives = 1
  /\ fresh = {}
  /\ told = {}
  /\ outside = 0

Managed(v)  == configs[v] # Absent
InRunning(v) == tracked[v] # NoQEMU
Up(v)       == InRunning(v) /\ qemus[tracked[v]].up

\* A configuration changes and is saved.
Saved(v, config) == /\ configs' = [configs EXCEPT ![v] = config]
                    /\ files' = [files EXCEPT ![v] = config]
SavedStatus(v, s) == Saved(v, [configs[v] EXCEPT !.status = s])

(***************************************************************************)
(* Configurations.                                                         *)
(***************************************************************************)

\* _is_port_in_use(): a process listens there.
InUse(p)   == \E q \in Launched : qemus[q].up /\ qemus[q].port = p
Allocates(p) == /\ p \in Ports
                /\ p >= nextPort
                /\ ~InUse(p)
                /\ \A r \in nextPort..(p - 1) : InUse(r)

\* Fault: the next port to try stays the one just given.
AddVMSamePort(v) ==
  \E p \in Ports :
    /\ ~Managed(v)
    /\ Allocates(p)
    /\ nextPort' = p
    /\ Saved(v, [port |-> p, status |-> "stopped"])
    /\ fresh' = fresh \cup {v}
    /\ told' = told \ {v}
    /\ UNCHANGED <<tracked, qemus, launches, lives, outside>>

\* add_vm() of a configuration without a port.
AddVM(v) ==
  \E p \in Ports :
    /\ ~Managed(v)
    /\ Allocates(p)
    /\ nextPort' = p + 1
    /\ Saved(v, [port |-> p, status |-> "stopped"])
    /\ fresh' = fresh \cup {v}
    /\ told' = told \ {v}
    /\ UNCHANGED <<tracked, qemus, launches, lives, outside>>

\* add_vm() when the disk's path does not exist: the port is spent.
AddRefused ==
  \E p \in Ports :
    /\ Allocates(p)
    /\ nextPort' = p + 1
    /\ UNCHANGED <<configs, files, tracked, qemus, launches, lives, fresh, told, outside>>

\* import_config(): the copy of w keeps its port and its status.
ImportVM(v, w) ==
  /\ ~Managed(v)
  /\ Managed(w)
  /\ Saved(v, configs[w])
  /\ told' = told \cup {v}
  /\ UNCHANGED <<tracked, qemus, launches, nextPort, lives, fresh, outside>>

\* update_vm(): the caller may write any status, and of a VM that is not in
\* _running any port.
UpdateVM(v) ==
  \E config \in Config :
    /\ Managed(v)
    /\ outside < MaxOutside
    /\ outside' = outside + 1
    /\ InRunning(v) => config.port = configs[v].port
    /\ Saved(v, config)
    /\ fresh' = IF config.port = configs[v].port THEN fresh ELSE fresh \ {v}
    /\ told' = IF config.status = configs[v].status THEN told ELSE told \cup {v}
    /\ UNCHANGED <<tracked, qemus, launches, nextPort, lives>>

(***************************************************************************)
(* Processes.                                                              *)
(***************************************************************************)

\* Fault: a VM that runs is started once more.
StartVMTwice(v) ==
  /\ Managed(v)
  /\ launches < MaxLaunches
  /\ launches' = launches + 1
  /\ qemus' = [qemus EXCEPT ![launches + 1] =
                 [vm |-> v, up |-> TRUE, life |-> lives, port |-> configs[v].port]]
  /\ tracked' = [tracked EXCEPT ![v] = launches + 1]
  /\ SavedStatus(v, "running")
  /\ told' = told \ {v}
  /\ UNCHANGED <<nextPort, lives, fresh, outside>>

StartVM(v) ==
  /\ Managed(v)
  /\ ~Up(v)
  /\ \/ /\ launches < MaxLaunches
        /\ launches' = launches + 1
        /\ qemus' = [qemus EXCEPT ![launches + 1] =
                       [vm |-> v, up |-> TRUE, life |-> lives, port |-> configs[v].port]]
        /\ tracked' = [tracked EXCEPT ![v] = launches + 1]
        /\ SavedStatus(v, "running")
     \/ SavedStatus(v, "error") /\ UNCHANGED <<launches, qemus, tracked>>
  /\ told' = told \ {v}
  /\ UNCHANGED <<nextPort, lives, fresh, outside>>

\* The process has been waited for.
Ended(v) == /\ qemus' = [qemus EXCEPT ![tracked[v]] = NoLaunch]
            /\ tracked' = [tracked EXCEPT ![v] = NoQEMU]

\* stop_vm().  When even the killed process does not end in time the call
\* raises and nothing has changed.
StopVM(v) ==
  /\ Managed(v)
  /\ IF InRunning(v) THEN Ended(v) ELSE UNCHANGED <<qemus, tracked>>
  /\ SavedStatus(v, "stopped")
  /\ told' = told \ {v}
  /\ UNCHANGED <<launches, nextPort, lives, fresh, outside>>

\* remove_vm(): a VM in _running only with force=True, and stopped first.
RemoveVM(v) ==
  /\ Managed(v)
  /\ IF InRunning(v) THEN Ended(v) ELSE UNCHANGED <<qemus, tracked>>
  /\ Saved(v, Absent)
  /\ fresh' = fresh \ {v}
  /\ told' = told \ {v}
  /\ UNCHANGED <<launches, nextPort, lives, outside>>

\* is_running(): a process that has exited is forgotten.
Exited(v) == InRunning(v) /\ ~Up(v)

\* Fault: the status is left alone.
IsRunningSilent(v) ==
  /\ Managed(v)
  /\ Exited(v)
  /\ tracked' = [tracked EXCEPT ![v] = NoQEMU]
  /\ UNCHANGED <<configs, files, qemus, launches, nextPort, lives, fresh, told, outside>>

IsRunning(v) ==
  /\ Managed(v)
  /\ Exited(v)
  /\ SavedStatus(v, "stopped")
  /\ tracked' = [tracked EXCEPT ![v] = NoQEMU]
  /\ told' = told \ {v}
  /\ UNCHANGED <<qemus, launches, nextPort, lives, fresh, outside>>

PauseVM(v) ==
  /\ Managed(v)
  /\ Up(v)
  /\ SavedStatus(v, "paused")
  /\ told' = told \ {v}
  /\ UNCHANGED <<tracked, qemus, launches, nextPort, lives, fresh, outside>>

\* resume_vm() looks at the status only, not for a process.
ResumeVM(v) ==
  /\ Managed(v)
  /\ configs[v].status = "paused"
  /\ SavedStatus(v, "running")
  /\ told' = IF InRunning(v) THEN told \ {v} ELSE told
  /\ UNCHANGED <<tracked, qemus, launches, nextPort, lives, fresh, outside>>

\* poll_status(), over all VMs; only a status "running" is looked at anew when
\* no process is tracked.
Polled(v) ==
  IF Up(v)
  THEN IF configs[v].status = "paused" THEN "paused" ELSE "running"
  ELSE IF InRunning(v) \/ configs[v].status = "running" THEN "stopped"
  ELSE configs[v].status

PollStatus ==
  LET polled == [v \in VMs |-> IF Managed(v)
                                THEN [configs[v] EXCEPT !.status = Polled(v)]
                                ELSE Absent]
      Saves(v) == /\ Managed(v)
                  /\ ~Up(v)
                  /\ InRunning(v) \/ configs[v].status = "running"
  IN  /\ configs' = polled
      /\ files' = [v \in VMs |-> IF Saves(v) THEN polled[v] ELSE files[v]]
      /\ tracked' = [v \in VMs |-> IF Managed(v) /\ ~Up(v) THEN NoQEMU ELSE tracked[v]]
      /\ told' = {v \in told : Managed(v) /\ ~InRunning(v) /\ configs[v].status = "paused"}
      /\ UNCHANGED <<qemus, launches, nextPort, lives, fresh, outside>>

QEMUExits(q) ==
  /\ qemus[q].up
  /\ qemus' = [qemus EXCEPT ![q] = NoLaunch]
  /\ UNCHANGED <<configs, files, tracked, launches, nextPort, lives, fresh, told, outside>>

\* The manager dies, perhaps while it writes the file of torn, and the next
\* one loads the files.
RestartManager ==
  \E torn \in SUBSET VMs :
    /\ \A v, w \in torn : v = w
    /\ lives < MaxLives
    /\ lives' = lives + 1
    /\ files' = [v \in VMs |-> IF v \in torn THEN Absent ELSE files[v]]
    /\ configs' = files'
    /\ tracked' = [v \in VMs |-> NoQEMU]
    /\ nextPort' = FirstPort
    /\ fresh' = {}
    /\ told' = {v \in VMs : files'[v] # Absent}
    /\ UNCHANGED <<qemus, launches, outside>>

\* The other manager, in the same program, writes or deletes the file of v.
\* Only files that a later manager can load are of interest (a bound).
OtherSaves(v) ==
  /\ lives < MaxLives
  /\ outside < MaxOutside
  /\ outside' = outside + 1
  /\ \E file \in Config \cup {Absent} : files' = [files EXCEPT ![v] = file]
  /\ UNCHANGED <<configs, tracked, qemus, launches, nextPort, lives, fresh, told>>

\* It launches a process: this manager meets only the port it listens on.
OtherStarts ==
  /\ outside < MaxOutside
  /\ outside' = outside + 1
  /\ launches < MaxLaunches
  /\ launches' = launches + 1
  /\ \E p \in Ports :
       qemus' = [qemus EXCEPT ![launches + 1] = [NoLaunch EXCEPT !.up = TRUE, !.port = p]]
  /\ UNCHANGED <<configs, files, tracked, nextPort, lives, fresh, told>>

ManagerNext ==
  \/ \E v \in VMs : \/ AddVM(v) \/ UpdateVM(v) \/ StartVM(v) \/ StopVM(v)
                    \/ RemoveVM(v) \/ IsRunning(v) \/ PauseVM(v) \/ ResumeVM(v)
                    \/ OtherSaves(v)
  \/ \E v, w \in VMs : ImportVM(v, w)
  \/ AddRefused \/ OtherStarts \/ PollStatus \/ RestartManager
  \/ \E q \in Launched : QEMUExits(q)

ManagerSpec == ManagerInit /\ [][ManagerNext]_managerVars

(***************************************************************************)
(* Properties.                                                             *)
(***************************************************************************)

\* "QMP/SSH port auto-allocation to avoid conflicts" (multi_vm.py:239): two VMs
\* to which one and the same manager gave their ports, and whose ports no caller of
\* update_vm() has changed since, have different ones, whatever was added, refused,
\* removed, run and stopped in between.  It says nothing of two managers.
FreshPortsApart == \A v, w \in fresh : v # w => configs[v].port # configs[w].port

\* Every process this manager has launched and that still runs is the one it
\* tracks for its VM, so that it can stop it.  A VM may still run twice on one
\* disk: the manager knows neither what an earlier one has left behind nor what
\* the other one runs (lines 459, 510, 566).
LaunchedTracked ==
  \A q \in Launched : qemus[q].up /\ qemus[q].life = lives => tracked[qemus[q].vm] = q

\* Of a VM whose status this manager has set, a status running or paused and a
\* tracked process go together: none without the other, but for a process that
\* has exited unseen.  A status that a file or a caller of update_vm() brought
\* (lines 142, 408) may be wrong: resume_vm() makes a "running" of such a "paused"
\* without looking for a process, until poll_status() does (lines 540, 734).
StatusBacked ==
  \A v \in VMs \ told :
    Managed(v) => /\ configs[v].status \in {"running", "paused"} => InRunning(v)
                  /\ Up(v) => configs[v].status \in {"running", "paused"}
=============================================================================
