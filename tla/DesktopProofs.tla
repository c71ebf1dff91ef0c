---------------------------- MODULE DesktopProofs ----------------------------
(***************************************************************************)
(* The desktop program's machines, for any number of machines, ports,      *)
(* processes and bridges: the manager that launches them and the table of  *)
(* bridges that talk to them.                                              *)
(***************************************************************************)
EXTENDS MultiVMManager, MultiVMBridge, TLAPS

(***************************************************************************)
(* The manager.                                                            *)
(***************************************************************************)

\* What the proofs need of the types.
Process == [vm : VMs, up : BOOLEAN, life : 0..MaxLives, port : Nat]

Shapes ==
  /\ configs \in [VMs -> Config \cup {Absent}]
  /\ files \in [VMs -> Config \cup {Absent}]
  /\ tracked \in [VMs -> Launched \cup {NoQEMU}]
  /\ qemus \in [Launched -> Process]
  /\ launches \in 0..MaxLaunches
  /\ nextPort \in Nat
  /\ lives \in 1..MaxLives
  /\ fresh \subseteq VMs

\* The next port is beyond those this manager gave.
PortsBehind == \A v \in fresh : Managed(v) /\ configs[v].port < nextPort

\* No process was launched by a manager yet to come, or before it was numbered,
\* and one that runs is some machine's; those tracked have been launched.
InOrder ==
  /\ \A q \in Launched : /\ qemus[q].life <= lives
                         /\ q > launches => ~qemus[q].up
                         /\ qemus[q].up => qemus[q].vm \in VMs
  /\ \A v \in VMs : InRunning(v) => tracked[v] \in 1..launches

\* A process is tracked only for a machine that is there.
OnlyManaged == \A v \in VMs : InRunning(v) => Managed(v)

ManagerInv ==
  /\ Shapes /\ PortsBehind /\ InOrder
  /\ FreshPortsApart /\ LaunchedTracked /\ OnlyManaged /\ StatusBacked

LEMMA NoLaunchType ==
  NoLaunch \in [vm : VMs, up : BOOLEAN, life : 0..MaxLives, port : Ports]
BY ManagerBounds DEF NoLaunch, Ports

LEMMA NoLaunchLemma == NoLaunch \in Process /\ NoLaunch.life = 0 /\ ~NoLaunch.up
<1>1. NoLaunch.life = 0 /\ ~NoLaunch.up
  BY DEF NoLaunch
<1>2. Ports \subseteq Nat
  BY ManagerBounds DEF Ports
<1>3. QED
  BY <1>1, <1>2, NoLaunchType DEF Process

LEMMA ManagerInitInv == ManagerInit => ManagerInv
<1> SUFFICES ASSUME ManagerInit PROVE ManagerInv
  OBVIOUS
<1> USE ManagerBounds DEF ManagerInit
<1>1. NoLaunch \in Process /\ NoLaunch.life = 0 /\ ~NoLaunch.up
  BY NoLaunchLemma
<1>2. Shapes
  BY <1>1 DEF Shapes, Launched
<1>3. \A q \in Launched : qemus[q] = NoLaunch
  OBVIOUS
<1>4. InOrder /\ LaunchedTracked
  BY <1>1, <1>3 DEF InOrder, LaunchedTracked, InRunning
<1>5. PortsBehind /\ FreshPortsApart /\ OnlyManaged /\ StatusBacked
  BY DEF PortsBehind, FreshPortsApart, OnlyManaged, StatusBacked, Managed, InRunning
<1>6. QED
  BY <1>2, <1>4, <1>5 DEF ManagerInv

\* A process number is one, and NoQEMU is none.
LEMMA LaunchedNumbers == Launched \subseteq Nat /\ NoQEMU \notin Launched
BY ManagerBounds DEF Launched

\* Of a machine whose status the manager has set, it goes with the process.
Backed(v) ==
  Managed(v) => /\ configs[v].status \in {"running", "paused"} => InRunning(v)
                /\ Up(v) => configs[v].status \in {"running", "paused"}

\* What is not v's stays as it is, but for processes that exit.
Besides(v) ==
  \A w \in VMs : w # v => /\ configs'[w] = configs[w]
                          /\ tracked'[w] = tracked[w]
                          /\ Up(w)' => Up(w)
                          /\ w \in told <=> w \in told'

\* The statuses of the others stay backed.
LEMMA BackedFrame ==
  ASSUME StatusBacked, NEW v \in VMs, Besides(v), v \in told' \/ Backed(v)'
  PROVE  StatusBacked'
<1> SUFFICES ASSUME NEW w \in VMs, w \notin told', Managed(w)'
             PROVE  /\ configs'[w].status \in {"running", "paused"} => InRunning(w)'
                    /\ Up(w)' => configs'[w].status \in {"running", "paused"}
  BY DEF StatusBacked
<1>1. CASE w = v
  BY <1>1 DEF Backed
<1>2. CASE w # v
  <2>1. /\ configs'[w] = configs[w] /\ tracked'[w] = tracked[w] /\ (Up(w)' => Up(w))
        /\ w \notin told
    BY <1>2 DEF Besides
  <2>2. Managed(w) /\ (InRunning(w) => InRunning(w)')
    BY <2>1 DEF Managed, InRunning
  <2>3. /\ configs[w].status \in {"running", "paused"} => InRunning(w)
        /\ Up(w) => configs[w].status \in {"running", "paused"}
    BY <2>1, <2>2 DEF StatusBacked
  <2>4. QED
    BY <2>1, <2>2, <2>3
<1>3. QED
  BY <1>1, <1>2

\* A configuration that is saved with its port leaves the ports as they are.
LEMMA SameportKeeps ==
  ASSUME ManagerInv, NEW v \in VMs, Managed(v), NEW s \in Statuses, SavedStatus(v, s),
         nextPort' = nextPort, fresh' = fresh
  PROVE  /\ configs' \in [VMs -> Config \cup {Absent}] /\ files' \in [VMs -> Config \cup {Absent}]
         /\ configs'[v].status = s /\ Managed(v)'
         /\ \A w \in VMs : w # v => configs'[w] = configs[w]
         /\ PortsBehind' /\ FreshPortsApart'
<1> DEFINE c == [configs[v] EXCEPT !.status = s]
<1>1. configs[v] \in Config
  BY DEF ManagerInv, Shapes, Managed
<1>2. c \in Config /\ c.port = configs[v].port /\ c.status = s
  BY <1>1 DEF Config
<1>3. configs' = [configs EXCEPT ![v] = c] /\ files' = [files EXCEPT ![v] = c]
  BY DEF SavedStatus, Saved
<1> HIDE DEF c
<1>4. /\ configs' \in [VMs -> Config \cup {Absent}] /\ files' \in [VMs -> Config \cup {Absent}]
      /\ configs'[v] = c
      /\ \A w \in VMs : w # v => configs'[w] = configs[w]
  BY <1>2, <1>3 DEF ManagerInv, Shapes
<1>5. Managed(v)'
  BY <1>2, <1>4, AbsentAssumption DEF Managed
<1>6. \A w \in VMs : configs'[w].port = configs[w].port /\ (Managed(w) => Managed(w)')
  BY <1>2, <1>4, <1>5 DEF Managed
<1>7. PortsBehind' /\ FreshPortsApart'
  BY <1>6 DEF ManagerInv, Shapes, PortsBehind, FreshPortsApart
<1>8. QED
  BY <1>2, <1>4, <1>5, <1>7

LEMMA AddKeeps ==
  ASSUME ManagerInv, NEW v \in VMs, AddVM(v)
  PROVE  ManagerInv'
<1> USE ManagerBounds
<1>1. PICK p \in Ports :
        /\ ~Managed(v) /\ nextPort <= p /\ nextPort' = p + 1
        /\ Saved(v, [port |-> p, status |-> "stopped"])
        /\ fresh' = fresh \cup {v} /\ told' = told \ {v}
        /\ UNCHANGED <<tracked, qemus, launches, lives>>
  BY DEF AddVM, Allocates, Ports, ManagerInv, Shapes
<1> DEFINE c == [port |-> p, status |-> "stopped"]
<1>2. c \in Config /\ c.port = p /\ c.status = "stopped" /\ p \in Nat /\ nextPort \in Nat
  BY DEF Config, Statuses, Ports, ManagerInv, Shapes
<1>3. configs' = [configs EXCEPT ![v] = c] /\ files' = [files EXCEPT ![v] = c]
  BY <1>1 DEF Saved
<1> HIDE DEF c
<1>4. /\ configs'[v] = c /\ \A w \in VMs : w # v => configs'[w] = configs[w]
      /\ Managed(v)' /\ \A w \in VMs : Managed(w) => Managed(w)'
  BY <1>2, <1>3, AbsentAssumption DEF ManagerInv, Shapes, Managed
<1>5. Shapes'
  BY <1>1, <1>2, <1>3 DEF ManagerInv, Shapes
<1>6. v \notin fresh
  BY <1>1 DEF ManagerInv, PortsBehind
<1>7. \A w \in fresh : configs[w].port \in Nat /\ configs[w].port < nextPort /\ Managed(w)
  BY DEF ManagerInv, PortsBehind, Shapes, Managed, Config, Ports
<1>8. \A w \in fresh : w \in VMs /\ w # v /\ configs'[w] = configs[w]
  BY <1>4, <1>6 DEF ManagerInv, Shapes
<1>9. PortsBehind' /\ FreshPortsApart'
  BY <1>1, <1>2, <1>4, <1>7, <1>8 DEF ManagerInv, PortsBehind, FreshPortsApart, Managed
<1>10. InOrder' /\ LaunchedTracked' /\ OnlyManaged'
  BY <1>1, <1>4 DEF ManagerInv, InOrder, LaunchedTracked, OnlyManaged, InRunning
<1>11. StatusBacked'
  <2>1. ~InRunning(v)' /\ Besides(v)
    BY <1>1, <1>4 DEF ManagerInv, OnlyManaged, Besides, InRunning, Up
  <2>2. Backed(v)'
    BY <1>2, <1>4, <2>1 DEF Backed, Up
  <2>3. QED
    BY <2>1, <2>2, BackedFrame DEF ManagerInv
<1>12. QED
  BY <1>5, <1>9, <1>10, <1>11 DEF ManagerInv

LEMMA RefusedKeeps == ManagerInv /\ AddRefused => ManagerInv'
<1> SUFFICES ASSUME ManagerInv, AddRefused PROVE ManagerInv'
  OBVIOUS
<1> USE ManagerBounds
<1>1. PICK p \in Ports :
        /\ nextPort <= p /\ nextPort' = p + 1
        /\ UNCHANGED <<configs, files, tracked, qemus, launches, lives, fresh, told>>
  BY DEF AddRefused, Allocates, ManagerInv, Shapes, Ports
<1>2. p \in Nat /\ nextPort \in Nat
  BY DEF Ports, ManagerInv, Shapes
<1>3. \A w \in fresh : configs[w].port \in Nat /\ configs[w].port < nextPort /\ Managed(w)
  BY DEF ManagerInv, PortsBehind, Shapes, Managed, Config, Ports
<1>4. Shapes' /\ PortsBehind'
  BY <1>1, <1>2, <1>3 DEF ManagerInv, Shapes, PortsBehind, Managed
<1>5. QED
  BY <1>1, <1>4 DEF ManagerInv, InOrder, FreshPortsApart, LaunchedTracked, OnlyManaged,
                    StatusBacked, Managed, InRunning, Up

LEMMA ImportKeeps ==
  ASSUME ManagerInv, NEW v \in VMs, NEW w \in VMs, ImportVM(v, w)
  PROVE  ManagerInv'
<1>1. /\ ~Managed(v) /\ configs[w] \in Config
      /\ configs' = [configs EXCEPT ![v] = configs[w]] /\ files' = [files EXCEPT ![v] = configs[w]]
      /\ told' = told \cup {v}
      /\ UNCHANGED <<tracked, qemus, launches, nextPort, lives, fresh>>
  BY DEF ImportVM, Saved, Managed, ManagerInv, Shapes
<1>2. Shapes' /\ \A x \in VMs : x # v => configs'[x] = configs[x]
  BY <1>1 DEF ManagerInv, Shapes
<1>3. v \notin fresh /\ fresh \subseteq VMs
  BY <1>1 DEF ManagerInv, PortsBehind, Shapes
<1>4. PortsBehind' /\ FreshPortsApart'
  BY <1>1, <1>2, <1>3 DEF ManagerInv, PortsBehind, FreshPortsApart, Managed
<1>5. InOrder' /\ LaunchedTracked'
  BY <1>1 DEF ManagerInv, InOrder, LaunchedTracked, InRunning
<1>6. OnlyManaged'
  BY <1>1, <1>2 DEF ManagerInv, OnlyManaged, Managed, InRunning
<1>7. StatusBacked'
  <2>1. Besides(v) /\ v \in told'
    BY <1>1, <1>2 DEF Besides, Up, InRunning
  <2>2. QED
    BY <2>1, BackedFrame DEF ManagerInv
<1>8. QED
  BY <1>2, <1>4, <1>5, <1>6, <1>7 DEF ManagerInv

\* The process of v is waited for: every other process stays where it is.
LEMMA EndedKeeps ==
  ASSUME ManagerInv, NEW v \in VMs,
         IF InRunning(v) THEN Ended(v) ELSE UNCHANGED <<qemus, tracked>>,
         UNCHANGED <<launches, lives>>
  PROVE  /\ qemus' \in [Launched -> Process] /\ tracked' \in [VMs -> Launched \cup {NoQEMU}]
         /\ InOrder' /\ LaunchedTracked' /\ ~InRunning(v)'
         /\ \A w \in VMs : w # v => tracked'[w] = tracked[w] /\ (Up(w)' => Up(w))
<1>1. CASE ~InRunning(v)
  BY <1>1 DEF ManagerInv, Shapes, InOrder, LaunchedTracked, InRunning, Up
<1>2. CASE InRunning(v)
  <2> DEFINE q == tracked[v]
  <2>1. q \in Launched /\ NoLaunch \in Process /\ ~NoLaunch.up /\ NoLaunch.life = 0
    BY <1>2, NoLaunchLemma DEF ManagerInv, Shapes, InRunning
  <2>2. /\ qemus' = [qemus EXCEPT ![q] = NoLaunch]
        /\ tracked' = [tracked EXCEPT ![v] = NoQEMU]
    BY <1>2 DEF Ended
  <2>3. \A r \in Launched : /\ r # q => qemus'[r] = qemus[r]
                            /\ r = q => ~qemus'[r].up /\ qemus'[r].life = 0
    BY <2>1, <2>2 DEF ManagerInv, Shapes
  <2>4. /\ qemus' \in [Launched -> Process] /\ tracked' \in [VMs -> Launched \cup {NoQEMU}]
        /\ \A w \in VMs : w # v => tracked'[w] = tracked[w]
        /\ ~InRunning(v)'
    BY <2>1, <2>2 DEF ManagerInv, Shapes, InRunning
  <2>5. \A w \in VMs : w # v => (Up(w)' => Up(w))
    BY <2>3, <2>4 DEF Up, InRunning, ManagerInv, Shapes
  <2>6. InOrder'
    <3>1. lives \in Nat
      BY ManagerBounds DEF ManagerInv, Shapes
    <3>2. QED
      BY <2>3, <2>4, <3>1 DEF ManagerInv, InOrder, InRunning
  <2>7. LaunchedTracked'
    <3> SUFFICES ASSUME NEW r \in Launched, qemus'[r].up, qemus'[r].life = lives
                 PROVE  tracked'[qemus'[r].vm] = r
      BY DEF LaunchedTracked
    <3>1. r # q /\ qemus'[r] = qemus[r]
      BY <2>3
    <3>2. tracked[qemus[r].vm] = r
      BY <3>1 DEF ManagerInv, LaunchedTracked
    <3>3. qemus[r].vm # v
      BY <3>1, <3>2
    <3>4. QED
      BY <2>2, <3>1, <3>2, <3>3 DEF ManagerInv, Shapes
  <2>8. QED
    BY <2>4, <2>5, <2>6, <2>7
<1>3. QED
  BY <1>1, <1>2

LEMMA StopKeeps ==
  ASSUME ManagerInv, NEW v \in VMs, StopVM(v)
  PROVE  ManagerInv'
<1>1. /\ Managed(v) /\ SavedStatus(v, "stopped") /\ "stopped" \in Statuses
      /\ told' = told \ {v} /\ UNCHANGED <<launches, nextPort, lives, fresh>>
      /\ IF InRunning(v) THEN Ended(v) ELSE UNCHANGED <<qemus, tracked>>
  BY DEF StopVM, Statuses
<1>2. /\ configs' \in [VMs -> Config \cup {Absent}] /\ files' \in [VMs -> Config \cup {Absent}]
      /\ configs'[v].status = "stopped" /\ Managed(v)'
      /\ \A w \in VMs : w # v => configs'[w] = configs[w]
      /\ PortsBehind' /\ FreshPortsApart'
  BY <1>1, SameportKeeps
<1>3. /\ qemus' \in [Launched -> Process] /\ tracked' \in [VMs -> Launched \cup {NoQEMU}]
      /\ InOrder' /\ LaunchedTracked' /\ ~InRunning(v)'
      /\ \A w \in VMs : w # v => tracked'[w] = tracked[w] /\ (Up(w)' => Up(w))
  BY <1>1, EndedKeeps
<1>4. Shapes'
  BY <1>1, <1>2, <1>3 DEF ManagerInv, Shapes
<1>5. OnlyManaged'
  BY <1>2, <1>3 DEF ManagerInv, OnlyManaged, Managed, InRunning
<1>6. StatusBacked'
  <2>1. Besides(v)
    BY <1>1, <1>2, <1>3 DEF Besides
  <2>2. Backed(v)'
    BY <1>2, <1>3 DEF Backed, Up
  <2>3. QED
    BY <2>1, <2>2, BackedFrame DEF ManagerInv
<1>7. QED
  BY <1>2, <1>3, <1>4, <1>5, <1>6 DEF ManagerInv

LEMMA RemoveKeeps ==
  ASSUME ManagerInv, NEW v \in VMs, RemoveVM(v)
  PROVE  ManagerInv'
<1>1. /\ configs' = [configs EXCEPT ![v] = Absent] /\ files' = [files EXCEPT ![v] = Absent]
      /\ fresh' = fresh \ {v} /\ told' = told \ {v} /\ UNCHANGED <<launches, nextPort, lives>>
      /\ IF InRunning(v) THEN Ended(v) ELSE UNCHANGED <<qemus, tracked>>
  BY DEF RemoveVM, Saved
<1>2. /\ qemus' \in [Launched -> Process] /\ tracked' \in [VMs -> Launched \cup {NoQEMU}]
      /\ InOrder' /\ LaunchedTracked' /\ ~InRunning(v)'
      /\ \A w \in VMs : w # v => tracked'[w] = tracked[w] /\ (Up(w)' => Up(w))
  BY <1>1, EndedKeeps
<1>3. configs'[v] = Absent /\ \A w \in VMs : w # v => configs'[w] = configs[w]
  BY <1>1 DEF ManagerInv, Shapes
<1>4. Shapes'
  BY <1>1, <1>2 DEF ManagerInv, Shapes
<1>5. PortsBehind' /\ FreshPortsApart'
  BY <1>1, <1>3 DEF ManagerInv, Shapes, PortsBehind, FreshPortsApart, Managed
<1>6. OnlyManaged'
  BY <1>2, <1>3 DEF ManagerInv, OnlyManaged, Managed, InRunning
<1>7. StatusBacked'
  <2>1. Besides(v)
    BY <1>1, <1>2, <1>3 DEF Besides
  <2>2. Backed(v)'
    BY <1>3 DEF Backed, Managed
  <2>3. QED
    BY <2>1, <2>2, BackedFrame DEF ManagerInv
<1>8. QED
  BY <1>2, <1>4, <1>5, <1>6, <1>7 DEF ManagerInv

\* A process is launched, by this manager for v or by the other one.
LEMMA LaunchKeeps ==
  ASSUME ManagerInv, NEW q, q = launches + 1, launches < MaxLaunches, launches' = q,
         NEW new \in Process, new.vm \in VMs, new.life <= lives, lives' = lives,
         qemus' = [qemus EXCEPT ![q] = new]
  PROVE  /\ q \in Launched /\ q \in Nat /\ launches' \in 0..MaxLaunches
         /\ qemus' \in [Launched -> Process] /\ qemus'[q] = new
         /\ \A r \in Launched : r # q => qemus'[r] = qemus[r]
         /\ \A r \in Launched : /\ qemus'[r].life <= lives'
                                /\ r > launches' => ~qemus'[r].up
                                /\ qemus'[r].up => qemus'[r].vm \in VMs
         /\ \A w \in VMs : tracked'[w] = tracked[w] => (Up(w)' => Up(w))
         /\ \A w \in VMs : InRunning(w) => tracked[w] \in 1..launches' /\ tracked[w] # q
<1> USE ManagerBounds
<1>1. q \in Launched /\ q \in Nat /\ launches \in Nat /\ q \in 0..MaxLaunches
  BY DEF ManagerInv, Shapes, Launched
<1>2. /\ qemus' \in [Launched -> Process] /\ qemus'[q] = new
      /\ \A r \in Launched : r # q => qemus'[r] = qemus[r]
  BY <1>1 DEF ManagerInv, Shapes
<1>3. ASSUME NEW r \in Launched
      PROVE  /\ qemus'[r].life <= lives'
             /\ r > launches' => ~qemus'[r].up
             /\ qemus'[r].up => qemus'[r].vm \in VMs
  <2>1. CASE r = q
    BY <1>1, <1>2, <2>1
  <2>2. CASE r # q
    BY <1>1, <1>2, <2>2, LaunchedNumbers DEF ManagerInv, InOrder
  <2>3. QED
    BY <2>1, <2>2
<1>4. \A w \in VMs : InRunning(w) => tracked[w] \in 1..launches' /\ tracked[w] # q
  BY <1>1 DEF ManagerInv, InOrder
<1>5. ASSUME NEW w \in VMs, tracked'[w] = tracked[w], Up(w)' PROVE Up(w)
  <2>1. InRunning(w) /\ tracked[w] \in Launched
    BY <1>5 DEF Up, InRunning, ManagerInv, Shapes
  <2>2. QED
    BY <1>2, <1>4, <1>5, <2>1 DEF Up
<1>6. QED
  BY <1>1, <1>2, <1>3, <1>4, <1>5

LEMMA StartKeeps ==
  ASSUME ManagerInv, NEW v \in VMs, StartVM(v)
  PROVE  ManagerInv'
<1> USE ManagerBounds
<1>0. Managed(v) /\ ~Up(v) /\ told' = told \ {v} /\ UNCHANGED <<nextPort, lives, fresh>>
  BY DEF StartVM
<1>1. ASSUME SavedStatus(v, "error"), UNCHANGED <<launches, qemus, tracked>>
      PROVE  ManagerInv'
  <2>1. /\ configs' \in [VMs -> Config \cup {Absent}] /\ files' \in [VMs -> Config \cup {Absent}]
        /\ configs'[v].status = "error" /\ Managed(v)'
        /\ \A w \in VMs : w # v => configs'[w] = configs[w]
        /\ PortsBehind' /\ FreshPortsApart'
    BY <1>0, <1>1, SameportKeeps DEF Statuses
  <2>2. Shapes' /\ InOrder' /\ LaunchedTracked'
    BY <1>0, <1>1, <2>1 DEF ManagerInv, Shapes, InOrder, LaunchedTracked, InRunning
  <2>3. OnlyManaged'
    BY <1>1, <2>1 DEF ManagerInv, OnlyManaged, Managed, InRunning
  <2>4. StatusBacked'
    <3>1. Besides(v) /\ ~Up(v)'
      BY <1>0, <1>1, <2>1 DEF Besides, Up, InRunning
    <3>2. Backed(v)'
      BY <2>1, <3>1 DEF Backed
    <3>3. QED
      BY <3>1, <3>2, BackedFrame DEF ManagerInv
  <2>5. QED
    BY <2>1, <2>2, <2>3, <2>4 DEF ManagerInv
<1>2. ASSUME launches < MaxLaunches, launches' = launches + 1,
             qemus' = [qemus EXCEPT ![launches + 1] =
                         [vm |-> v, up |-> TRUE, life |-> lives, port |-> configs[v].port]],
             tracked' = [tracked EXCEPT ![v] = launches + 1], SavedStatus(v, "running")
      PROVE  ManagerInv'
  <2> DEFINE q == launches + 1
             new == [vm |-> v, up |-> TRUE, life |-> lives, port |-> configs[v].port]
  <2>1. new \in Process /\ new.vm = v /\ new.life = lives /\ lives <= lives
    BY <1>0 DEF Process, ManagerInv, Shapes, Managed, Config, Ports
  <2>2. /\ configs' \in [VMs -> Config \cup {Absent}] /\ files' \in [VMs -> Config \cup {Absent}]
        /\ configs'[v].status = "running" /\ Managed(v)'
        /\ \A w \in VMs : w # v => configs'[w] = configs[w]
        /\ PortsBehind' /\ FreshPortsApart'
    BY <1>0, <1>2, SameportKeeps DEF Statuses
  <2>3. qemus' = [qemus EXCEPT ![q] = new] /\ tracked' = [tracked EXCEPT ![v] = q]
    BY <1>2
  <2>4. q = launches + 1 /\ launches' = q
    BY <1>2
  <2> HIDE DEF q, new
  <2>5. /\ q \in Launched /\ q \in Nat /\ launches' \in 0..MaxLaunches
        /\ qemus' \in [Launched -> Process] /\ qemus'[q] = new
        /\ \A r \in Launched : r # q => qemus'[r] = qemus[r]
        /\ \A r \in Launched : /\ qemus'[r].life <= lives'
                               /\ r > launches' => ~qemus'[r].up
                               /\ qemus'[r].up => qemus'[r].vm \in VMs
        /\ \A w \in VMs : tracked'[w] = tracked[w] => (Up(w)' => Up(w))
        /\ \A w \in VMs : InRunning(w) => tracked[w] \in 1..launches' /\ tracked[w] # q
    BY <1>0, <1>2, <2>1, <2>3, <2>4, LaunchKeeps
  <2>6. /\ tracked'[v] = q /\ \A w \in VMs : w # v => tracked'[w] = tracked[w]
        /\ tracked' \in [VMs -> Launched \cup {NoQEMU}]
        /\ InRunning(v)'
    BY <2>3, <2>5, LaunchedNumbers DEF ManagerInv, Shapes, InRunning
  <2>7. Shapes'
    BY <1>0, <2>2, <2>5, <2>6 DEF ManagerInv, Shapes
  <2>8. InOrder'
    <3>1. \A w \in VMs : InRunning(w)' => tracked'[w] \in 1..launches'
      <4>1. q \in 1..launches'
        BY <2>4, <2>5 DEF ManagerInv, Shapes
      <4>2. QED
        BY <2>5, <2>6, <4>1 DEF InRunning
    <3>2. QED
      BY <2>5, <3>1 DEF InOrder
  <2>9. LaunchedTracked'
    <3> SUFFICES ASSUME NEW r \in Launched, qemus'[r].up, qemus'[r].life = lives
                 PROVE  tracked'[qemus'[r].vm] = r
      BY <1>0 DEF LaunchedTracked
    <3>1. CASE r = q
      BY <2>1, <2>5, <2>6, <3>1
    <3>2. CASE r # q
      <4>1. qemus'[r] = qemus[r] /\ tracked[qemus[r].vm] = r
        BY <2>5, <3>2 DEF ManagerInv, LaunchedTracked
      <4>2. qemus[r].vm # v
        BY <1>0, <4>1, LaunchedNumbers DEF Up, InRunning
      <4>3. QED
        BY <2>3, <4>1, <4>2 DEF ManagerInv, Shapes
    <3>3. QED
      BY <3>1, <3>2
  <2>10. OnlyManaged'
    BY <2>2, <2>6 DEF ManagerInv, OnlyManaged, Managed, InRunning
  <2>11. StatusBacked'
    <3>1. Besides(v)
      BY <1>0, <2>2, <2>5, <2>6 DEF Besides
    <3>2. Backed(v)'
      BY <2>2, <2>6 DEF Backed
    <3>3. QED
      BY <3>1, <3>2, BackedFrame DEF ManagerInv
  <2>12. QED
    BY <2>2, <2>7, <2>8, <2>9, <2>10, <2>11 DEF ManagerInv
<1>3. QED
  BY <1>1, <1>2 DEF StartVM

LEMMA OtherStartsKeeps == ManagerInv /\ OtherStarts => ManagerInv'
<1> SUFFICES ASSUME ManagerInv, OtherStarts PROVE ManagerInv'
  OBVIOUS
<1> USE ManagerBounds
<1>1. PICK p \in Ports : qemus' = [qemus EXCEPT ![launches + 1] =
                                      [NoLaunch EXCEPT !.up = TRUE, !.port = p]]
  BY DEF OtherStarts
<1> DEFINE q == launches + 1
           new == [NoLaunch EXCEPT !.up = TRUE, !.port = p]
<1>2. new \in Process /\ new.vm \in VMs /\ new.life = 0 /\ 0 <= lives /\ 0 # lives
  <2>1. /\ NoLaunch.life = 0 /\ p \in Nat
        /\ NoLaunch \in [vm : VMs, up : BOOLEAN, life : 0..MaxLives, port : Ports]
    BY NoLaunchType, NoLaunchLemma DEF Ports
  <2>2. new \in [vm : VMs, up : BOOLEAN, life : 0..MaxLives, port : Nat] /\ new.life = 0
    BY <2>1
  <2> HIDE DEF new
  <2>3. new \in Process /\ new.vm \in VMs
    BY <2>2 DEF Process
  <2>4. QED
    BY <2>2, <2>3 DEF ManagerInv, Shapes
<1>3. /\ q = launches + 1 /\ launches' = q /\ launches < MaxLaunches
      /\ qemus' = [qemus EXCEPT ![q] = new]
      /\ UNCHANGED <<configs, files, tracked, nextPort, lives, fresh, told>>
  BY <1>1 DEF OtherStarts
<1> HIDE DEF q, new
<1>4. /\ q \in Launched /\ launches' \in 0..MaxLaunches
      /\ qemus' \in [Launched -> Process] /\ qemus'[q] = new
      /\ \A r \in Launched : r # q => qemus'[r] = qemus[r]
      /\ \A r \in Launched : /\ qemus'[r].life <= lives'
                             /\ r > launches' => ~qemus'[r].up
                             /\ qemus'[r].up => qemus'[r].vm \in VMs
      /\ \A w \in VMs : tracked'[w] = tracked[w] => (Up(w)' => Up(w))
      /\ \A w \in VMs : InRunning(w) => tracked[w] \in 1..launches' /\ tracked[w] # q
  <2>1. new.life <= lives /\ lives' = lives
    BY <1>2, <1>3
  <2>2. QED
    BY <1>2, <1>3, <2>1, LaunchKeeps
<1>5. Shapes' /\ InOrder'
  BY <1>3, <1>4 DEF ManagerInv, Shapes, InOrder, InRunning
<1>6. LaunchedTracked'
  BY <1>2, <1>3, <1>4 DEF ManagerInv, LaunchedTracked
<1>7. PortsBehind' /\ FreshPortsApart' /\ OnlyManaged'
  BY <1>3 DEF ManagerInv, PortsBehind, FreshPortsApart, OnlyManaged, Managed, InRunning
<1>8. StatusBacked'
  <2>1. \A w \in VMs : Up(w)' => Up(w)
    BY <1>3, <1>4
  <2>2. QED
    BY <1>3, <2>1 DEF ManagerInv, StatusBacked, Managed, InRunning
<1>9. QED
  BY <1>5, <1>6, <1>7, <1>8 DEF ManagerInv

\* Forgetting processes that have exited loses none that runs.
LEMMA ForgetKeeps ==
  ASSUME ManagerInv, UNCHANGED <<qemus, lives, launches>>,
         tracked' \in [VMs -> Launched \cup {NoQEMU}],
         \A v \in VMs : tracked'[v] = tracked[v] \/ (~Up(v) /\ tracked'[v] = NoQEMU)
  PROVE  /\ InOrder' /\ LaunchedTracked'
         /\ \A v \in VMs : (Up(v)' => Up(v)) /\ (InRunning(v)' => InRunning(v))
<1>1. InOrder'
  BY DEF ManagerInv, InOrder, InRunning
<1>2. ASSUME NEW q \in Launched, qemus[q].up, qemus[q].life = lives
      PROVE  tracked'[qemus[q].vm] = q
  <2> DEFINE v == qemus[q].vm
  <2>1. tracked[v] = q /\ v \in VMs
    BY <1>2 DEF ManagerInv, LaunchedTracked, InOrder
  <2>2. Up(v)
    BY <1>2, <2>1, LaunchedNumbers DEF Up, InRunning
  <2>3. QED
    BY <2>1, <2>2
<1>3. \A v \in VMs : (Up(v)' => Up(v)) /\ (InRunning(v)' => InRunning(v))
  BY DEF Up, InRunning
<1>4. QED
  BY <1>1, <1>2, <1>3 DEF LaunchedTracked

\* A call that only sets a status, and perhaps forgets an exited process.
LEMMA StatusKeeps ==
  ASSUME ManagerInv, NEW v \in VMs, Managed(v), NEW s \in Statuses, SavedStatus(v, s),
         tracked' = tracked \/ (~Up(v) /\ tracked' = [tracked EXCEPT ![v] = NoQEMU]),
         v \in told' \/ (/\ s \in {"running", "paused"} => tracked'[v] # NoQEMU
                         /\ Up(v)' => s \in {"running", "paused"}),
         told' = told \/ told' = told \ {v},
         UNCHANGED <<qemus, launches, nextPort, lives, fresh>>
  PROVE  ManagerInv'
<1>1. /\ configs' \in [VMs -> Config \cup {Absent}] /\ files' \in [VMs -> Config \cup {Absent}]
      /\ configs'[v].status = s /\ Managed(v)'
      /\ \A w \in VMs : w # v => configs'[w] = configs[w]
      /\ PortsBehind' /\ FreshPortsApart'
  BY SameportKeeps
<1>2. /\ tracked' \in [VMs -> Launched \cup {NoQEMU}]
      /\ \A w \in VMs : tracked'[w] = tracked[w] \/ (~Up(w) /\ tracked'[w] = NoQEMU)
      /\ \A w \in VMs : w # v => tracked'[w] = tracked[w]
  BY DEF ManagerInv, Shapes
<1>3. /\ InOrder' /\ LaunchedTracked'
      /\ \A w \in VMs : (Up(w)' => Up(w)) /\ (InRunning(w)' => InRunning(w))
  BY <1>2, ForgetKeeps
<1>4. Shapes'
  BY <1>1, <1>2 DEF ManagerInv, Shapes
<1>5. OnlyManaged'
  BY <1>1, <1>3 DEF ManagerInv, OnlyManaged, Managed
<1>6. StatusBacked'
  <2>1. Besides(v)
    BY <1>1, <1>2, <1>3 DEF Besides
  <2>2. v \in told' \/ Backed(v)'
    BY <1>1 DEF Backed, InRunning
  <2>3. QED
    BY <2>1, <2>2, BackedFrame DEF ManagerInv
<1>7. QED
  BY <1>1, <1>3, <1>4, <1>5, <1>6 DEF ManagerInv

\* A caller writes a port and a status.
LEMMA UpdateKeeps ==
  ASSUME ManagerInv, NEW v \in VMs, UpdateVM(v)
  PROVE  ManagerInv'
<1>1. PICK c \in Config :
        /\ Managed(v) /\ Saved(v, c)
        /\ fresh' = IF c.port = configs[v].port THEN fresh ELSE fresh \ {v}
        /\ told' = IF c.status = configs[v].status THEN told ELSE told \cup {v}
        /\ UNCHANGED <<tracked, qemus, launches, nextPort, lives>>
  BY DEF UpdateVM
<1>2. /\ configs' \in [VMs -> Config \cup {Absent}] /\ files' \in [VMs -> Config \cup {Absent}]
      /\ configs'[v] = c /\ \A w \in VMs : w # v => configs'[w] = configs[w]
      /\ \A w \in VMs : Managed(w) <=> Managed(w)'
  BY <1>1, AbsentAssumption DEF Saved, ManagerInv, Shapes, Managed
<1>3. fresh' \subseteq fresh /\ \A w \in fresh' : configs'[w].port = configs[w].port
  BY <1>1, <1>2 DEF ManagerInv, Shapes
<1>4. Shapes' /\ PortsBehind' /\ FreshPortsApart'
  BY <1>1, <1>2, <1>3 DEF ManagerInv, Shapes, PortsBehind, FreshPortsApart
<1>5. InOrder' /\ LaunchedTracked' /\ OnlyManaged'
  BY <1>1, <1>2 DEF ManagerInv, InOrder, LaunchedTracked, OnlyManaged, InRunning
<1>6. StatusBacked'
  <2>1. Besides(v)
    BY <1>1, <1>2 DEF Besides, Up, InRunning
  <2>2. ASSUME v \notin told' PROVE Backed(v)'
    <3>1. c.status = configs[v].status /\ v \notin told
      BY <1>1, <2>2
    <3>2. /\ configs[v].status \in {"running", "paused"} => InRunning(v)
          /\ Up(v) => configs[v].status \in {"running", "paused"}
      BY <1>1, <3>1 DEF ManagerInv, StatusBacked
    <3>3. QED
      BY <1>1, <1>2, <3>1, <3>2 DEF Backed, Up, InRunning
  <2>3. QED
    BY <2>1, <2>2, BackedFrame DEF ManagerInv
<1>7. QED
  BY <1>4, <1>5, <1>6 DEF ManagerInv

LEMMA PollKeeps == ManagerInv /\ PollStatus => ManagerInv'
<1> SUFFICES ASSUME ManagerInv, PollStatus PROVE ManagerInv'
  OBVIOUS
<1> DEFINE polled == [v \in VMs |-> IF Managed(v) THEN [configs[v] EXCEPT !.status = Polled(v)]
                                    ELSE Absent]
           Saves(v) == /\ Managed(v)
                       /\ ~Up(v)
                       /\ InRunning(v) \/ configs[v].status = "running"
<1>1. /\ configs' = polled
      /\ files' = [v \in VMs |-> IF Saves(v) THEN polled[v] ELSE files[v]]
      /\ tracked' = [v \in VMs |-> IF Managed(v) /\ ~Up(v) THEN NoQEMU ELSE tracked[v]]
      /\ told' = {v \in told : Managed(v) /\ ~InRunning(v) /\ configs[v].status = "paused"}
      /\ UNCHANGED <<qemus, launches, nextPort, lives, fresh>>
  BY DEF PollStatus
<1>2. \A v \in VMs : Managed(v) => configs[v] \in Config
  BY DEF ManagerInv, Shapes, Managed
<1>3. \A v \in VMs : Managed(v) => Polled(v) \in Statuses
  BY <1>2 DEF Polled, Statuses, Config
<1>4. \A v \in VMs : Managed(v) => /\ polled[v] \in Config /\ polled[v].port = configs[v].port
                                   /\ polled[v].status = Polled(v)
  BY <1>2, <1>3 DEF Config
<1>5. \A v \in VMs : ~Managed(v) => polled[v] = Absent
  OBVIOUS
<1>6. polled \in [VMs -> Config \cup {Absent}]
  BY <1>4, <1>5
<1> HIDE DEF polled
<1>7. \A v \in VMs : Managed(v) <=> Managed(v)'
  BY <1>1, <1>4, <1>5, AbsentAssumption DEF Managed
<1>8. /\ tracked' \in [VMs -> Launched \cup {NoQEMU}]
      /\ \A w \in VMs : tracked'[w] = tracked[w] \/ (~Up(w) /\ tracked'[w] = NoQEMU)
      /\ \A w \in VMs : Up(w) => tracked'[w] = tracked[w]
  BY <1>1 DEF ManagerInv, Shapes
<1>9. /\ InOrder' /\ LaunchedTracked'
      /\ \A v \in VMs : (Up(v)' => Up(v)) /\ (InRunning(v)' => InRunning(v))
  BY <1>1, <1>8, ForgetKeeps
<1>10. Shapes'
  <2>1. files' \in [VMs -> Config \cup {Absent}]
    BY <1>1, <1>6 DEF ManagerInv, Shapes
  <2>2. QED
    BY <1>1, <1>6, <1>8, <2>1 DEF ManagerInv, Shapes
<1>11. PortsBehind' /\ FreshPortsApart'
  BY <1>1, <1>4, <1>7 DEF ManagerInv, Shapes, PortsBehind, FreshPortsApart
<1>12. StatusBacked'
  <2> SUFFICES ASSUME NEW v \in VMs, v \notin told', Managed(v)'
               PROVE  /\ configs'[v].status \in {"running", "paused"} => InRunning(v)'
                      /\ Up(v)' => configs'[v].status \in {"running", "paused"}
    BY DEF StatusBacked
  <2>1. Managed(v) /\ configs'[v].status = Polled(v)
    BY <1>1, <1>4, <1>7
  <2>2. CASE Up(v)
    <3>1. InRunning(v)' /\ Polled(v) \in {"running", "paused"}
      BY <1>8, <2>2 DEF Up, InRunning, Polled
    <3>2. QED
      BY <2>1, <3>1
  <2>3. CASE ~Up(v)
    <3>1. ~Up(v)'
      BY <1>9, <2>3
    <3>2. Polled(v) \notin {"running", "paused"}
      <4>1. CASE InRunning(v) \/ configs[v].status = "running"
        BY <2>3, <4>1 DEF Polled
      <4>2. CASE ~InRunning(v) /\ configs[v].status # "running"
        <5>1. Polled(v) = configs[v].status
          BY <2>3, <4>2 DEF Polled
        <5>2. v \notin told \/ configs[v].status # "paused"
          BY <1>1, <2>1, <4>2
        <5>3. v \notin told => configs[v].status \notin {"running", "paused"}
          BY <2>1, <4>2 DEF ManagerInv, StatusBacked
        <5>4. QED
          BY <4>2, <5>1, <5>2, <5>3
      <4>3. QED
        BY <4>1, <4>2
    <3>3. QED
      BY <2>1, <3>1, <3>2
  <2>4. QED
    BY <2>2, <2>3
<1>13. OnlyManaged'
  BY <1>7, <1>9 DEF ManagerInv, OnlyManaged
<1>14. QED
  BY <1>9, <1>10, <1>11, <1>12, <1>13 DEF ManagerInv

LEMMA RestartKeeps == ManagerInv /\ RestartManager => ManagerInv'
<1> SUFFICES ASSUME ManagerInv, RestartManager PROVE ManagerInv'
  OBVIOUS
<1> USE ManagerBounds
<1>1. /\ lives < MaxLives /\ lives' = lives + 1 /\ configs' = files'
      /\ tracked' = [v \in VMs |-> NoQEMU] /\ nextPort' = FirstPort /\ fresh' = {}
      /\ told' = {v \in VMs : files'[v] # Absent}
      /\ UNCHANGED <<qemus, launches>>
      /\ files' \in [VMs -> Config \cup {Absent}]
  BY DEF RestartManager, ManagerInv, Shapes
<1>2. \A q \in Launched : qemus[q].life \in Nat /\ lives \in Nat /\ qemus[q].life <= lives
  BY DEF ManagerInv, Shapes, Process, InOrder
<1>3. Shapes'
  BY <1>1 DEF ManagerInv, Shapes
<1>4. \A v \in VMs : ~InRunning(v)'
  BY <1>1 DEF InRunning
<1>5. InOrder' /\ LaunchedTracked' /\ OnlyManaged'
  BY <1>1, <1>2, <1>4 DEF ManagerInv, InOrder, LaunchedTracked, OnlyManaged
<1>6. PortsBehind' /\ FreshPortsApart'
  BY <1>1 DEF PortsBehind, FreshPortsApart
<1>7. StatusBacked'
  BY <1>1 DEF StatusBacked, Managed
<1>8. QED
  BY <1>3, <1>5, <1>6, <1>7 DEF ManagerInv

LEMMA ExitKeeps ==
  ASSUME ManagerInv, NEW q \in Launched, QEMUExits(q)
  PROVE  ManagerInv'
<1>1. /\ qemus' = [qemus EXCEPT ![q] = NoLaunch]
      /\ UNCHANGED <<configs, files, tracked, launches, nextPort, lives, fresh, told>>
      /\ NoLaunch \in Process /\ ~NoLaunch.up /\ NoLaunch.life = 0 /\ lives \in Nat
  BY NoLaunchLemma, ManagerBounds DEF QEMUExits, ManagerInv, Shapes
<1>2. \A r \in Launched : /\ r # q => qemus'[r] = qemus[r]
                          /\ r = q => ~qemus'[r].up /\ qemus'[r].life = 0
  BY <1>1 DEF ManagerInv, Shapes
<1>3. Shapes'
  BY <1>1 DEF ManagerInv, Shapes
<1>4. InOrder' /\ LaunchedTracked'
  BY <1>1, <1>2 DEF ManagerInv, InOrder, LaunchedTracked, InRunning
<1>5. \A v \in VMs : Up(v)' => Up(v)
  BY <1>1, <1>2 DEF Up, InRunning, ManagerInv, Shapes
<1>6. PortsBehind' /\ FreshPortsApart' /\ OnlyManaged'
  BY <1>1 DEF ManagerInv, PortsBehind, FreshPortsApart, OnlyManaged, Managed, InRunning
<1>7. StatusBacked'
  BY <1>1, <1>5 DEF ManagerInv, StatusBacked, Managed, InRunning
<1>8. QED
  BY <1>3, <1>4, <1>6, <1>7 DEF ManagerInv

LEMMA ManagerStep == ManagerInv /\ [ManagerNext]_managerVars => ManagerInv'
<1> SUFFICES ASSUME ManagerInv, [ManagerNext]_managerVars PROVE ManagerInv'
  OBVIOUS
<1>1. ASSUME NEW v \in VMs, OtherSaves(v) PROVE ManagerInv'
  <2>1. /\ files' \in [VMs -> Config \cup {Absent}]
        /\ UNCHANGED <<configs, tracked, qemus, launches, nextPort, lives, fresh, told>>
    BY <1>1 DEF OtherSaves, ManagerInv, Shapes
  <2>2. QED
    BY <2>1 DEF ManagerInv, Shapes, PortsBehind, InOrder, FreshPortsApart, LaunchedTracked,
                OnlyManaged, StatusBacked, Managed, InRunning, Up
<1>2. ASSUME NEW v \in VMs, IsRunning(v) PROVE ManagerInv'
  <2>1. ~InRunning(v)' /\ ~Up(v)'
    BY <1>2 DEF IsRunning, ManagerInv, Shapes, InRunning, Up
  <2>2. QED
    BY <1>2, <2>1, StatusKeeps DEF IsRunning, Exited, Statuses
<1>3. ASSUME NEW v \in VMs, PauseVM(v) PROVE ManagerInv'
  BY <1>3, StatusKeeps DEF PauseVM, Up, InRunning, Statuses
<1>4. ASSUME NEW v \in VMs, ResumeVM(v) PROVE ManagerInv'
  <2>1. v \in told \/ tracked[v] # NoQEMU
    BY <1>4 DEF ResumeVM, ManagerInv, StatusBacked, InRunning
  <2>2. /\ told' = told \/ told' = told \ {v}
        /\ v \in told' \/ tracked'[v] # NoQEMU
    BY <1>4, <2>1 DEF ResumeVM, InRunning
  <2>3. QED
    BY <1>4, <2>2, StatusKeeps DEF ResumeVM, Statuses
<1>5. ASSUME UNCHANGED managerVars PROVE ManagerInv'
  BY <1>5 DEF managerVars, ManagerInv, Shapes, PortsBehind, InOrder, FreshPortsApart,
              LaunchedTracked, OnlyManaged, StatusBacked, Managed, InRunning, Up
<1>6. QED
  BY <1>1, <1>2, <1>3, <1>4, <1>5, AddKeeps, RefusedKeeps, ImportKeeps, UpdateKeeps, StartKeeps,
     StopKeeps, RemoveKeeps, PollKeeps, RestartKeeps, ExitKeeps, OtherStartsKeeps DEF ManagerNext

\* Ports that one manager gives are different, for any number of machines and
\* ports and whatever is added, refused, removed and run in between.
THEOREM PortsAreApart == ManagerSpec => []FreshPortsApart
<1>1. ManagerInv => FreshPortsApart
  BY DEF ManagerInv
<1>2. QED
  BY <1>1, ManagerInitInv, ManagerStep, PTL DEF ManagerSpec

\* A manager tracks every process it has launched that still runs, for any
\* number of machines, processes and managers.
THEOREM NoneIsLost == ManagerSpec => []LaunchedTracked
<1>1. ManagerInv => LaunchedTracked
  BY DEF ManagerInv
<1>2. QED
  BY <1>1, ManagerInitInv, ManagerStep, PTL DEF ManagerSpec

\* Of a machine whose status this manager has set, a status running or paused
\* and a tracked process go together, for any number of machines, processes,
\* managers and callers of update_vm().
THEOREM StatusIsBacked == ManagerSpec => []StatusBacked
<1>1. ManagerInv => StatusBacked
  BY DEF ManagerInv
<1>2. QED
  BY <1>1, ManagerInitInv, ManagerStep, PTL DEF ManagerSpec

\* A configuration that is saved keeps the types of the dictionary and files.
LEMMA SavedType ==
  ASSUME ManagerTypeOK, NEW v \in VMs, NEW config \in Config \cup {Absent}, Saved(v, config)
  PROVE  /\ configs' \in [VMs -> Config \cup {Absent}]
         /\ files' \in [VMs -> Config \cup {Absent}]
BY DEF ManagerTypeOK, Saved

LEMMA StatusType ==
  ASSUME ManagerTypeOK, NEW v \in VMs, Managed(v), NEW status \in Statuses
  PROVE  /\ configs[v] \in Config
         /\ [configs[v] EXCEPT !.status = status] \in Config
BY DEF ManagerTypeOK, Managed, Config

LEMMA EndedType ==
  ASSUME ManagerTypeOK, NEW v \in VMs, InRunning(v), Ended(v)
  PROVE  /\ qemus' \in [Launched -> [vm : VMs, up : BOOLEAN, life : 0..MaxLives, port : Ports]]
         /\ tracked' \in [VMs -> Launched \cup {NoQEMU}]
<1>1. tracked[v] \in Launched
  BY DEF ManagerTypeOK, InRunning
<1>2. QED
  BY <1>1, NoLaunchType DEF ManagerTypeOK, Ended

LEMMA ManagerTypeStep == ManagerTypeOK /\ [ManagerNext]_managerVars => ManagerTypeOK'
<1> SUFFICES ASSUME ManagerTypeOK, [ManagerNext]_managerVars PROVE ManagerTypeOK'
  OBVIOUS
<1> USE ManagerBounds
<1> DEFINE Proc == [vm : VMs, up : BOOLEAN, life : 0..MaxLives, port : Ports]
<1>0. \A p \in Ports : [port |-> p, status |-> "stopped"] \in Config /\ p + 1 \in FirstPort..(LastPort + 1)
  BY DEF Ports, Config, Statuses
<1>1. ASSUME NEW v \in VMs, AddVM(v) PROVE ManagerTypeOK'
  <2>1. PICK p \in Ports : /\ nextPort' = p + 1
                           /\ Saved(v, [port |-> p, status |-> "stopped"])
                           /\ fresh' = fresh \cup {v} /\ told' = told \ {v}
                           /\ UNCHANGED <<tracked, qemus, launches, lives, outside>>
    BY <1>1 DEF AddVM
  <2>2. configs' \in [VMs -> Config \cup {Absent}] /\ files' \in [VMs -> Config \cup {Absent}]
    BY <1>0, <2>1, SavedType
  <2>3. QED
    BY <1>0, <2>1, <2>2 DEF ManagerTypeOK
<1>2. CASE AddRefused
  BY <1>0, <1>2 DEF AddRefused, ManagerTypeOK
<1>3. ASSUME NEW v \in VMs, NEW w \in VMs, ImportVM(v, w) PROVE ManagerTypeOK'
  <2>1. configs[w] \in Config \cup {Absent}
    BY DEF ManagerTypeOK
  <2>2. configs' \in [VMs -> Config \cup {Absent}] /\ files' \in [VMs -> Config \cup {Absent}]
    BY <1>3, <2>1, SavedType DEF ImportVM
  <2>3. QED
    BY <1>3, <2>2 DEF ImportVM, ManagerTypeOK
<1>4. ASSUME NEW v \in VMs, UpdateVM(v) PROVE ManagerTypeOK'
  <2>1. PICK config \in Config :
          /\ outside < MaxOutside /\ outside' = outside + 1 /\ Saved(v, config)
          /\ fresh' = IF config.port = configs[v].port THEN fresh ELSE fresh \ {v}
          /\ told' = IF config.status = configs[v].status THEN told ELSE told \cup {v}
          /\ UNCHANGED <<tracked, qemus, launches, nextPort, lives>>
    BY <1>4 DEF UpdateVM
  <2>2. configs' \in [VMs -> Config \cup {Absent}] /\ files' \in [VMs -> Config \cup {Absent}]
    BY <2>1, SavedType
  <2>3. fresh' \subseteq VMs /\ told' \subseteq VMs /\ outside' \in 0..MaxOutside
    BY <2>1 DEF ManagerTypeOK
  <2>4. QED
    BY <2>1, <2>2, <2>3 DEF ManagerTypeOK
<1>5. ASSUME NEW v \in VMs, Managed(v), NEW status \in Statuses, SavedStatus(v, status)
      PROVE  configs' \in [VMs -> Config \cup {Absent}] /\ files' \in [VMs -> Config \cup {Absent}]
  BY <1>5, StatusType, SavedType DEF SavedStatus
<1>6. ASSUME NEW v \in VMs, StartVM(v) PROVE ManagerTypeOK'
  <2>1. configs' \in [VMs -> Config \cup {Absent}] /\ files' \in [VMs -> Config \cup {Absent}]
    BY <1>5, <1>6 DEF StartVM, Statuses
  <2>2. CASE /\ launches < MaxLaunches
             /\ launches' = launches + 1
             /\ qemus' = [qemus EXCEPT ![launches + 1] =
                   [vm |-> v, up |-> TRUE, life |-> lives, port |-> configs[v].port]]
             /\ tracked' = [tracked EXCEPT ![v] = launches + 1]
    <3>1. launches + 1 \in Launched /\ launches' \in 0..MaxLaunches
      BY <2>2 DEF ManagerTypeOK, Launched
    <3>2. configs[v].port \in Ports /\ lives \in 0..MaxLives
      BY <1>6 DEF StartVM, Managed, ManagerTypeOK, Config
    <3>3. [vm |-> v, up |-> TRUE, life |-> lives, port |-> configs[v].port] \in Proc
      BY <3>2
    <3>4. qemus' \in [Launched -> Proc] /\ tracked' \in [VMs -> Launched \cup {NoQEMU}]
      BY <2>2, <3>1, <3>3 DEF ManagerTypeOK
    <3>5. QED
      BY <1>6, <2>1, <3>1, <3>4 DEF StartVM, ManagerTypeOK
  <2>3. CASE UNCHANGED <<launches, qemus, tracked>>
    BY <1>6, <2>1, <2>3 DEF StartVM, ManagerTypeOK
  <2>4. QED
    BY <1>6, <2>2, <2>3 DEF StartVM
<1>7. ASSUME NEW v \in VMs, StopVM(v) \/ RemoveVM(v) PROVE ManagerTypeOK'
  <2>1. configs' \in [VMs -> Config \cup {Absent}] /\ files' \in [VMs -> Config \cup {Absent}]
    BY <1>5, <1>7, SavedType DEF StopVM, RemoveVM, Statuses
  <2>2. qemus' \in [Launched -> Proc] /\ tracked' \in [VMs -> Launched \cup {NoQEMU}]
    <3>1. CASE InRunning(v)
      BY <1>7, <3>1, EndedType DEF StopVM, RemoveVM
    <3>2. CASE ~InRunning(v)
      BY <1>7, <3>2 DEF StopVM, RemoveVM, ManagerTypeOK
    <3>3. QED
      BY <3>1, <3>2
  <2>3. QED
    BY <1>7, <2>1, <2>2 DEF StopVM, RemoveVM, ManagerTypeOK
<1>8. ASSUME NEW v \in VMs, IsRunning(v) \/ PauseVM(v) \/ ResumeVM(v) PROVE ManagerTypeOK'
  <2>1. configs' \in [VMs -> Config \cup {Absent}] /\ files' \in [VMs -> Config \cup {Absent}]
    BY <1>5, <1>8 DEF IsRunning, PauseVM, ResumeVM, Statuses
  <2>2. tracked' \in [VMs -> Launched \cup {NoQEMU}]
    BY <1>8 DEF IsRunning, PauseVM, ResumeVM, ManagerTypeOK
  <2>3. QED
    BY <1>8, <2>1, <2>2 DEF IsRunning, PauseVM, ResumeVM, ManagerTypeOK
<1>9. CASE PollStatus
  <2> DEFINE polled == [v \in VMs |-> IF Managed(v)
                                       THEN [configs[v] EXCEPT !.status = Polled(v)]
                                       ELSE Absent]
             Saves(v) == /\ Managed(v)
                         /\ ~Up(v)
                         /\ InRunning(v) \/ configs[v].status = "running"
  <2>1. /\ configs' = polled
        /\ files' = [v \in VMs |-> IF Saves(v) THEN polled[v] ELSE files[v]]
        /\ tracked' = [v \in VMs |-> IF Managed(v) /\ ~Up(v) THEN NoQEMU ELSE tracked[v]]
        /\ told' = {v \in told : Managed(v) /\ ~InRunning(v) /\ configs[v].status = "paused"}
        /\ UNCHANGED <<qemus, launches, nextPort, lives, fresh, outside>>
    BY <1>9 DEF PollStatus
  <2>2. ASSUME NEW v \in VMs PROVE polled[v] \in Config \cup {Absent}
    <3>1. CASE Managed(v)
      <4>1. configs[v] \in Config
        BY <3>1 DEF ManagerTypeOK, Managed
      <4>2. Polled(v) \in Statuses
        BY <4>1 DEF Polled, Config, Statuses
      <4>3. QED
        BY <3>1, <4>2, StatusType
    <3>2. CASE ~Managed(v)
      BY <3>2
    <3>3. QED
      BY <3>1, <3>2
  <2> HIDE DEF polled
  <2>3. files' \in [VMs -> Config \cup {Absent}] /\ tracked' \in [VMs -> Launched \cup {NoQEMU}]
    BY <2>1, <2>2 DEF ManagerTypeOK
  <2>4. configs' \in [VMs -> Config \cup {Absent}]
    BY <2>1, <2>2 DEF polled
  <2>5. QED
    BY <2>1, <2>3, <2>4 DEF ManagerTypeOK
<1>10. CASE RestartManager
  <2>1. PICK torn \in SUBSET VMs :
          /\ lives < MaxLives
          /\ lives' = lives + 1
          /\ files' = [v \in VMs |-> IF v \in torn THEN Absent ELSE files[v]]
          /\ configs' = files'
          /\ tracked' = [v \in VMs |-> NoQEMU]
          /\ nextPort' = FirstPort
          /\ fresh' = {}
          /\ told' = {v \in VMs : files'[v] # Absent}
          /\ UNCHANGED <<qemus, launches, outside>>
    BY <1>10 DEF RestartManager
  <2>2. files' \in [VMs -> Config \cup {Absent}]
    BY <2>1 DEF ManagerTypeOK
  <2>3. lives' \in 1..MaxLives /\ nextPort' \in FirstPort..(LastPort + 1)
    BY <2>1 DEF ManagerTypeOK
  <2>4. QED
    BY <2>1, <2>2, <2>3 DEF ManagerTypeOK
<1>11. ASSUME NEW q \in Launched, QEMUExits(q) PROVE ManagerTypeOK'
  BY <1>11, NoLaunchType DEF QEMUExits, ManagerTypeOK
<1>12. ASSUME NEW v \in VMs, OtherSaves(v) PROVE ManagerTypeOK'
  BY <1>12 DEF OtherSaves, ManagerTypeOK
<1>13. CASE OtherStarts
  <2>1. PICK p \in Ports : qemus' = [qemus EXCEPT ![launches + 1] =
                                        [NoLaunch EXCEPT !.up = TRUE, !.port = p]]
    BY <1>13 DEF OtherStarts
  <2>2. [NoLaunch EXCEPT !.up = TRUE, !.port = p] \in Proc
    BY NoLaunchType
  <2>3. /\ launches + 1 \in Launched /\ launches' \in 0..MaxLaunches
        /\ outside' \in 0..MaxOutside
    BY <1>13 DEF OtherStarts, ManagerTypeOK, Launched
  <2>4. qemus' \in [Launched -> Proc]
    BY <2>1, <2>2, <2>3 DEF ManagerTypeOK
  <2>5. QED
    BY <1>13, <2>3, <2>4 DEF OtherStarts, ManagerTypeOK
<1>14. CASE UNCHANGED managerVars
  BY <1>14 DEF managerVars, ManagerTypeOK
<1>15. QED
  BY <1>1, <1>2, <1>3, <1>4, <1>6, <1>7, <1>8, <1>9, <1>10, <1>11, <1>12, <1>13, <1>14
     DEF ManagerNext

\* Every variable of the manager keeps its type; the ports it gives stay within
\* their range.
THEOREM ManagerType == ManagerSpec => []ManagerTypeOK
<1>1. ManagerInit => ManagerTypeOK
  <2> SUFFICES ASSUME ManagerInit PROVE ManagerTypeOK
    OBVIOUS
  <2>1. /\ FirstPort \in FirstPort..(LastPort + 1) /\ 0 \in 0..MaxLaunches
        /\ 1 \in 1..MaxLives /\ 0 \in 0..MaxOutside
    BY ManagerBounds
  <2>2. QED
    BY <2>1, NoLaunchType DEF ManagerInit, ManagerTypeOK
<1>2. QED
  BY <1>1, ManagerTypeStep, PTL DEF ManagerSpec

(***************************************************************************)
(* The table of bridges.                                                   *)
(***************************************************************************)

\* A bridge belongs to one machine, and is made before it is used.
OwnBridges ==
  /\ \A v, w \in Machines : IsBridge(v) /\ bridges[v] = bridges[w] => v = w
  /\ \A b \in BridgeIds : b > made => /\ loop[b] = "none"
                                      /\ \A v \in Machines : bridges[v] # b

\* A loop that runs is some machine's.
LoopsHeld ==
  \A b \in BridgeIds \ stray : Runs(b) => \E v \in Machines : bridges[v] = b

\* In switch mode only the active machine keeps a bridge.
OneBridge == mode = "switch" /\ ~mixed => \A v \in Machines : IsBridge(v) => active = v

TableInv == TableTypeOK /\ OwnBridges /\ LoopsHeld /\ OneBridge

LEMMA TableInitInv == TableInit => TableInv
<1> SUFFICES ASSUME TableInit PROVE TableInv
  OBVIOUS
<1> USE TableAssumption DEF TableInit
<1>1. TableTypeOK
  <2>0. made \in 0..MaxBridges
    OBVIOUS
  <2>1. mixed \in BOOLEAN /\ mode \in {"switch", "multi"}
    OBVIOUS
  <2>2. bridges \in [Machines -> BridgeIds \cup {NotAdded, Lazy}]
    OBVIOUS
  <2>3. loop \in [BridgeIds -> {"none", "ready", "entered", "over"}]
    OBVIOUS
  <2>4. stray \subseteq BridgeIds /\ active \in Machines \cup {Nobody}
    OBVIOUS
  <2>5. QED
    BY <2>0, <2>1, <2>2, <2>3, <2>4 DEF TableTypeOK
<1>2. \A v \in Machines : ~IsBridge(v)
  BY DEF IsBridge, BridgeIds
<1>3. \A b \in BridgeIds : ~Runs(b) /\ loop[b] = "none"
  BY DEF Runs
<1>4. QED
  BY <1>1, <1>2, <1>3 DEF TableInv, OwnBridges, LoopsHeld, OneBridge, IsBridge

\* The bridges that StopAllOf leaves running, and unmarked, are not among those
\* to be stopped.
LEMMA StoppedAre ==
  ASSUME NEW stopped \in SUBSET BridgeIds, NEW loops \in [BridgeIds -> {"none", "ready", "entered", "over"}],
         stray \subseteq BridgeIds, StopAllOf(stopped, loops)
  PROVE  /\ loop' \in [BridgeIds -> {"none", "ready", "entered", "over"}]
         /\ stray' \subseteq BridgeIds /\ stray \subseteq stray'
         /\ \A b \in BridgeIds : loops[b] = "none" => loop'[b] = "none"
         /\ \A b \in BridgeIds \ stray' :
              Runs(b)' => b \notin stopped /\ loops[b] \in {"ready", "entered"}
BY DEF StopAllOf, Runs

LEMMA NewBridgeType ==
  ASSUME TableInv, made < MaxBridges
  PROVE  /\ made + 1 \in BridgeIds /\ made \in Nat
         /\ WithNew \in [BridgeIds -> {"none", "ready", "entered", "over"}]
         /\ WithNew[made + 1] = "ready"
         /\ \A b \in BridgeIds : b # made + 1 => WithNew[b] = loop[b]
<1>1. made + 1 \in BridgeIds /\ made \in Nat
  BY TableAssumption DEF TableInv, TableTypeOK, BridgeIds
<1>2. QED
  BY <1>1 DEF WithNew, TableInv, TableTypeOK

LEMMA StartNewKeeps ==
  ASSUME TableInv, NEW v \in Machines, StartNew(v), active' \in Machines \cup {Nobody}
  PROVE  TableInv'
<1> USE TableAssumption
<1>1. /\ bridges[v] = NotAdded /\ mode = "multi" /\ mode' = mode /\ mixed' = mixed
      /\ made < MaxBridges /\ made' = made + 1 /\ loop' = WithNew
      /\ \/ bridges' = [bridges EXCEPT ![v] = made + 1] /\ stray' = stray
         \/ stray' = stray \cup {made + 1} /\ bridges' = bridges
  BY DEF StartNew
<1> DEFINE n == made + 1
<1>2. /\ n \in BridgeIds /\ made \in Nat /\ loop'[n] = "ready"
      /\ loop' \in [BridgeIds -> {"none", "ready", "entered", "over"}]
      /\ \A b \in BridgeIds : b # n => loop'[b] = loop[b]
  BY <1>1, NewBridgeType
<1>3. n > made /\ \A b \in BridgeIds : b > made' => b > made /\ b # n
  BY <1>1, <1>2 DEF BridgeIds
<1> HIDE DEF n
<1>4. /\ \A w \in Machines : bridges[w] # n
      /\ \/ bridges' = [bridges EXCEPT ![v] = n] /\ stray' = stray
         \/ stray' = stray \cup {n} /\ bridges' = bridges
  BY <1>1, <1>2, <1>3 DEF TableInv, OwnBridges, n
<1>5. TableTypeOK'
  <2>1. made' \in 0..MaxBridges
    BY <1>1, <1>2 DEF BridgeIds
  <2>2. QED
    BY <1>1, <1>2, <1>4, <2>1 DEF TableInv, TableTypeOK
<1>6. \A w \in Machines : bridges'[w] = bridges[w] \/ (w = v /\ bridges'[w] = n)
  BY <1>4 DEF TableInv, TableTypeOK
<1>7. OwnBridges'
  <2>1. \A w, x \in Machines : IsBridge(w)' /\ bridges'[w] = bridges'[x] => w = x
    BY <1>4, <1>6 DEF TableInv, OwnBridges, IsBridge
  <2>2. \A b \in BridgeIds : b > made' => /\ loop'[b] = "none"
                                          /\ \A w \in Machines : bridges'[w] # b
    BY <1>2, <1>3, <1>6 DEF TableInv, OwnBridges
  <2>3. QED
    BY <2>1, <2>2 DEF OwnBridges
<1>8. LoopsHeld'
  <2> SUFFICES ASSUME NEW b \in BridgeIds, b \notin stray', Runs(b)'
               PROVE  \E w \in Machines : bridges'[w] = b
    BY DEF LoopsHeld
  <2>1. CASE b = n
    <3>1. bridges' = [bridges EXCEPT ![v] = n]
      BY <1>4, <2>1
    <3>2. bridges'[v] = b
      BY <2>1, <3>1 DEF TableInv, TableTypeOK
    <3>3. QED
      BY <3>2
  <2>2. CASE b # n
    <3>1. b \notin stray /\ Runs(b)
      BY <1>2, <1>4, <2>2 DEF Runs
    <3>2. PICK w \in Machines : bridges[w] = b
      BY <3>1 DEF TableInv, LoopsHeld
    <3>3. w # v
      BY <1>1, <3>2 DEF BridgeIds
    <3>4. QED
      BY <1>6, <3>2, <3>3
  <2>3. QED
    BY <2>1, <2>2
<1>9. OneBridge'
  BY <1>1 DEF OneBridge
<1>10. QED
  BY <1>5, <1>7, <1>8, <1>9 DEF TableInv

LEMMA RemoveMachineKeeps ==
  ASSUME TableInv, NEW v \in Machines, RemoveMachine(v)
  PROVE  TableInv'
<1> USE TableAssumption
<1> DEFINE stopped == {bridges[v]} \cap BridgeIds
<1>1. /\ bridges' = [bridges EXCEPT ![v] = NotAdded]
      /\ active' = IF active = v THEN Nobody ELSE active
      /\ StopAllOf(stopped, loop) /\ UNCHANGED <<mode, made, mixed>>
  BY DEF RemoveMachine
<1>2. /\ loop' \in [BridgeIds -> {"none", "ready", "entered", "over"}]
      /\ stray' \subseteq BridgeIds /\ stray \subseteq stray'
      /\ \A b \in BridgeIds : loop[b] = "none" => loop'[b] = "none"
      /\ \A b \in BridgeIds \ stray' : Runs(b)' => b \notin stopped /\ Runs(b)
  <2>1. /\ stopped \in SUBSET BridgeIds /\ stray \subseteq BridgeIds
        /\ loop \in [BridgeIds -> {"none", "ready", "entered", "over"}]
    BY DEF TableInv, TableTypeOK
  <2> HIDE DEF stopped
  <2>2. /\ loop' \in [BridgeIds -> {"none", "ready", "entered", "over"}]
        /\ stray' \subseteq BridgeIds /\ stray \subseteq stray'
        /\ \A b \in BridgeIds : loop[b] = "none" => loop'[b] = "none"
        /\ \A b \in BridgeIds \ stray' :
             Runs(b)' => b \notin stopped /\ loop[b] \in {"ready", "entered"}
    BY <1>1, <2>1, StoppedAre
  <2>3. QED
    BY <2>2 DEF Runs
<1>3. /\ bridges'[v] = NotAdded /\ \A w \in Machines : w # v => bridges'[w] = bridges[w]
      /\ NotAdded \notin BridgeIds
  BY <1>1 DEF TableInv, TableTypeOK, BridgeIds
<1>4. TableTypeOK'
  BY <1>1, <1>2 DEF TableInv, TableTypeOK
<1>5. OwnBridges'
  BY <1>1, <1>2, <1>3 DEF TableInv, OwnBridges, IsBridge
<1>6. LoopsHeld'
  BY <1>2, <1>3 DEF TableInv, LoopsHeld
<1>7. OneBridge'
  BY <1>1, <1>3 DEF TableInv, OneBridge, IsBridge
<1>8. QED
  BY <1>4, <1>5, <1>6, <1>7 DEF TableInv

LEMMA SwitchOverKeeps ==
  ASSUME TableInv, NEW v \in Machines, NEW known \in BOOLEAN, SwitchOver(v, known)
  PROVE  TableInv'
<1> USE TableAssumption
<1> DEFINE others  == {bridges[w] : w \in {x \in Machines \ {v} : IsBridge(x)}}
           cleared == [w \in Machines |-> IF w # v /\ IsBridge(w) THEN Lazy ELSE bridges[w]]
           n == made + 1
<1>1. active' = v /\ mixed' = FALSE /\ mode' = mode
  BY DEF SwitchOver
<1>2. /\ others \in SUBSET BridgeIds
      /\ \A w \in Machines : w # v /\ IsBridge(w) => bridges[w] \in others
      /\ cleared \in [Machines -> BridgeIds \cup {NotAdded, Lazy}]
      /\ cleared[v] = bridges[v]
      /\ \A w \in Machines : w # v => cleared[w] \notin BridgeIds
  BY DEF IsBridge, TableInv, TableTypeOK, BridgeIds
<1>3. ASSUME IsBridge(v) \/ ~known PROVE TableInv'
  <2>1. bridges' = cleared /\ StopAllOf(others, loop) /\ made' = made
    BY <1>3 DEF SwitchOver
  <2> HIDE DEF cleared, others
  <2>2. /\ loop' \in [BridgeIds -> {"none", "ready", "entered", "over"}]
        /\ stray' \subseteq BridgeIds /\ stray \subseteq stray'
        /\ \A b \in BridgeIds : loop[b] = "none" => loop'[b] = "none"
        /\ \A b \in BridgeIds \ stray' : Runs(b)' => b \notin others /\ Runs(b)
    BY <1>2, <2>1, StoppedAre DEF TableInv, TableTypeOK, Runs
  <2>3. TableTypeOK'
    BY <1>1, <1>2, <2>1, <2>2 DEF TableInv, TableTypeOK
  <2>4. OwnBridges'
    BY <1>2, <2>1, <2>2 DEF TableInv, OwnBridges, IsBridge
  <2>5. LoopsHeld'
    <3> SUFFICES ASSUME NEW b \in BridgeIds, b \notin stray', Runs(b)'
                 PROVE  bridges'[v] = b
      BY DEF LoopsHeld
    <3>1. PICK w \in Machines : bridges[w] = b
      BY <2>2 DEF TableInv, LoopsHeld
    <3>2. w = v
      BY <1>2, <2>2, <3>1 DEF IsBridge
    <3>3. QED
      BY <1>2, <2>1, <3>1, <3>2
  <2>6. OneBridge'
    BY <1>1, <1>2, <2>1 DEF OneBridge, IsBridge
  <2>7. QED
    BY <2>3, <2>4, <2>5, <2>6 DEF TableInv
<1>4. ASSUME ~(IsBridge(v) \/ ~known) PROVE TableInv'
  <2>1. /\ made < MaxBridges /\ made' = n /\ ~IsBridge(v)
        /\ \/ bridges' = [cleared EXCEPT ![v] = n] /\ StopAllOf(others, WithNew)
           \/ bridges' = [cleared EXCEPT ![v] = Lazy] /\ StopAllOf(others \cup {n}, WithNew)
    BY <1>4 DEF SwitchOver
  <2>2. /\ n \in BridgeIds /\ made \in Nat /\ n > made
        /\ WithNew \in [BridgeIds -> {"none", "ready", "entered", "over"}]
        /\ \A b \in BridgeIds : b # n => WithNew[b] = loop[b]
        /\ \A b \in BridgeIds : b > n => b > made /\ b # n
    BY <2>1, NewBridgeType DEF BridgeIds
  <2> HIDE DEF cleared, others, n
  <2>3. PICK stopped \in SUBSET BridgeIds :
          /\ StopAllOf(stopped, WithNew) /\ others \subseteq stopped
          /\ \/ bridges' = [cleared EXCEPT ![v] = n]
             \/ bridges' = [cleared EXCEPT ![v] = Lazy] /\ n \in stopped
    <3>1. CASE bridges' = [cleared EXCEPT ![v] = n] /\ StopAllOf(others, WithNew)
      BY <1>2, <3>1
    <3>2. CASE bridges' = [cleared EXCEPT ![v] = Lazy] /\ StopAllOf(others \cup {n}, WithNew)
      BY <1>2, <2>2, <3>2
    <3>3. QED
      BY <2>1, <3>1, <3>2
  <2>4. /\ loop' \in [BridgeIds -> {"none", "ready", "entered", "over"}]
        /\ stray' \subseteq BridgeIds /\ stray \subseteq stray'
        /\ \A b \in BridgeIds : WithNew[b] = "none" => loop'[b] = "none"
        /\ \A b \in BridgeIds \ stray' :
             Runs(b)' => b \notin stopped /\ WithNew[b] \in {"ready", "entered"}
    BY <2>2, <2>3, StoppedAre DEF TableInv, TableTypeOK
  <2>5. /\ bridges' \in [Machines -> BridgeIds \cup {NotAdded, Lazy}]
        /\ \A w \in Machines : w # v => bridges'[w] \notin BridgeIds
        /\ bridges'[v] = n \/ (bridges'[v] = Lazy /\ n \in stopped)
    BY <1>2, <2>2, <2>3
  <2>6. TableTypeOK'
    <3>1. made' \in 0..MaxBridges
      BY <2>1, <2>2 DEF BridgeIds
    <3>2. QED
      BY <1>1, <2>4, <2>5, <3>1 DEF TableInv, TableTypeOK
  <2>7. OwnBridges'
    <3>1. \A w, x \in Machines : IsBridge(w)' /\ bridges'[w] = bridges'[x] => w = x
      BY <2>5 DEF IsBridge
    <3>2. \A b \in BridgeIds : b > made' => loop'[b] = "none"
      BY <2>1, <2>2, <2>4 DEF TableInv, OwnBridges
    <3>3. \A b \in BridgeIds : b > made' => \A w \in Machines : bridges'[w] # b
      <4>1. Lazy \notin BridgeIds
        BY DEF BridgeIds
      <4>2. QED
        BY <2>1, <2>2, <2>5, <4>1
    <3>4. QED
      BY <3>1, <3>2, <3>3 DEF OwnBridges
  <2>8. LoopsHeld'
    <3> SUFFICES ASSUME NEW b \in BridgeIds, b \notin stray', Runs(b)'
                 PROVE  bridges'[v] = b
      BY DEF LoopsHeld
    <3>1. b \notin stopped /\ WithNew[b] \in {"ready", "entered"}
      BY <2>4
    <3>2. b = n
      <4> SUFFICES ASSUME b # n PROVE FALSE
        OBVIOUS
      <4>1. Runs(b) /\ b \notin stray
        BY <2>2, <2>4, <3>1 DEF Runs
      <4>2. PICK w \in Machines : bridges[w] = b
        BY <4>1 DEF TableInv, LoopsHeld
      <4>3. QED
        BY <1>2, <2>1, <2>3, <3>1, <4>2 DEF IsBridge
    <3>3. QED
      BY <2>5, <3>1, <3>2
  <2>9. OneBridge'
    BY <1>1, <2>5 DEF OneBridge, IsBridge
  <2>10. QED
    BY <2>6, <2>7, <2>8, <2>9 DEF TableInv
<1>5. QED
  BY <1>3, <1>4

LEMMA TableStep == TableInv /\ [TableNext]_tableVars => TableInv'
<1> SUFFICES ASSUME TableInv, [TableNext]_tableVars PROVE TableInv'
  OBVIOUS
<1> USE TableAssumption
<1>1. ASSUME NEW m \in {"switch", "multi"}, SetMode(m) PROVE TableInv'
  BY <1>1 DEF SetMode, TableInv, TableTypeOK, OwnBridges, LoopsHeld, OneBridge, IsBridge, Runs
<1>2. ASSUME NEW v \in Machines, AddStarted(v) PROVE TableInv'
  <2>1. active' \in Machines \cup {Nobody}
    BY <1>2 DEF AddStarted, TableInv, TableTypeOK
  <2>2. QED
    BY <1>2, <2>1, StartNewKeeps DEF AddStarted
<1>3. ASSUME NEW v \in Machines, AddAndSwitch(v) PROVE TableInv'
  <2>1. active' \in Machines \cup {Nobody}
    BY <1>3 DEF AddAndSwitch, TableInv, TableTypeOK
  <2>2. QED
    BY <1>3, <2>1, StartNewKeeps DEF AddAndSwitch
<1>4. ASSUME NEW v \in Machines, AddLazily(v) PROVE TableInv'
  <2>1. /\ bridges' = [bridges EXCEPT ![v] = Lazy] /\ bridges[v] = NotAdded
        /\ UNCHANGED <<mode, active, loop, made, stray, mixed>>
        /\ NotAdded \notin BridgeIds /\ Lazy \notin BridgeIds
    BY <1>4 DEF AddLazily, BridgeIds
  <2>2. TableTypeOK' /\ \A w \in Machines : bridges'[w] = IF w = v THEN Lazy ELSE bridges[w]
    BY <2>1 DEF TableInv, TableTypeOK
  <2>3. OwnBridges' /\ OneBridge'
    BY <2>1, <2>2 DEF TableInv, OwnBridges, OneBridge, IsBridge
  <2>4. LoopsHeld'
    BY <2>1, <2>2 DEF TableInv, LoopsHeld, Runs
  <2>5. QED
    BY <2>2, <2>3, <2>4 DEF TableInv
<1>5. ASSUME NEW v \in Machines, SwitchReference(v) PROVE TableInv'
  BY <1>5 DEF SwitchReference, TableInv, TableTypeOK, OwnBridges, LoopsHeld, OneBridge, IsBridge,
              Runs
<1>6. ASSUME NEW b \in BridgeIds, EnterLoop(b) PROVE TableInv'
  <2>1. /\ loop[b] = "ready" /\ loop' = [loop EXCEPT ![b] = "entered"]
        /\ UNCHANGED <<mode, bridges, active, made, stray, mixed>>
    BY <1>6 DEF EnterLoop
  <2>2. TableTypeOK' /\ \A c \in BridgeIds : loop'[c] = IF c = b THEN "entered" ELSE loop[c]
    BY <2>1 DEF TableInv, TableTypeOK
  <2>3. QED
    BY <2>1, <2>2 DEF TableInv, OwnBridges, LoopsHeld, OneBridge, IsBridge, Runs
<1>7. ASSUME UNCHANGED tableVars PROVE TableInv'
  BY <1>7 DEF tableVars, TableInv, TableTypeOK, OwnBridges, LoopsHeld, OneBridge, IsBridge, Runs
<1>8. QED
  BY <1>1, <1>2, <1>3, <1>4, <1>5, <1>6, <1>7, RemoveMachineKeeps, SwitchOverKeeps DEF TableNext

\* A loop that runs is that of a bridge in the table, and in switch mode the
\* active machine's, for any number of machines and bridges.
THEOREM LoopsAreOwned == TableSpec => []LoopsOwned
<1>1. TableInv => LoopsOwned
  <2> SUFFICES ASSUME TableInv, NEW b \in BridgeIds, b \notin stray, Runs(b)
               PROVE  /\ \E v \in Machines : bridges[v] = b
                      /\ mode = "switch" /\ ~mixed => active # Nobody /\ bridges[active] = b
    BY DEF LoopsOwned
  <2>1. PICK v \in Machines : bridges[v] = b
    BY DEF TableInv, LoopsHeld
  <2>2. QED
    BY <2>1, TableAssumption DEF TableInv, OneBridge, IsBridge
<1>2. QED
  BY <1>1, TableInitInv, TableStep, PTL DEF TableSpec

\* The type invariant of the table of bridges.
THEOREM TableType == TableSpec => []TableTypeOK
<1>1. TableInv => TableTypeOK
  BY DEF TableInv
<1>2. QED
  BY <1>1, TableInitInv, TableStep, PTL DEF TableSpec
=============================================================================
