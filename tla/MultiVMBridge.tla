--------------------------- MODULE MultiVMBridge ---------------------------
(***************************************************************************)
(* gui/multi_vm_qmp_bridge.py: the table of QMP bridges, one per VM, and   *)
(* the thread each bridge runs its event loop in.                          *)
(*                                                                         *)
(* One thread calls the table.  A bridge's own thread says that its loop   *)
(* is ready just before it enters the loop: start() may return, and stop() *)
(* be called, in between, and stop() only stops a loop that has been       *)
(* entered.  start() raises when the thread is not ready in time.          *)
(***************************************************************************)
EXTENDS Naturals

CONSTANTS
  Machines,    \* names of VMs
  NotAdded,    \* not in self._bridges
  Lazy,        \* self._bridges[vm] is None
  Nobody,      \* self._active_vm is None
  MaxBridges   \* bound: bridges ever made

ASSUME TableAssumption == /\ MaxBridges \in Nat
                          /\ NotAdded # Lazy
                          /\ {NotAdded, Lazy} \cap Nat = {}
                          /\ Nobody \notin Machines

VARIABLES
  mode,     \* self._mode
  bridges,  \* self._bridges
  active,   \* self._active_vm
  loop,     \* the event loop of each bridge
  made,     \* bridges made so far
  stray,    \* bridges whose start() raised, or whose stop() came too early
  mixed     \* has no VM been switched to since the mode became "switch"?

tableVars == <<mode, bridges, active, loop, made, stray, mixed>>

BridgeIds == 1..MaxBridges
IsBridge(v) == bridges[v] \in BridgeIds
Runs(b)     == loop[b] \in {"ready", "entered"}

TableTypeOK ==
  /\ mode \in {"switch", "multi"}
  /\ bridges \in [Machines -> BridgeIds \cup {NotAdded, Lazy}]
  /\ active \in Machines \cup {Nobody}
  /\ loop \in [BridgeIds -> {"none", "ready", "entered", "over"}]
  /\ made \in 0..MaxBridges
  /\ stray \subseteq BridgeIds
  /\ mixed \in BOOLEAN

TableInit ==
  /\ mode \in {"switch", "multi"}
  /\ bridges = [v \in Machines |-> NotAdded]
  /\ active = Nobody
  /\ loop = [b \in BridgeIds |-> "none"]
  /\ made = 0
  /\ stray = {}
  /\ mixed = FALSE

SetMode(m) ==
  /\ mode' = m
  /\ mixed' = (mixed \/ mode # m)
  /\ UNCHANGED <<bridges, active, loop, made, stray>>

\* PerVMQMPBridge.stop(), for a set of bridges: a loop that has not been
\* entered yet goes on, for nobody will stop it any more.
StopAllOf(stopped, loops) ==
  /\ loop' = [b \in BridgeIds |->
                IF b \in stopped /\ loops[b] = "entered" THEN "over" ELSE loops[b]]
  /\ stray' = stray \cup {b \in stopped : loops[b] = "ready"}

\* PerVMQMPBridge.start() of a new bridge.
WithNew == [loop EXCEPT ![made + 1] = "ready"]

\* add_vm() in multi mode: the bridge is started, then put into the table; if
\* start() raises its thread goes on and nobody knows it.
StartNew(v) ==
  /\ bridges[v] = NotAdded
  /\ mode = "multi"
  /\ made < MaxBridges
  /\ made' = made + 1
  /\ loop' = WithNew
  /\ \/ bridges' = [bridges EXCEPT ![v] = made + 1] /\ UNCHANGED stray
     \/ stray' = stray \cup {made + 1} /\ UNCHANGED bridges
  /\ UNCHANGED <<mode, mixed>>

AddStarted(v) == StartNew(v) /\ UNCHANGED active

\* add_vm() in switch mode.  (A second one raises: None has no update_uri.)
AddLazily(v) ==
  /\ bridges[v] = NotAdded
  /\ mode = "switch"
  /\ bridges' = [bridges EXCEPT ![v] = Lazy]
  /\ UNCHANGED <<mode, active, loop, made, stray, mixed>>

\* Fault: the bridge is not stopped.
RemoveUnstopped(v) ==
  /\ bridges[v] # NotAdded
  /\ bridges' = [bridges EXCEPT ![v] = NotAdded]
  /\ active' = IF active = v THEN Nobody ELSE active
  /\ UNCHANGED <<mode, loop, made, stray, mixed>>

RemoveMachine(v) ==
  /\ bridges[v] # NotAdded
  /\ bridges' = [bridges EXCEPT ![v] = NotAdded]
  /\ active' = IF active = v THEN Nobody ELSE active
  /\ StopAllOf({bridges[v]} \cap BridgeIds, loop)
  /\ UNCHANGED <<mode, made, mixed>>

\* switch_to_vm() in switch mode: the others' bridges are stopped.  A bridge
\* is made only if the caller knows the URI, for none was stored.
SwitchOver(v, known) ==
  LET others  == {bridges[w] : w \in {x \in Machines \ {v} : IsBridge(x)}}
      cleared == [w \in Machines |-> IF w # v /\ IsBridge(w) THEN Lazy ELSE bridges[w]]
  IN  /\ mode = "switch"
      /\ bridges[v] # NotAdded \/ known
      /\ active' = v
      /\ mixed' = FALSE
      /\ IF IsBridge(v) \/ ~known
         THEN /\ bridges' = cleared
              /\ StopAllOf(others, loop)
              /\ UNCHANGED made
         ELSE /\ made < MaxBridges
              /\ made' = made + 1
              /\ \/ /\ bridges' = [cleared EXCEPT ![v] = made + 1]
                    /\ StopAllOf(others, WithNew)
                 \/ /\ bridges' = [cleared EXCEPT ![v] = Lazy]
                    /\ StopAllOf(others \cup {made + 1}, WithNew)
      /\ UNCHANGED mode

\* switch_to_vm() in multi mode; a VM that is not in the table is added first.
SwitchReference(v) ==
  /\ mode = "multi"
  /\ bridges[v] # NotAdded
  /\ active' = v
  /\ UNCHANGED <<mode, bridges, loop, made, stray, mixed>>

AddAndSwitch(v) ==
  /\ StartNew(v)
  /\ active' = IF IsBridge(v)' THEN v ELSE active

\* A thread enters its loop.
EnterLoop(b) ==
  /\ loop[b] = "ready"
  /\ loop' = [loop EXCEPT ![b] = "entered"]
  /\ UNCHANGED <<mode, bridges, active, made, stray, mixed>>

TableNext ==
  \/ \E m \in {"switch", "multi"} : SetMode(m)
  \/ \E v \in Machines : \/ AddStarted(v) \/ AddLazily(v) \/ RemoveMachine(v)
                         \/ SwitchReference(v) \/ AddAndSwitch(v)
                         \/ \E known \in BOOLEAN : SwitchOver(v, known)
  \/ \E b \in BridgeIds : EnterLoop(b)

TableSpec == TableInit /\ [][TableNext]_tableVars

(***************************************************************************)
(* Properties.                                                             *)
(***************************************************************************)

\* A loop that runs is that of the bridge of some VM in the table, and once a
\* VM has been switched to in switch mode it is the active VM's ("'switch': One
\* active bridge at a time", multi_vm_qmp_bridge.py:319).  The exceptions are
\* loops stopped before they were entered, and starts given up for lateness
\* (lines 83, 78).
LoopsOwned ==
  \A b \in BridgeIds \ stray : Runs(b) =>
    /\ \E v \in Machines : bridges[v] = b
    /\ mode = "switch" /\ ~mixed => active # Nobody /\ bridges[active] = b
=============================================================================
