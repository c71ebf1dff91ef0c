--------------------------- MODULE QEMULifecycle ---------------------------
(***************************************************************************)
(* hypervisor/qemu/backend.py, class QEMUBackend: creating, starting,      *)
(* stopping and destroying virtual machines.                               *)
(*                                                                         *)
(* The tasks of one event loop call the backend; they interleave only      *)
(* where a call really waits: for a connection, for a reply, for a socket  *)
(* to close.  The backend tracks one process and one QMP client per name.  *)
(* A client stays "connected" after its QEMU has died (QMPChannel: only    *)
(* Disconnect resets the flag), and QEMU's monitor serves one client at a  *)
(* time.                                                                   *)
(***************************************************************************)
EXTENDS Naturals

CONSTANTS
  VMs,         \* names of virtual machines
  Tasks,       \* tasks that call the backend
  NoVM,        \* a task that is in no call
  Slow,        \* may QEMU take longer than a deadline to answer?
  BasePort,    \* qmp_port_base
  MaxPort,     \* bound: ports tried
  MaxProc,     \* bound: QEMU processes started
  MaxRestart   \* bound: restarts of the server

ASSUME VMsAssumption    == NoVM \notin VMs
ASSUME SlowAssumption   == Slow \in BOOLEAN
ASSUME PortsAssumption  == BasePort \in Nat /\ BasePort > 0 /\ MaxPort \in Nat
ASSUME BoundsAssumption == MaxProc \in Nat /\ MaxRestart \in Nat

VARIABLES
  port,      \* port[n]: management_port in n's config file; 0: no such VM
  nextPort,  \* self._next_qmp_port
  tracked,   \* self._processes[n]: a process, or 0
  client,    \* self._qmp_clients[n]: the process it connected to, or 0
  proc,      \* proc[p]: the VM, the port and the state of process p
  last,      \* the last process started
  call,      \* call[t]: the call task t is in
  asked,     \* processes that have answered a system_powerdown
  lost,      \* processes forgotten alive: by a deadline, or with the server
  restarts   \* restarts of the server

vars == <<port, nextPort, tracked, client, proc, last, call, asked, lost, restarts>>

Procs  == 1..MaxProc
Ports  == BasePort..MaxPort
NoProc == [vm |-> NoVM, port |-> 0, state |-> "none"]

\* A call: what was called, for which VM, where it waits, and the process at
\* the other end of the client it uses.
Idle == [op |-> "none", vm |-> NoVM, at |-> "idle", peer |-> 0]
In(o, n, l, p) == [op |-> o, vm |-> n, at |-> l, peer |-> p]
Call == {Idle} \cup
        [op : {"start", "stop", "query"}, vm : VMs,
         at : {"poll", "connecting", "querying", "asking", "closing"},
         peer : 0..MaxProc]

Alive(p)     == p # 0 /\ proc[p].state \in {"starting", "listening"}
Exists(n)    == port[n] # 0
Listening(q) == {p \in Procs : proc[p].state = "listening" /\ proc[p].port = q}

Init ==
  /\ port = [n \in VMs |-> 0] /\ nextPort = BasePort
  /\ tracked = [n \in VMs |-> 0] /\ client = [n \in VMs |-> 0]
  /\ proc = [p \in Procs |-> NoProc] /\ last = 0
  /\ call = [t \in Tasks |-> Idle]
  /\ asked = {} /\ lost = {} /\ restarts = 0

Become(t, c) == call' = [call EXCEPT ![t] = c]

-----------------------------------------------------------------------------
(* create_vm() and destroy_vm() never wait *)

\* _find_free_port(): the first port nobody listens on.
FirstFree(q) ==
  /\ q >= nextPort /\ Listening(q) = {}
  /\ \A r \in Ports : nextPort <= r /\ r < q => Listening(r) # {}

\* Fault: the next port is not counted on.
CreateSamePort(t, n) ==
  /\ call[t] = Idle /\ ~Exists(n)
  /\ \E q \in Ports : FirstFree(q) /\ port' = [port EXCEPT ![n] = q]
  /\ UNCHANGED <<nextPort, tracked, client, proc, last, call, asked, lost, restarts>>

Create(t, n) ==
  /\ call[t] = Idle /\ ~Exists(n)
  /\ \E q \in Ports : /\ FirstFree(q)
                      /\ port' = [port EXCEPT ![n] = q]
                      /\ nextPort' = q + 1
  /\ UNCHANGED <<tracked, client, proc, last, call, asked, lost, restarts>>

\* Fault: the running VM is not looked for.
DestroyUnchecked(t, n) ==
  /\ call[t] = Idle /\ Exists(n)
  /\ port' = [port EXCEPT ![n] = 0]
  /\ UNCHANGED <<nextPort, tracked, client, proc, last, call, asked, lost, restarts>>

Destroy(t, n) ==
  /\ call[t] = Idle /\ Exists(n) /\ tracked[n] = 0
  /\ port' = [port EXCEPT ![n] = 0]
  /\ UNCHANGED <<nextPort, tracked, client, proc, last, call, asked, lost, restarts>>

-----------------------------------------------------------------------------
(* start_vm() *)

\* Fault: the running VM is not looked for.
StartUnchecked(t, n) ==
  /\ call[t] = Idle /\ Exists(n)
  /\ last < MaxProc
  /\ last' = last + 1
  /\ proc' = [proc EXCEPT ![last + 1] =
                [vm |-> n, port |-> port[n], state |-> "starting"]]
  /\ tracked' = [tracked EXCEPT ![n] = last + 1]
  /\ Become(t, In("start", n, "poll", 0))
  /\ UNCHANGED <<port, nextPort, client, asked, lost, restarts>>

Start(t, n) ==
  /\ call[t] = Idle /\ Exists(n) /\ ~Alive(tracked[n])
  /\ last < MaxProc
  /\ last' = last + 1
  /\ proc' = [proc EXCEPT ![last + 1] =
                [vm |-> n, port |-> port[n], state |-> "starting"]]
  /\ tracked' = [tracked EXCEPT ![n] = last + 1]
  /\ Become(t, In("start", n, "poll", 0))
  /\ UNCHANGED <<port, nextPort, client, asked, lost, restarts>>

\* Popen raises: the entry of an earlier process is dropped.
StartFails(t, n) ==
  /\ call[t] = Idle /\ Exists(n) /\ ~Alive(tracked[n])
  /\ tracked' = [tracked EXCEPT ![n] = 0]
  /\ UNCHANGED <<port, nextPort, client, proc, last, call, asked, lost, restarts>>

\* One round of _wait_for_qmp(): a client that says it is connected will do.
Poll(t) ==
  LET n == call[t].vm IN
  /\ call[t].at = "poll"
  /\ \/ client[n] # 0 /\ Become(t, Idle)
     \/ client[n] = 0 /\ Exists(n) /\ Become(t, In("start", n, "connecting", 0))
  /\ UNCHANGED <<port, nextPort, tracked, client, proc, last, asked, lost, restarts>>

\* Fault: the call goes on polling after its deadline.
DeadlineSwallowed(t) ==
  LET n == call[t].vm IN
  /\ call[t].at = "poll" /\ (Slow \/ ~Alive(tracked[n]))
  /\ tracked' = [tracked EXCEPT ![n] = 0]
  /\ lost' = lost \cup {p \in {tracked[n]} : Alive(p)}
  /\ UNCHANGED <<port, nextPort, client, proc, last, call, asked, restarts>>

\* _wait_for_qmp() gives up: the process is forgotten, not killed.
Deadline(t) ==
  LET n == call[t].vm IN
  /\ call[t].at = "poll" /\ (Slow \/ ~Alive(tracked[n]))
  /\ tracked' = [tracked EXCEPT ![n] = 0]
  /\ lost' = lost \cup {p \in {tracked[n]} : Alive(p)}
  /\ Become(t, Idle)
  /\ UNCHANGED <<port, nextPort, client, proc, last, asked, restarts>>

-----------------------------------------------------------------------------
(* stop_vm(), and what reads the state of a VM or sends it a command *)

\* The end of stop_vm(): kill, forget, close the client.  If the entry is gone
\* since the call began, self._processes[name] raises.
KillTracked(t, n, procs) ==
  \/ /\ tracked[n] = 0
     /\ proc' = procs /\ UNCHANGED tracked
     /\ Become(t, Idle)
  \/ /\ tracked[n] # 0
     /\ proc' = [procs EXCEPT ![tracked[n]].state = "dead"]
     /\ tracked' = [tracked EXCEPT ![n] = 0]
     /\ Become(t, IF client[n] = 0 THEN Idle ELSE In("stop", n, "closing", client[n]))

StopForced(t, n) ==
  /\ call[t] = Idle /\ Exists(n) /\ tracked[n] # 0
  /\ KillTracked(t, n, proc)
  /\ UNCHANGED <<port, nextPort, client, last, asked, lost, restarts>>

\* _get_qmp_client() hands out the client it has, or connects.
UseClient(t, o, n, l) ==
  Become(t, IF client[n] # 0 THEN In(o, n, l, client[n]) ELSE In(o, n, "connecting", 0))

Stop(t, n) ==
  /\ call[t] = Idle /\ Exists(n) /\ tracked[n] # 0
  /\ UseClient(t, "stop", n, "asking")
  /\ UNCHANGED <<port, nextPort, tracked, client, proc, last, asked, lost, restarts>>

\* get_status() of a live process, pause, resume, reset, shutdown_guest.
Query(t, n) ==
  /\ call[t] = Idle /\ tracked[n] # 0
  /\ UseClient(t, "query", n, "querying")
  /\ UNCHANGED <<port, nextPort, tracked, client, proc, last, asked, lost, restarts>>

\* get_status() finds the process dead; its client stays.
Reap(t, n) ==
  /\ call[t] = Idle /\ Exists(n) /\ tracked[n] # 0 /\ ~Alive(tracked[n])
  /\ tracked' = [tracked EXCEPT ![n] = 0]
  /\ UNCHANGED <<port, nextPort, client, proc, last, call, asked, lost, restarts>>

-----------------------------------------------------------------------------
(* QMPClient.connect() inside _get_qmp_client() *)

\* Processes that would accept a client for n now.
Reachable(n) == {p \in Listening(port[n]) : \A m \in VMs : client[m] # p}

Connect(t) ==
  LET n == call[t].vm IN
  /\ call[t].at = "connecting"
  /\ \E p \in Reachable(n) :
       /\ client' = [client EXCEPT ![n] = p]
       /\ Become(t, CASE call[t].op = "start" -> Idle
                      [] call[t].op = "stop"  -> In("stop", n, "asking", p)
                      [] call[t].op = "query" -> In("query", n, "querying", p))
  /\ UNCHANGED <<port, nextPort, tracked, proc, last, asked, lost, restarts>>

ConnectFails(t) ==
  LET n == call[t].vm IN
  /\ call[t].at = "connecting" /\ (Slow \/ Reachable(n) = {})
  /\ \/ /\ call[t].op = "start" /\ Become(t, In("start", n, "poll", 0))
        /\ UNCHANGED <<proc, tracked>>
     \/ /\ call[t].op = "query" /\ Become(t, Idle)
        /\ UNCHANGED <<proc, tracked>>
     \/ call[t].op = "stop" /\ KillTracked(t, n, proc)
  /\ UNCHANGED <<port, nextPort, client, last, asked, lost, restarts>>

-----------------------------------------------------------------------------
(* Waiting for a reply, waiting for the socket to close *)

QueryEnds(t) ==
  /\ call[t].at = "querying"
  /\ Become(t, Idle)
  /\ UNCHANGED <<port, nextPort, tracked, client, proc, last, asked, lost, restarts>>

\* system_powerdown is answered.  The guest obeys or not; then the tracked
\* process, whichever it is by now, has 15 s to exit before it is killed, and
\* the event loop stands still meanwhile.
PowerdownAnswered(t) ==
  LET p == call[t].peer IN
  /\ call[t].at = "asking" /\ Alive(p)
  /\ asked' = asked \cup {p}
  /\ \/ KillTracked(t, call[t].vm, proc)
     \/ KillTracked(t, call[t].vm, [proc EXCEPT ![p].state = "dead"])
  /\ UNCHANGED <<port, nextPort, client, last, lost, restarts>>

\* send() raises: the peer is dead, too slow, or another task reads from it.
PowerdownFails(t) ==
  /\ call[t].at = "asking"
  /\ \/ ~Alive(call[t].peer)
     \/ Slow
     \/ \E u \in Tasks \ {t} : call[u].peer = call[t].peer
  /\ KillTracked(t, call[t].vm, proc)
  /\ UNCHANGED <<port, nextPort, client, last, asked, lost, restarts>>

\* Fault: the entry is set to None, not deleted.
ClosedToNone(t) ==
  LET n == call[t].vm IN
  /\ call[t].at = "closing"
  /\ client' = [client EXCEPT ![n] = NoVM]
  /\ Become(t, Idle)
  /\ UNCHANGED <<port, nextPort, tracked, proc, last, asked, lost, restarts>>

\* The socket has closed: whatever client the name has by now is dropped.  All
\* the calls that wait on this socket go on at once; the others find no entry
\* and raise.
Closed(t) ==
  LET n == call[t].vm
      Closing(u) == call[u].at = "closing" /\ call[u].peer = call[t].peer IN
  /\ call[t].at = "closing"
  /\ client' = [client EXCEPT ![n] = 0]
  /\ call' = [u \in Tasks |-> IF Closing(u) THEN Idle ELSE call[u]]
  /\ UNCHANGED <<port, nextPort, tracked, proc, last, asked, lost, restarts>>

-----------------------------------------------------------------------------
(* QEMU processes, and the server itself *)

\* A process whose port is taken exits.
Bind(p) ==
  /\ proc[p].state = "starting"
  /\ proc' = [proc EXCEPT ![p].state =
                IF Listening(proc[p].port) = {} THEN "listening" ELSE "dead"]
  /\ UNCHANGED <<port, nextPort, tracked, client, last, call, asked, lost, restarts>>

\* The guest shuts down, or QEMU crashes.
Exit(p) ==
  /\ Alive(p)
  /\ proc' = [proc EXCEPT ![p].state = "dead"]
  /\ UNCHANGED <<port, nextPort, tracked, client, last, call, asked, lost, restarts>>

\* The server dies and comes back; its QEMUs run on.
Restart ==
  /\ restarts < MaxRestart
  /\ restarts' = restarts + 1
  /\ nextPort' = BasePort
  /\ tracked' = [n \in VMs |-> 0] /\ client' = [n \in VMs |-> 0]
  /\ call' = [t \in Tasks |-> Idle]
  /\ lost' = {p \in Procs : Alive(p)} \cup lost
  /\ UNCHANGED <<port, proc, last, asked>>

Continue(t) ==
  \/ Poll(t) \/ Deadline(t) \/ Connect(t) \/ ConnectFails(t) \/ QueryEnds(t)
  \/ PowerdownAnswered(t) \/ PowerdownFails(t) \/ Closed(t)

Next ==
  \/ \E t \in Tasks, n \in VMs : \/ Create(t, n) \/ Destroy(t, n)
                                 \/ Start(t, n) \/ StartFails(t, n)
                                 \/ Stop(t, n) \/ StopForced(t, n)
                                 \/ Query(t, n) \/ Reap(t, n)
  \/ \E t \in Tasks : Continue(t)
  \/ \E p \in Procs : Bind(p) \/ Exit(p)
  \/ Restart

Spec == Init /\ [][Next]_vars

\* The event loop runs the tasks that can run, QEMU opens its port, and a
\* deadline comes although the tries in between begin and end.
FairSpec ==
  /\ Spec
  /\ \A t \in Tasks : WF_vars(Continue(t)) /\ SF_vars(Deadline(t))
  /\ \A p \in Procs : WF_vars(Bind(p))

-----------------------------------------------------------------------------
TypeOK ==
  /\ port \in [VMs -> {0} \cup Ports] /\ nextPort \in Nat
  /\ tracked \in [VMs -> 0..MaxProc] /\ client \in [VMs -> 0..MaxProc]
  /\ proc \in [Procs -> [vm : VMs \cup {NoVM}, port : {0} \cup Ports,
                         state : {"none", "starting", "listening", "dead"}]]
  /\ last \in 0..MaxProc
  /\ call \in [Tasks -> Call]
  /\ asked \subseteq Procs /\ lost \subseteq Procs /\ restarts \in 0..MaxRestart

\* Every QEMU that runs is the one the backend tracks for its VM, so that it
\* can be stopped: no order of calls that wait loses one or starts a second one
\* on the same disk.  Only a deadline that passes and the death of the server
\* lose a process.
NoOrphan == \A p \in Procs : Alive(p) => tracked[proc[p].vm] = p \/ p \in lost

\* The client filed under a name talks to a QEMU of that name, even when
\* processes have been forgotten and names reused.  A restarted server gives a
\* port twice.
OwnClient ==
  restarts = 0 => \A n \in VMs : client[n] # 0 => proc[client[n]].vm = n

\* destroy_vm() never deletes the files of a VM that runs, unless its process
\* was lost.
DestroyStopped ==
  [][\A n \in VMs : Exists(n) /\ ~Exists(n)' =>
       \A p \in Procs : Alive(p) /\ proc[p].vm = n => p \in lost]_vars

\* A start ends: it gets its client or gives up, whatever becomes of the
\* process or of its entry meanwhile.
StartEnds == \A t \in Tasks : call[t].op = "start" ~> call[t].op # "start"

\* hypervisor/backend.py: start_vm() raises if the VM is already running.
OneProcess ==
  \A p, q \in Procs : Alive(p) /\ Alive(q) /\ proc[p].vm = proc[q].vm => p = q

\* hypervisor/backend.py: without force, stop_vm() attempts a graceful
\* shutdown before it kills.
GracefulFirst ==
  [][\A t \in Tasks, n \in VMs :
       /\ call[t].op = "stop" /\ call[t].vm = n /\ call'[t] # call[t]
       /\ Alive(tracked[n]) /\ tracked'[n] = 0
       => tracked[n] \in asked']_vars
=============================================================================
