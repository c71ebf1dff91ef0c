------------------------ MODULE QEMULifecycleProofs ------------------------
(***************************************************************************)
(* Processes, ports and clients of QEMUBackend, for any number of virtual  *)
(* machines, tasks, processes and restarts, however slow QEMU is.          *)
(***************************************************************************)
EXTENDS QEMULifecycle, TLAPS

Started(p) == proc[p].state # "none"

\* What is filed under a name has been started.
FiledInv ==
  /\ \A n \in VMs : tracked[n] # 0 => Started(tracked[n])
  /\ \A n \in VMs : client[n] # 0 => Started(client[n])
  /\ \A p \in Procs : p > last => ~Started(p)

\* Until a restart a port is handed out once: the process that has it runs the
\* only VM that may have it in its file.
PortInv ==
  restarts = 0 =>
    /\ nextPort > 0
    /\ \A n \in VMs : port[n] < nextPort
    /\ \A n, m \in VMs : port[n] # 0 /\ port[n] = port[m] => n = m
    /\ \A p \in Procs : Started(p) =>
         /\ proc[p].port # 0 /\ proc[p].port < nextPort
         /\ \A n \in VMs : port[n] = proc[p].port => proc[p].vm = n
    /\ \A n \in VMs : client[n] # 0 => proc[client[n]].vm = n

IInv == TypeOK /\ FiledInv /\ PortInv

-----------------------------------------------------------------------------
\* Processes may change their state, not their name or their port.
SameNames(procs) ==
  /\ procs \in [Procs -> [vm : VMs \cup {NoVM}, port : {0} \cup Ports,
                          state : {"none", "starting", "listening", "dead"}]]
  /\ \A p \in Procs : /\ procs[p].vm = proc[p].vm /\ procs[p].port = proc[p].port
                      /\ procs[p].state # "none" <=> Started(p)

\* A step that only kills processes, forgets some and answers calls.
LEMMA SameNamesStep ==
  ASSUME IInv, SameNames(proc'),
         tracked' \in [VMs -> 0..MaxProc],
         \A n \in VMs : tracked'[n] \in {0, tracked[n]},
         client' \in [VMs -> 0..MaxProc],
         \A n \in VMs : client'[n] \in {0, client[n]},
         call' \in [Tasks -> Call], asked' \subseteq Procs, lost' \subseteq Procs,
         UNCHANGED <<port, nextPort, last, restarts>>
  PROVE  IInv'
<1>1. TypeOK'
  BY DEF IInv, TypeOK, SameNames
<1>2. FiledInv'
  <2>1. \A n \in VMs : tracked[n] \in 0..MaxProc /\ client[n] \in 0..MaxProc
    BY DEF IInv, TypeOK
  <2>2. \A p \in 0..MaxProc : p # 0 => p \in Procs
    BY BoundsAssumption DEF Procs
  <2>3. QED
    BY <2>1, <2>2 DEF IInv, FiledInv, SameNames, Started
<1>3. PortInv'
  <2>1. \A n \in VMs : client[n] \in 0..MaxProc
    BY DEF IInv, TypeOK
  <2>2. \A p \in 0..MaxProc : p # 0 => p \in Procs
    BY BoundsAssumption DEF Procs
  <2>3. QED
    BY <2>1, <2>2 DEF IInv, PortInv, SameNames, Started
<1>4. QED
  BY <1>1, <1>2, <1>3 DEF IInv

LEMMA CallLemma ==
  ASSUME TypeOK, NEW t \in Tasks, NEW c \in Call, Become(t, c)
  PROVE  call' \in [Tasks -> Call]
BY DEF TypeOK, Become

LEMMA KillLemma ==
  ASSUME IInv, NEW t \in Tasks, NEW n \in VMs, NEW procs, SameNames(procs),
         KillTracked(t, n, procs)
  PROVE  /\ SameNames(proc')
         /\ tracked' \in [VMs -> 0..MaxProc]
         /\ \A m \in VMs : tracked'[m] \in {0, tracked[m]}
         /\ call' \in [Tasks -> Call]
<1>1. Idle \in Call /\ In("stop", n, "closing", client[n]) \in Call
  BY BoundsAssumption DEF IInv, TypeOK, Call, Idle, In
<1>2. CASE tracked[n] = 0
  BY <1>1, <1>2, CallLemma DEF KillTracked, IInv, TypeOK
<1>3. CASE tracked[n] # 0
  <2>1. tracked[n] \in Procs /\ Started(tracked[n])
    BY <1>3 DEF IInv, TypeOK, FiledInv, Procs
  <2>2. SameNames(proc')
    BY <1>3, <2>1 DEF KillTracked, SameNames, Started
  <2>3. call' \in [Tasks -> Call]
    BY <1>1, <1>3, CallLemma DEF KillTracked, IInv
  <2>4. QED
    BY <1>3, <2>2, <2>3, BoundsAssumption DEF KillTracked, IInv, TypeOK
<1>4. QED
  BY <1>2, <1>3

LEMMA NoneDie == ASSUME TypeOK PROVE SameNames(proc)
BY DEF TypeOK, SameNames, Started

LEMMA OneDies ==
  ASSUME TypeOK, NEW p \in Procs, Started(p)
  PROVE  SameNames([proc EXCEPT ![p].state = "dead"])
BY DEF TypeOK, SameNames, Started

-----------------------------------------------------------------------------
LEMMA InvStep ==
  ASSUME IInv, [Next]_vars
  PROVE  IInv'
<1>1. TypeOK /\ SameNames(proc)
  BY NoneDie DEF IInv
<1>2. /\ tracked \in [VMs -> 0..MaxProc] /\ client \in [VMs -> 0..MaxProc]
      /\ call \in [Tasks -> Call] /\ asked \subseteq Procs /\ lost \subseteq Procs
      /\ \A t \in Tasks : Idle \in Call
      /\ \A n \in VMs, p \in 0..MaxProc,
            o \in {"start", "stop", "query"},
            l \in {"poll", "connecting", "querying", "asking", "closing"} :
            In(o, n, l, p) \in Call
      /\ 0 \in 0..MaxProc
  BY BoundsAssumption DEF IInv, TypeOK, Call, Idle, In
<1>3. ASSUME NEW t \in Tasks, NEW n \in VMs, Create(t, n)
      PROVE  IInv'
  <2>1. PICK q \in Ports : /\ q >= nextPort
                           /\ port' = [port EXCEPT ![n] = q] /\ nextPort' = q + 1
    BY <1>3 DEF Create, FirstFree
  <2>2. UNCHANGED <<tracked, client, proc, last, call, asked, lost, restarts>>
    BY <1>3 DEF Create
  <2>3. q \in Nat /\ nextPort \in Nat /\ \A m \in VMs : port[m] \in Nat
    BY PortsAssumption DEF IInv, TypeOK, Ports
  <2>4. TypeOK'
    BY <2>1, <2>2, <2>3 DEF IInv, TypeOK
  <2>5. FiledInv'
    BY <2>2 DEF IInv, FiledInv, Started
  <2>6. \A p \in Procs : proc[p].port \in Nat
    BY PortsAssumption DEF IInv, TypeOK, Ports
  <2>7. port'[n] = q /\ \A m \in VMs \ {n} : port'[m] = port[m]
    BY <2>1 DEF IInv, TypeOK
  <2>8. restarts = 0 => \A m \in VMs : port[m] < q
    BY <2>1, <2>3 DEF IInv, PortInv
  <2>9. restarts = 0 => \A p \in Procs : Started(p) => proc[p].port < q
    BY <2>1, <2>3, <2>6 DEF IInv, PortInv
  <2>10. PortInv'
    BY <2>1, <2>2, <2>3, <2>6, <2>7, <2>8, <2>9 DEF IInv, PortInv, Started
  <2>11. QED
    BY <2>4, <2>5, <2>10 DEF IInv
<1>4. ASSUME NEW t \in Tasks, NEW n \in VMs, Destroy(t, n)
      PROVE  IInv'
  <2>1. /\ port' = [port EXCEPT ![n] = 0]
        /\ UNCHANGED <<nextPort, tracked, client, proc, last, call, asked, lost, restarts>>
    BY <1>4 DEF Destroy
  <2>2. TypeOK'
    BY <2>1 DEF IInv, TypeOK
  <2>3. FiledInv'
    BY <2>1 DEF IInv, FiledInv, Started
  <2>4. PortInv'
    BY <2>1 DEF IInv, TypeOK, PortInv, Started
  <2>5. QED
    BY <2>2, <2>3, <2>4 DEF IInv
<1>5. ASSUME NEW t \in Tasks, NEW n \in VMs, Start(t, n)
      PROVE  IInv'
  <2> DEFINE p == last + 1
  <2>1. /\ p \in Procs /\ p \in 0..MaxProc /\ p > last /\ ~Started(p)
        /\ port[n] # 0
    BY <1>5, BoundsAssumption DEF Start, IInv, TypeOK, FiledInv, Procs, Exists
  <2>2. /\ proc' = [proc EXCEPT ![p] =
                     [vm |-> n, port |-> port[n], state |-> "starting"]]
        /\ last' = p /\ tracked' = [tracked EXCEPT ![n] = p]
        /\ Become(t, In("start", n, "poll", 0))
        /\ UNCHANGED <<port, nextPort, client, asked, lost, restarts>>
    BY <1>5 DEF Start
  <2>3. call' \in [Tasks -> Call]
    BY <1>1, <1>2, <2>2, CallLemma
  <2>4. TypeOK'
    BY <2>1, <2>2, <2>3 DEF IInv, TypeOK
  <2>5. FiledInv'
    <3>1. \A m \in VMs : client[m] # 0 => client[m] # p /\ client[m] \in Procs
      BY <1>2, <2>1 DEF IInv, FiledInv, Procs
    <3>2. \A m \in VMs : tracked[m] # 0 => tracked[m] # p /\ tracked[m] \in Procs
      BY <1>2, <2>1 DEF IInv, FiledInv, Procs
    <3>3. last \in Nat /\ \A r \in Procs : r \in Nat
      BY BoundsAssumption DEF IInv, TypeOK, Procs
    <3>4. \A r \in Procs : proc'[r] =
            IF r = p THEN [vm |-> n, port |-> port[n], state |-> "starting"]
                     ELSE proc[r]
      BY <2>1, <2>2 DEF IInv, TypeOK
    <3>5. \A m \in VMs : tracked'[m] = IF m = n THEN p ELSE tracked[m]
      BY <1>2, <2>2
    <3>6. QED
      BY <2>1, <2>2, <3>1, <3>2, <3>3, <3>4, <3>5 DEF IInv, FiledInv, Started
  <2>6. PortInv'
    <3>1. \A m \in VMs : client[m] # 0 => client[m] # p /\ client[m] \in Procs
      BY <1>2, <2>1 DEF IInv, FiledInv, Procs
    <3>2. \A r \in Procs : proc'[r] =
            IF r = p THEN [vm |-> n, port |-> port[n], state |-> "starting"]
                     ELSE proc[r]
      BY <2>1, <2>2 DEF IInv, TypeOK
    <3>3. QED
      BY <2>1, <2>2, <3>1, <3>2 DEF IInv, PortInv, Started
  <2>7. QED
    BY <2>4, <2>5, <2>6 DEF IInv
<1>6. ASSUME NEW t \in Tasks, NEW n \in VMs, StartFails(t, n) \/ Reap(t, n)
      PROVE  IInv'
  BY <1>1, <1>2, <1>6, SameNamesStep DEF StartFails, Reap
<1>7. ASSUME NEW t \in Tasks, NEW n \in VMs, Stop(t, n) \/ Query(t, n)
      PROVE  IInv'
  <2>1. PICK o \in {"stop", "query"}, l \in {"asking", "querying"} :
          UseClient(t, o, n, l)
    BY <1>7 DEF Stop, Query
  <2>2. call' \in [Tasks -> Call]
    BY <1>1, <1>2, <2>1, CallLemma DEF UseClient
  <2>3. UNCHANGED <<port, nextPort, tracked, client, proc, last, asked, lost, restarts>>
    BY <1>7 DEF Stop, Query
  <2>4. QED
    BY <1>1, <1>2, <2>2, <2>3, SameNamesStep
<1>8. ASSUME NEW t \in Tasks, NEW n \in VMs, StopForced(t, n)
      PROVE  IInv'
  <2>1. /\ KillTracked(t, n, proc)
        /\ UNCHANGED <<port, nextPort, client, last, asked, lost, restarts>>
    BY <1>8 DEF StopForced
  <2>2. QED
    BY <1>1, <1>2, <2>1, KillLemma, SameNamesStep
<1>9. ASSUME NEW t \in Tasks, Continue(t)
      PROVE  IInv'
  <2> DEFINE n == call[t].vm
  <2>1. /\ n \in VMs /\ call[t] \in Call
        /\ call[t].peer \in 0..MaxProc
    BY <1>2, <1>9
    DEF Continue, Poll, Deadline, Connect, ConnectFails, QueryEnds,
        PowerdownAnswered, PowerdownFails, Closed, Call, Idle
  <2>2. CASE Poll(t) \/ QueryEnds(t)
    <3>1. call' \in [Tasks -> Call]
      BY <1>1, <1>2, <2>1, <2>2, CallLemma DEF Poll, QueryEnds
    <3>2. UNCHANGED <<port, nextPort, tracked, client, proc, last, asked, lost, restarts>>
      BY <2>2 DEF Poll, QueryEnds
    <3>3. QED
      BY <1>1, <1>2, <3>1, <3>2, SameNamesStep
  <2>3. CASE Deadline(t)
    <3>1. call' \in [Tasks -> Call]
      BY <1>1, <1>2, <2>1, <2>3, CallLemma DEF Deadline
    <3>2. /\ tracked' \in [VMs -> 0..MaxProc]
          /\ \A m \in VMs : tracked'[m] \in {0, tracked[m]}
      BY <1>2, <2>1, <2>3 DEF Deadline
    <3>3. UNCHANGED <<port, nextPort, client, proc, last, asked, restarts>>
      BY <2>3 DEF Deadline
    <3>4. lost' \subseteq Procs
      <4>1. lost' = lost \cup {p \in {tracked[n]} : Alive(p)}
        BY <2>3 DEF Deadline
      <4>2. Alive(tracked[n]) => tracked[n] \in Procs
        BY <1>2, <2>1, BoundsAssumption DEF Alive, Procs
      <4>3. QED
        BY <1>2, <4>1, <4>2
    <3>5. QED
      BY <1>1, <1>2, <3>1, <3>2, <3>3, <3>4, SameNamesStep
  <2>4. CASE Connect(t)
    <3>1. PICK p \in Reachable(n) :
            /\ client' = [client EXCEPT ![n] = p]
            /\ call' \in [Tasks -> Call]
      <4>1. PICK p \in Reachable(n) :
              /\ client' = [client EXCEPT ![n] = p]
              /\ Become(t, CASE call[t].op = "start" -> Idle
                             [] call[t].op = "stop"  -> In("stop", n, "asking", p)
                             [] call[t].op = "query" -> In("query", n, "querying", p))
        BY <2>4 DEF Connect
      <4>2. p \in 0..MaxProc
        BY BoundsAssumption DEF Reachable, Listening, Procs
      <4>3. call[t].op \in {"start", "stop", "query"}
        BY <1>2, <2>1, <2>4 DEF Connect, Call, Idle
      <4>4. QED
        BY <1>1, <1>2, <2>1, <4>1, <4>2, <4>3, CallLemma
    <3>2. /\ p \in Procs /\ p \in 0..MaxProc /\ p # 0
          /\ Started(p) /\ proc[p].port = port[n]
      BY BoundsAssumption DEF Reachable, Listening, Started, Procs
    <3>3. restarts = 0 => proc[p].vm = n
      BY <2>1, <3>2 DEF IInv, PortInv
    <3>4. UNCHANGED <<port, nextPort, tracked, proc, last, asked, lost, restarts>>
      BY <2>4 DEF Connect
    <3>5. TypeOK'
      BY <2>1, <3>1, <3>2, <3>4 DEF IInv, TypeOK
    <3>6. FiledInv'
      BY <1>2, <2>1, <3>1, <3>2, <3>3, <3>4 DEF IInv, FiledInv, Started
    <3>7. PortInv'
      BY <1>2, <2>1, <3>1, <3>2, <3>3, <3>4 DEF IInv, PortInv, Started
    <3>8. QED
      BY <3>5, <3>6, <3>7 DEF IInv
  <2>5. CASE ConnectFails(t)
    <3>1. UNCHANGED <<port, nextPort, client, last, asked, lost, restarts>>
      BY <2>5 DEF ConnectFails
    <3>2. CASE /\ Become(t, In("start", n, "poll", 0)) \/ Become(t, Idle)
               /\ UNCHANGED <<proc, tracked>>
      BY <1>1, <1>2, <2>1, <3>1, <3>2, CallLemma, SameNamesStep
    <3>3. CASE KillTracked(t, n, proc)
      BY <1>1, <1>2, <2>1, <3>1, <3>3, KillLemma, SameNamesStep
    <3>4. QED
      BY <2>5, <3>2, <3>3 DEF ConnectFails
  <2>6. CASE PowerdownAnswered(t)
    <3> DEFINE p == call[t].peer
    <3>1. p \in Procs /\ Started(p)
      BY <2>1, <2>6, BoundsAssumption DEF PowerdownAnswered, Alive, Started, Procs
    <3>2. SameNames([proc EXCEPT ![p].state = "dead"])
      BY <1>1, <3>1, OneDies
    <3>3. PICK procs : SameNames(procs) /\ KillTracked(t, n, procs)
      BY <1>1, <2>6, <3>2 DEF PowerdownAnswered
    <3>4. /\ asked' \subseteq Procs
          /\ UNCHANGED <<port, nextPort, client, last, lost, restarts>>
      BY <1>2, <2>6, <3>1 DEF PowerdownAnswered
    <3>5. QED
      BY <1>2, <2>1, <3>3, <3>4, KillLemma, SameNamesStep
  <2>7. CASE PowerdownFails(t)
    <3>1. /\ KillTracked(t, n, proc)
          /\ UNCHANGED <<port, nextPort, client, last, asked, lost, restarts>>
      BY <2>7 DEF PowerdownFails
    <3>2. QED
      BY <1>1, <1>2, <2>1, <3>1, KillLemma, SameNamesStep
  <2>8. CASE Closed(t)
    <3>1. call' \in [Tasks -> Call]
      BY <1>1, <1>2, <2>1, <2>8, CallLemma DEF Closed
    <3>2. /\ client' \in [VMs -> 0..MaxProc]
          /\ \A m \in VMs : client'[m] \in {0, client[m]}
      BY <1>2, <2>1, <2>8 DEF Closed
    <3>3. UNCHANGED <<port, nextPort, tracked, proc, last, asked, lost, restarts>>
      BY <2>8 DEF Closed
    <3>4. QED
      BY <1>1, <1>2, <3>1, <3>2, <3>3, SameNamesStep
  <2>9. QED
    BY <1>9, <2>2, <2>3, <2>4, <2>5, <2>6, <2>7, <2>8 DEF Continue
<1>10. ASSUME NEW p \in Procs, Bind(p) \/ Exit(p)
       PROVE  IInv'
  <2>1. Started(p)
    BY <1>10 DEF Bind, Exit, Alive, Started
  <2>2. PICK s \in {"listening", "dead"} : proc' = [proc EXCEPT ![p].state = s]
    BY <1>10 DEF Bind, Exit
  <2>3. SameNames(proc')
    BY <1>1, <2>1, <2>2 DEF SameNames, TypeOK, Started
  <2>4. UNCHANGED <<port, nextPort, tracked, client, last, call, asked, lost, restarts>>
    BY <1>10 DEF Bind, Exit
  <2>5. QED
    BY <1>1, <1>2, <2>3, <2>4, SameNamesStep
<1>11. CASE Restart
  <2>1. /\ restarts' \in 0..MaxRestart /\ restarts' # 0 /\ nextPort' \in Nat
    BY <1>11, BoundsAssumption, PortsAssumption DEF Restart, IInv, TypeOK
  <2>2. /\ tracked' \in [VMs -> 0..MaxProc] /\ client' \in [VMs -> 0..MaxProc]
        /\ call' \in [Tasks -> Call] /\ lost' \subseteq Procs
    BY <1>2, <1>11 DEF Restart
  <2>3. UNCHANGED <<port, proc, last, asked>>
    BY <1>11 DEF Restart
  <2>4. TypeOK'
    BY <2>1, <2>2, <2>3 DEF IInv, TypeOK
  <2>5. FiledInv'
    BY <1>11, <2>3 DEF Restart, IInv, FiledInv, Started
  <2>6. QED
    BY <2>1, <2>4, <2>5 DEF IInv, PortInv
<1>12. CASE UNCHANGED vars
  BY <1>1, <1>2, <1>12, SameNamesStep DEF vars
<1>13. QED
  BY <1>3, <1>4, <1>5, <1>6, <1>7, <1>8, <1>9, <1>10, <1>11, <1>12 DEF Next

LEMMA InvInit == Init => IInv
<1>1. SUFFICES ASSUME Init PROVE IInv
  OBVIOUS
<1>2. TypeOK
  <2>1. NoProc \in [vm : VMs \cup {NoVM}, port : {0} \cup Ports,
                    state : {"none", "starting", "listening", "dead"}]
    BY DEF NoProc
  <2>2. QED
    BY <1>1, <2>1, BoundsAssumption, PortsAssumption DEF Init, TypeOK, Call
<1>3. FiledInv /\ PortInv
  BY <1>1, PortsAssumption
  DEF Init, FiledInv, PortInv, Started, NoProc, Procs
<1>4. QED
  BY <1>2, <1>3 DEF IInv

\* The type invariant.
THEOREM LifecycleType == Spec => []TypeOK
<1>1. IInv /\ [Next]_vars => IInv'
  BY InvStep
<1>2. IInv => TypeOK
  BY DEF IInv
<1>3. QED
  BY InvInit, <1>1, <1>2, PTL DEF Spec

\* The client filed under a name talks to a QEMU of that name until the server
\* is restarted: stop_vm() and every command reach the VM they were meant for.
THEOREM ClientsAreOwn == Spec => []OwnClient
<1>1. IInv /\ [Next]_vars => IInv'
  BY InvStep
<1>2. IInv => OwnClient
  BY DEF IInv, PortInv, OwnClient
<1>3. QED
  BY InvInit, <1>1, <1>2, PTL DEF Spec

-----------------------------------------------------------------------------
\* KillTracked forgets the process it kills.
LEMMA KillNoOrphan ==
  ASSUME IInv, NoOrphan, NEW t \in Tasks, NEW n \in VMs, NEW procs,
         SameNames(procs), KillTracked(t, n, procs), lost' = lost,
         \A p \in Procs : procs[p].state \in {"starting", "listening"} => Alive(p)
  PROVE  NoOrphan'
<1>1. /\ tracked \in [VMs -> 0..MaxProc]
      /\ procs \in [Procs -> [vm : VMs \cup {NoVM}, port : {0} \cup Ports,
                            state : {"none", "starting", "listening", "dead"}]]
      /\ 0 \notin Procs
  BY BoundsAssumption DEF IInv, TypeOK, SameNames, Procs
<1>2. CASE tracked[n] = 0
  BY <1>1, <1>2 DEF KillTracked, NoOrphan, Alive, SameNames
<1>3. CASE tracked[n] # 0
  <2>1. tracked[n] \in Procs
    BY <1>1, <1>3 DEF Procs
  <2>2. /\ proc' = [procs EXCEPT ![tracked[n]].state = "dead"]
        /\ tracked' = [tracked EXCEPT ![n] = 0]
    BY <1>3 DEF KillTracked
  <2>3. SUFFICES ASSUME NEW p \in Procs, Alive(p)', p \notin lost'
                 PROVE  tracked'[proc'[p].vm] = p
    BY DEF NoOrphan
  <2>4. p # tracked[n] /\ proc'[p] = procs[p]
    BY <1>1, <2>1, <2>2, <2>3 DEF Alive
  <2>5. Alive(p) /\ procs[p].vm = proc[p].vm
    BY <2>3, <2>4 DEF Alive, SameNames
  <2>6. tracked[proc[p].vm] = p /\ proc[p].vm # n
    BY <2>3, <2>4, <2>5 DEF NoOrphan
  <2>7. QED
    BY <1>1, <2>2, <2>4, <2>5, <2>6
<1>4. QED
  BY <1>2, <1>3

LEMMA OrphanStep ==
  ASSUME IInv, NoOrphan, [Next]_vars
  PROVE  NoOrphan'
<1>1. /\ tracked \in [VMs -> 0..MaxProc] /\ SameNames(proc)
      /\ call \in [Tasks -> Call]
      /\ proc \in [Procs -> [vm : VMs \cup {NoVM}, port : {0} \cup Ports,
                           state : {"none", "starting", "listening", "dead"}]]
      /\ 0 \notin Procs
  BY NoneDie, BoundsAssumption DEF IInv, TypeOK, Procs
<1>2. ASSUME NEW t \in Tasks, NEW n \in VMs, Start(t, n)
      PROVE  NoOrphan'
  <2> DEFINE p == last + 1
  <2>1. /\ p \in Procs /\ ~Alive(tracked[n])
        /\ proc' = [proc EXCEPT ![p] =
                     [vm |-> n, port |-> port[n], state |-> "starting"]]
        /\ tracked' = [tracked EXCEPT ![n] = p] /\ lost' = lost
    BY <1>2, BoundsAssumption DEF Start, IInv, TypeOK, Procs
  <2>2. SUFFICES ASSUME NEW q \in Procs, Alive(q)', q \notin lost'
                 PROVE  tracked'[proc'[q].vm] = q
    BY DEF NoOrphan
  <2>3. CASE q = p
    BY <1>1, <2>1, <2>3
  <2>4. CASE q # p
    <3>1. proc'[q] = proc[q] /\ Alive(q)
      BY <1>1, <2>1, <2>2, <2>4 DEF Alive
    <3>2. tracked[proc[q].vm] = q /\ proc[q].vm # n
      BY <2>1, <2>2, <3>1 DEF NoOrphan
    <3>3. QED
      BY <1>1, <2>1, <3>1, <3>2
  <2>5. QED
    BY <2>3, <2>4
<1>3. ASSUME NEW n \in VMs, ~Alive(tracked[n]) \/ lost' = lost \cup {tracked[n]},
             tracked' = [tracked EXCEPT ![n] = 0], proc' = proc,
             lost \subseteq lost'
      PROVE  NoOrphan'
  <2>1. SUFFICES ASSUME NEW q \in Procs, Alive(q)', q \notin lost'
                 PROVE  tracked'[proc'[q].vm] = q
    BY DEF NoOrphan
  <2>2. Alive(q) /\ q \notin lost
    BY <1>3, <2>1 DEF Alive
  <2>3. tracked[proc[q].vm] = q
    BY <2>2 DEF NoOrphan
  <2>4. proc[q].vm # n
    BY <1>3, <2>1, <2>2, <2>3
  <2>5. QED
    BY <1>1, <1>3, <2>3, <2>4
<1>4. ASSUME NEW t \in Tasks, NEW n \in VMs, StartFails(t, n) \/ Reap(t, n)
      PROVE  NoOrphan'
  BY <1>3, <1>4 DEF StartFails, Reap
<1>5. ASSUME UNCHANGED <<proc, tracked, lost>>
      PROVE  NoOrphan'
  BY <1>5 DEF NoOrphan, Alive
<1>6. ASSUME NEW t \in Tasks, NEW n \in VMs,
             Create(t, n) \/ Destroy(t, n) \/ Stop(t, n) \/ Query(t, n)
      PROVE  NoOrphan'
  BY <1>5, <1>6 DEF Create, Destroy, Stop, Query
<1>7. \A p \in Procs : proc[p].state \in {"starting", "listening"} => Alive(p)
  BY <1>1 DEF Alive
<1>8. ASSUME NEW t \in Tasks, NEW n \in VMs, StopForced(t, n)
      PROVE  NoOrphan'
  BY <1>1, <1>7, <1>8, KillNoOrphan DEF StopForced
<1>9. ASSUME NEW t \in Tasks, Continue(t)
      PROVE  NoOrphan'
  <2> DEFINE n == call[t].vm
  <2>1. n \in VMs /\ call[t].peer \in 0..MaxProc
    BY <1>1, <1>9
    DEF Continue, Poll, Deadline, Connect, ConnectFails, QueryEnds,
        PowerdownAnswered, PowerdownFails, Closed, Call, Idle
  <2>2. CASE Poll(t) \/ QueryEnds(t) \/ Connect(t) \/ Closed(t)
    BY <1>5, <2>2 DEF Poll, QueryEnds, Connect, Closed
  <2>3. CASE Deadline(t)
    <3>1. /\ tracked' = [tracked EXCEPT ![n] = 0] /\ proc' = proc
          /\ lost' = lost \cup {p \in {tracked[n]} : Alive(p)}
      BY <2>3 DEF Deadline
    <3>2. QED
      BY <1>3, <2>1, <3>1
  <2>4. CASE ConnectFails(t)
    <3>1. lost' = lost /\ (UNCHANGED <<proc, tracked>> \/ KillTracked(t, n, proc))
      BY <2>4 DEF ConnectFails
    <3>2. QED
      BY <1>1, <1>5, <1>7, <2>1, <3>1, KillNoOrphan
  <2>5. CASE PowerdownAnswered(t)
    <3> DEFINE p == call[t].peer
    <3>1. p \in Procs /\ Started(p)
      BY <2>1, <2>5, BoundsAssumption DEF PowerdownAnswered, Alive, Started, Procs
    <3>2. SameNames([proc EXCEPT ![p].state = "dead"])
      BY <3>1, OneDies DEF IInv
    <3>3. \A q \in Procs : [proc EXCEPT ![p].state = "dead"][q].state
                            \in {"starting", "listening"} => Alive(q)
      BY <1>1, <1>7, <3>1
    <3>4. PICK procs :
            /\ SameNames(procs) /\ KillTracked(t, n, procs)
            /\ \A q \in Procs : procs[q].state \in {"starting", "listening"} => Alive(q)
      BY <1>1, <1>7, <2>5, <3>2, <3>3 DEF PowerdownAnswered
    <3>5. lost' = lost
      BY <2>5 DEF PowerdownAnswered
    <3>6. QED
      BY <2>1, <3>4, <3>5, KillNoOrphan
  <2>6. CASE PowerdownFails(t)
    BY <1>1, <1>7, <2>1, <2>6, KillNoOrphan DEF PowerdownFails
  <2>7. QED
    BY <1>9, <2>2, <2>3, <2>4, <2>5, <2>6 DEF Continue
<1>10. ASSUME NEW p \in Procs, Bind(p) \/ Exit(p)
       PROVE  NoOrphan'
  <2>1. Alive(p) /\ UNCHANGED <<tracked, lost>>
    BY <1>1, <1>10 DEF Bind, Exit, Alive
  <2>2. PICK s : proc' = [proc EXCEPT ![p].state = s]
    BY <1>10 DEF Bind, Exit
  <2>3. \A q \in Procs : proc'[q].vm = proc[q].vm /\ (q # p => proc'[q] = proc[q])
    BY <1>1, <2>2
  <2>4. QED
    BY <2>1, <2>3 DEF NoOrphan, Alive
<1>11. CASE Restart
  BY <1>11 DEF Restart, NoOrphan, Alive
<1>12. CASE UNCHANGED vars
  BY <1>5, <1>12 DEF vars
<1>13. QED
  BY <1>2, <1>4, <1>6, <1>8, <1>9, <1>10, <1>11, <1>12 DEF Next

LEMMA OrphanInit == Init => NoOrphan
BY DEF Init, NoOrphan, Alive, NoProc

\* Every QEMU that runs can be stopped by its name, unless a deadline or a
\* restart of the server lost it: for any calls of any tasks.
THEOREM NothingOrphaned == Spec => []NoOrphan
<1>1. IInv /\ NoOrphan /\ [Next]_vars => IInv' /\ NoOrphan'
  BY InvStep, OrphanStep
<1>2. QED
  BY InvInit, OrphanInit, <1>1, PTL DEF Spec

\* A VM that is deleted runs no QEMU that is not lost.
THEOREM DestroysStopped == Spec => DestroyStopped
<1> DEFINE Kept == \A n \in VMs : Exists(n) /\ ~Exists(n)' =>
                     \A p \in Procs : Alive(p) /\ proc[p].vm = n => p \in lost
<1>1. ASSUME IInv, NoOrphan, [Next]_vars
      PROVE  [Kept]_vars
  <2>1. SUFFICES ASSUME NEW n \in VMs, port[n] # 0, port'[n] = 0,
                        NEW p \in Procs, Alive(p), proc[p].vm = n
                 PROVE  p \in lost
    BY DEF Exists
  <2>2. /\ port \in [VMs -> {0} \cup Ports] /\ 0 \notin Ports /\ 0 \notin Procs
    BY <1>1, BoundsAssumption, PortsAssumption DEF IInv, TypeOK, Ports, Procs
  <2>3. ASSUME NEW t \in Tasks, NEW m \in VMs, Create(t, m)
        PROVE  FALSE
    BY <2>1, <2>2, <2>3 DEF Create
  <2>4. ASSUME NEW t \in Tasks, NEW m \in VMs, Destroy(t, m)
        PROVE  tracked[n] = 0
    BY <2>1, <2>2, <2>4 DEF Destroy
  <2>5. PICK t \in Tasks, m \in VMs : Destroy(t, m)
    BY <1>1, <2>1, <2>3
    DEF Next, vars, Start, StartFails, Stop, StopForced, Query, Reap, Continue,
        Poll, Deadline, Connect, ConnectFails, QueryEnds, PowerdownAnswered,
        PowerdownFails, Closed, Bind, Exit, Restart
  <2>6. QED
    BY <1>1, <2>1, <2>2, <2>4, <2>5 DEF NoOrphan
<1>2. IInv /\ NoOrphan /\ [Next]_vars => IInv' /\ NoOrphan'
  BY InvStep, OrphanStep
<1>3. IInv /\ NoOrphan /\ [Next]_vars => [Kept]_vars
  BY <1>1
<1>4. QED
  BY InvInit, OrphanInit, <1>2, <1>3, PTL DEF Spec, DestroyStopped

-----------------------------------------------------------------------------
\* Where QEMU answers in time, only the death of the server loses a process.
NoneLost == restarts = 0 => lost = {}

\* start_vm() never runs a second QEMU of a VM that runs, while QEMU answers in
\* time and the server lives, whatever calls interleave and however guests exit:
\* it takes a deadline that passes, or a restart, to break the promise.
THEOREM OneProcessInTime ==
  ASSUME Slow = FALSE
  PROVE  Spec => [](restarts = 0 => OneProcess)
<1>1. Init => NoneLost
  BY DEF Init, NoneLost
<1>2. ASSUME IInv, NoneLost, [Next]_vars
      PROVE  NoneLost'
  <2>1. CASE Restart
    <3>1. restarts' # 0
      BY <1>2, <2>1 DEF Restart, IInv, TypeOK
    <3>2. QED
      BY <3>1 DEF NoneLost
  <2>2. ASSUME NEW t \in Tasks, Deadline(t)
        PROVE  NoneLost'
    <3>1. ~Alive(tracked[call[t].vm])
      BY <2>2 DEF Deadline
    <3>2. lost' = lost /\ restarts' = restarts
      BY <2>2, <3>1 DEF Deadline
    <3>3. QED
      BY <1>2, <3>2 DEF NoneLost
  <2>3. ASSUME ~Restart, \A t \in Tasks : ~Deadline(t)
        PROVE  lost' = lost /\ restarts' = restarts
    BY <1>2, <2>3
    DEF Next, vars, Create, Destroy, Start, StartFails, Stop, StopForced, Query, Reap,
        Continue, Poll, Connect, ConnectFails, QueryEnds, PowerdownAnswered,
        PowerdownFails, Closed, Bind, Exit
  <2>4. QED
    BY <1>2, <2>1, <2>2, <2>3 DEF NoneLost
<1>3. NoneLost /\ NoOrphan => (restarts = 0 => OneProcess)
  BY DEF NoneLost, NoOrphan, OneProcess
<1>4. IInv /\ NoneLost /\ [Next]_vars => IInv' /\ NoneLost'
  BY <1>2, InvStep
<1>5. QED
  BY InvInit, <1>1, <1>3, <1>4, NothingOrphaned, PTL DEF Spec
=============================================================================
