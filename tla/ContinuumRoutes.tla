-------------------------- MODULE ContinuumRoutes --------------------------
(***************************************************************************)
(* continuum/manager.py: the table of routes to other nodes, shared by     *)
(* tasks of one event loop that call connect(), send_to() and              *)
(* disconnect(), by the clean-up task and by shutdown().                   *)
(*                                                                         *)
(* Between two awaits a task runs alone, so each action below is what a    *)
(* task does from one await to the next.  The table is changed under       *)
(* _route_lock, an asyncio.Lock that serves its waiters in order, except   *)
(* by disconnect(), which does not take it.                                *)
(*                                                                         *)
(* A transport either establishes a connection or fails; a connection is   *)
(* open until a send or a receive fails on it, and is closed only by       *)
(* close(), which may wait for its close frame to be sent.  The failover   *)
(* of degraded routes is left out: nothing ever marks a route DEGRADED.    *)
(***************************************************************************)
EXTENDS Naturals, Sequences, SequencesExt

CONSTANTS
  Nodes,      \* nodes of the network
  Clients,    \* tasks that call the manager
  Cleaner,    \* the task of _cleanup_loop
  Stopper,    \* the task that calls shutdown
  NoHolder,   \* the lock is free
  NoRoute,    \* the table has no route to the node
  MaxConns,   \* bound: connections established
  MaxTries,   \* attempts of one connect(), over all transports
  MaxSends    \* self._max_retries: attempts of one send_to()

ASSUME RoutesBounds == /\ MaxConns \in Nat
                       /\ MaxTries \in Nat \ {0}
                       /\ MaxSends \in Nat \ {0}
ASSUME RoutesTasks  == /\ Cleaner # Stopper
                       /\ {Cleaner, Stopper} \cap Clients = {}
                       /\ NoHolder \notin Clients \cup {Cleaner, Stopper}
ASSUME RoutesNodes  == Nodes # {}
ASSUME NoRouteAssumption == NoRoute \notin [conn : 1..MaxConns, shut : BOOLEAN]

VARIABLES
  link,     \* state of each connection
  made,     \* connections established so far
  table,    \* self._active_routes
  holder,   \* the task that holds _route_lock
  waiters,  \* the tasks that wait for it, in order
  at,       \* where each task waits
  doing,    \* the call each task is in
  node,     \* the node the call is about
  mine,     \* the connection the call has established, or sends on
  old,      \* the connection the task is closing
  tries,    \* attempts of its connect()
  sends,    \* attempts of its send_to()
  rest,     \* what the clean-up, or shutdown(), has still to close
  dropped   \* connections taken out of the table without being closed

routesVars == <<link, made, table, holder, waiters, at, doing, node, mine,
                old, tries, sends, rest, dropped>>

Links       == 1..MaxConns
NoLink      == 0
AnyNode     == CHOOSE n \in Nodes : TRUE    \* of a task in no call
EveryTask   == Clients \cup {Cleaner, Stopper}
Route(c)    == [conn |-> c, shut |-> FALSE]
Unclosed(c) == link[c] \in {"open", "failed"}

\* Route.is_healthy() of the route to n, if there is one.
HasHealthy(n) == /\ table[n] # NoRoute
                 /\ ~table[n].shut
                 /\ link[table[n].conn] = "open"

InTable(c) == \E n \in Nodes : table[n] # NoRoute /\ table[n].conn = c

RoutesTypeOK ==
  /\ link \in [Links -> {"none", "open", "failed", "closed"}]
  /\ made \in 0..MaxConns
  /\ table \in [Nodes -> [conn : Links, shut : BOOLEAN] \cup {NoRoute}]
  /\ holder \in EveryTask \cup {NoHolder}
  /\ waiters \in Seq(EveryTask)
  /\ at \in [EveryTask -> {"idle", "establishing", "backoff",
                           "locking", "closing", "relocking", "sending",
                           "dropping", "resting", "cancelling", "over"}]
  /\ doing \in [Clients -> {"none", "connect", "send", "disconnect"}]
  /\ node \in [Clients -> Nodes]
  /\ mine \in [Clients -> Links \cup {NoLink}]
  /\ old \in [EveryTask -> Links \cup {NoLink}]
  /\ tries \in [Clients -> 0..MaxTries]
  /\ sends \in [Clients -> 0..MaxSends]
  /\ rest \in [{Cleaner, Stopper} -> SUBSET (Nodes \cup Links)]
  /\ dropped \subseteq Links

RoutesInit ==
  /\ link = [c \in Links |-> "none"]
  /\ made = 0
  /\ table = [n \in Nodes |-> NoRoute]
  /\ holder = NoHolder
  /\ waiters = <<>>
  /\ at = [t \in EveryTask |-> "idle"]
  /\ doing = [t \in Clients |-> "none"]
  /\ node = [t \in Clients |-> AnyNode]
  /\ mine = [t \in Clients |-> NoLink]
  /\ old = [t \in EveryTask |-> NoLink]
  /\ tries = [t \in Clients |-> 0]
  /\ sends = [t \in Clients |-> 0]
  /\ rest = [t \in {Cleaner, Stopper} |-> {}]
  /\ dropped = {}

(***************************************************************************)
(* The lock.                                                               *)
(***************************************************************************)

\* A release hands the lock to the first that waits.
Release ==
  /\ holder' = IF waiters = <<>> THEN NoHolder ELSE Head(waiters)
  /\ waiters' = IF waiters = <<>> THEN <<>> ELSE Tail(waiters)

\* t waits for the lock at p.
Queue(t, p) ==
  /\ holder # NoHolder
  /\ waiters' = Append(waiters, t)
  /\ at' = [at EXCEPT ![t] = p]
  /\ UNCHANGED holder

\* t stops waiting: it leaves its place in the line.
Leave(t) ==
  /\ \/ \E i \in 1..Len(waiters) : waiters[i] = t /\ waiters' = RemoveAt(waiters, i)
     \/ (\A i \in 1..Len(waiters) : waiters[i] # t) /\ UNCHANGED waiters
  /\ UNCHANGED holder

\* t returns from its call.
Return(t) ==
  /\ at' = [at EXCEPT ![t] = "idle"]
  /\ doing' = [doing EXCEPT ![t] = "none"]
  /\ node' = [node EXCEPT ![t] = AnyNode]
  /\ mine' = [mine EXCEPT ![t] = NoLink]
  /\ tries' = [tries EXCEPT ![t] = 0]
  /\ sends' = [sends EXCEPT ![t] = 0]

Stands(t, p) == at[t] = p
Go(t, p) == at' = [at EXCEPT ![t] = p]

\* What most steps leave alone.
lockVars == <<holder, waiters>>
connVars == <<link, made>>
callVars == <<doing, node, mine, tries, sends>>

(***************************************************************************)
(* connect() and send_to().                                                *)
(***************************************************************************)

\* connect() hands out the healthy route there is, or probes the transports and
\* tries to establish a connection; it reads nothing between these awaits.
BeginConnect(t, n) ==
  /\ Stands(t, "idle")
  /\ ~HasHealthy(n)
  /\ doing' = [doing EXCEPT ![t] = "connect"]
  /\ node' = [node EXCEPT ![t] = n]
  /\ Go(t, "establishing")
  /\ UNCHANGED <<connVars, table, lockVars, mine, old, tries, sends, rest, dropped>>

\* One attempt of send_to(): on the healthy route there is, or on a new one.
AttemptSend(t, n) ==
  /\ sends' = [sends EXCEPT ![t] = @ + 1]
  /\ doing' = [doing EXCEPT ![t] = "send"]
  /\ node' = [node EXCEPT ![t] = n]
  /\ tries' = [tries EXCEPT ![t] = 0]
  /\ IF HasHealthy(n)
     THEN mine' = [mine EXCEPT ![t] = table[n].conn] /\ Go(t, "sending")
     ELSE mine' = [mine EXCEPT ![t] = NoLink] /\ Go(t, "establishing")
  /\ UNCHANGED <<connVars, table, lockVars, old, rest, dropped>>

BeginSend(t, n) == Stands(t, "idle") /\ AttemptSend(t, n)

\* No transport reaches the node: the call raises.
Unreachable(t) ==
  /\ Stands(t, "establishing")
  /\ tries[t] = 0
  /\ Return(t)
  /\ UNCHANGED <<connVars, table, lockVars, old, rest, dropped>>

\* Fault: setdefault(), which leaves an old route in place.
InstalledIfAbsent(t, c) ==
  /\ table' = [table EXCEPT ![node[t]] = IF @ = NoRoute THEN Route(c) ELSE @]
  /\ Release
  /\ Return(t)

\* The end of connect(): the new route is in the table and the lock is
\* released.  In send_to(), _reconnect_route() takes the lock again at once:
\* alone it stores the same connection once more, else it waits its turn.
Installed(t, c) ==
  /\ table' = [table EXCEPT ![node[t]] = Route(c)]
  /\ IF doing[t] = "connect"
     THEN Release /\ Return(t)
     ELSE /\ IF waiters = <<>>
             THEN Release /\ Go(t, "sending")
             ELSE /\ holder' = Head(waiters)
                  /\ waiters' = Append(Tail(waiters), t)
                  /\ Go(t, "relocking")
          /\ mine' = [mine EXCEPT ![t] = c]
          /\ UNCHANGED <<doing, node, tries, sends>>

\* Fault: the old route is replaced without being closed.
InstallOver(t, c) == Installed(t, c) /\ UNCHANGED old

\* connect() inside the lock: an old route is closed before it is replaced.
Install(t, c) ==
  IF table[node[t]] = NoRoute
  THEN Installed(t, c) /\ UNCHANGED old
  ELSE /\ old' = [old EXCEPT ![t] = table[node[t]].conn]
       /\ table' = [table EXCEPT ![node[t]].shut = TRUE]
       /\ holder' = t
       /\ mine' = [mine EXCEPT ![t] = c]
       /\ Go(t, "closing")
       /\ UNCHANGED <<waiters, doing, node, tries, sends>>

\* A transport has established a connection.
Establish(t) ==
  /\ Stands(t, "establishing")
  /\ made < MaxConns
  /\ made' = made + 1
  /\ link' = [link EXCEPT ![made + 1] = "open"]
  /\ \/ holder = NoHolder /\ Install(t, made + 1)
     \/ /\ Queue(t, "locking")
        /\ mine' = [mine EXCEPT ![t] = made + 1]
        /\ UNCHANGED <<table, old, doing, node, tries, sends>>
  /\ UNCHANGED <<rest, dropped>>

TakeTurn(t) ==
  /\ Stands(t, "locking")
  /\ holder = t
  /\ Install(t, mine[t])
  /\ UNCHANGED <<connVars, rest, dropped>>

\* The old route's connection is closed; whatever the table holds by now is
\* replaced.
OldClosed(t) ==
  /\ Stands(t, "closing")
  /\ doing[t] # "disconnect"
  /\ link' = [link EXCEPT ![old[t]] = "closed"]
  /\ old' = [old EXCEPT ![t] = NoLink]
  /\ Installed(t, mine[t])
  /\ UNCHANGED <<made, rest, dropped>>

\* An attempt fails; connect() sleeps and tries again until it gives up.
EstablishFails(t) ==
  /\ Stands(t, "establishing")
  /\ tries' = [tries EXCEPT ![t] = @ + 1]
  /\ Go(t, "backoff")
  /\ UNCHANGED <<connVars, table, lockVars, doing, node, mine, sends, old, rest, dropped>>

TryAgain(t) ==
  /\ Stands(t, "backoff")
  /\ IF tries[t] < MaxTries
     THEN Go(t, "establishing") /\ UNCHANGED callVars
     ELSE Return(t)
  /\ UNCHANGED <<connVars, table, lockVars, old, rest, dropped>>

\* _reconnect_route() stores its route over whatever the table holds by now.
Reinstall(t) ==
  LET there == table[node[t]] IN
  /\ Stands(t, "relocking")
  /\ holder = t
  /\ table' = [table EXCEPT ![node[t]] = Route(mine[t])]
  /\ dropped' = dropped \cup {c \in Links : /\ there # NoRoute
                                          /\ c = there.conn
                                          /\ c # mine[t]}
  /\ Release
  /\ Go(t, "sending")
  /\ UNCHANGED <<connVars, callVars, old, rest>>

\* The send is over, or it raises something other than TransportError, as on a
\* closed websocket: the call ends, and the table stays as it is.
SendDone(t) ==
  /\ Stands(t, "sending")
  /\ Return(t)
  /\ UNCHANGED <<connVars, table, lockVars, old, rest, dropped>>

\* Fault: the lock is kept.
DropLocked(t) ==
  /\ table' = [table EXCEPT ![node[t]] = NoRoute]
  /\ dropped' = dropped \cup {mine[t]}
  /\ holder' = t
  /\ Go(t, "resting")
  /\ UNCHANGED <<waiters, doing, tries, sends, old, rest, made, node, mine>>

\* send_to() after an error: whatever route the table holds is taken out, no
\* connection is closed, and the next attempt waits.
Drop(t) ==
  LET there == table[node[t]] IN
  /\ table' = [table EXCEPT ![node[t]] = NoRoute]
  /\ dropped' = dropped \cup {mine[t]}
                      \cup {c \in Links : there # NoRoute /\ c = there.conn}
  /\ Release
  /\ Go(t, "resting")
  /\ UNCHANGED <<doing, tries, sends, old, rest, made, node, mine>>

\* The send raises TransportError; the connection has failed, or had been
\* closed by another task.
SendFails(t) ==
  /\ Stands(t, "sending")
  /\ link' = [link EXCEPT ![mine[t]] = IF @ = "closed" THEN @ ELSE "failed"]
  /\ \/ holder = NoHolder /\ Drop(t)
     \/ /\ Queue(t, "dropping")
        /\ UNCHANGED <<made, table, callVars, old, rest, dropped>>

DropTurn(t) ==
  /\ Stands(t, "dropping")
  /\ holder = t
  /\ Drop(t)
  /\ UNCHANGED link

\* Fault: one attempt too many.
SendAgainOnce(t) ==
  /\ Stands(t, "resting")
  /\ \/ sends[t] <= MaxSends /\ AttemptSend(t, node[t])
     \/ /\ sends[t] = MaxSends
        /\ Return(t)
        /\ UNCHANGED <<connVars, table, lockVars, old, rest, dropped>>

SendAgain(t) ==
  /\ Stands(t, "resting")
  /\ \/ sends[t] < MaxSends /\ AttemptSend(t, node[t])
     \/ /\ sends[t] = MaxSends
        /\ Return(t)
        /\ UNCHANGED <<connVars, table, lockVars, old, rest, dropped>>

(***************************************************************************)
(* disconnect().                                                           *)
(***************************************************************************)

DisconnectNode(t, n) ==
  /\ Stands(t, "idle")
  /\ table[n] # NoRoute
  /\ doing' = [doing EXCEPT ![t] = "disconnect"]
  /\ node' = [node EXCEPT ![t] = n]
  /\ old' = [old EXCEPT ![t] = table[n].conn]
  /\ table' = [table EXCEPT ![n] = NoRoute]
  /\ Go(t, "closing")
  /\ UNCHANGED <<connVars, lockVars, mine, tries, sends, rest, dropped>>

NodeDisconnected(t) ==
  /\ Stands(t, "closing")
  /\ doing[t] = "disconnect"
  /\ link' = [link EXCEPT ![old[t]] = "closed"]
  /\ old' = [old EXCEPT ![t] = NoLink]
  /\ Return(t)
  /\ UNCHANGED <<made, table, lockVars, rest, dropped>>

(***************************************************************************)
(* _cleanup_loop(): routes too old or idle for too long are closed, one    *)
(* after the other, under the lock.                                        *)
(***************************************************************************)

\* The next stale route.  One that disconnect() has removed in the meantime
\* raises KeyError, which ends the round.
Sweep(stale) ==
  \/ /\ \/ stale = {}
        \/ \E n \in stale : table[n] = NoRoute
     /\ rest' = [rest EXCEPT ![Cleaner] = {}]
     /\ Release
     /\ Go(Cleaner, "idle")
     /\ UNCHANGED <<table, old>>
  \/ \E n \in stale :
       /\ table[n] # NoRoute
       /\ old' = [old EXCEPT ![Cleaner] = table[n].conn]
       /\ table' = [table EXCEPT ![n] = NoRoute]
       /\ rest' = [rest EXCEPT ![Cleaner] = stale \ {n}]
       /\ holder' = Cleaner
       /\ Go(Cleaner, "closing")
       /\ UNCHANGED waiters

Stale == {s \in SUBSET Nodes : \A n \in s : table[n] # NoRoute}

CleanUp ==
  /\ Stands(Cleaner, "idle")
  /\ \/ holder = NoHolder /\ \E s \in Stale \ {{}} : Sweep(s)
     \/ Queue(Cleaner, "locking") /\ UNCHANGED <<table, old, rest>>
  /\ UNCHANGED <<connVars, callVars, dropped>>

CleanerTurn ==
  /\ Stands(Cleaner, "locking")
  /\ holder = Cleaner
  /\ \E s \in Stale : Sweep(s)
  /\ UNCHANGED <<connVars, callVars, dropped>>

StaleClosed ==
  /\ Stands(Cleaner, "closing")
  /\ link' = [link EXCEPT ![old[Cleaner]] = "closed"]
  /\ \/ /\ \/ rest[Cleaner] = {}
           \/ \E n \in rest[Cleaner] : table[n] = NoRoute
        /\ rest' = [rest EXCEPT ![Cleaner] = {}]
        /\ old' = [old EXCEPT ![Cleaner] = NoLink]
        /\ Release
        /\ Go(Cleaner, "idle")
        /\ UNCHANGED table
     \/ rest[Cleaner] # {} /\ Sweep(rest[Cleaner]) /\ at'[Cleaner] = "closing"
  /\ UNCHANGED <<made, callVars, dropped>>

(***************************************************************************)
(* shutdown().                                                             *)
(***************************************************************************)

\* The clean-up task is cancelled wherever it waits.  Inside close() the
\* cancellation goes through _close_route(), and the connection stays as it
\* was.
CancelCleaner ==
  /\ Stands(Stopper, "idle")
  /\ at' = [at EXCEPT ![Stopper] = "cancelling", ![Cleaner] = "over"]
  /\ IF holder = Cleaner THEN Release ELSE Leave(Cleaner)
  /\ dropped' = dropped \cup ({old[Cleaner]} \ {NoLink})
  /\ old' = [old EXCEPT ![Cleaner] = NoLink]
  /\ rest' = [rest EXCEPT ![Cleaner] = {}]
  /\ UNCHANGED <<connVars, table, callVars>>

\* The next route of the list made when the lock was taken; after the last
\* one the table is cleared.
CloseNext(open) ==
  IF open = {}
  THEN /\ table' = [n \in Nodes |-> NoRoute]
       /\ rest' = [rest EXCEPT ![Stopper] = {}]
       /\ old' = [old EXCEPT ![Stopper] = NoLink]
       /\ Release
       /\ Go(Stopper, "over")
  ELSE \E c \in open :
         /\ old' = [old EXCEPT ![Stopper] = c]
         /\ rest' = [rest EXCEPT ![Stopper] = open \ {c}]
         /\ table' = [n \in Nodes |-> IF table[n] # NoRoute /\ table[n].conn = c
                                      THEN [table[n] EXCEPT !.shut = TRUE]
                                      ELSE table[n]]
         /\ holder' = Stopper
         /\ Go(Stopper, "closing")
         /\ UNCHANGED waiters

Listed == {c \in Links : InTable(c)}

Shutdown ==
  /\ Stands(Stopper, "cancelling")
  /\ \/ holder = NoHolder /\ CloseNext(Listed)
     \/ Queue(Stopper, "locking") /\ UNCHANGED <<table, old, rest>>
  /\ UNCHANGED <<connVars, callVars, dropped>>

StopperTurn ==
  /\ Stands(Stopper, "locking")
  /\ holder = Stopper
  /\ CloseNext(Listed)
  /\ UNCHANGED <<connVars, callVars, dropped>>

RouteShut ==
  /\ Stands(Stopper, "closing")
  /\ link' = [link EXCEPT ![old[Stopper]] = "closed"]
  /\ CloseNext(rest[Stopper])
  /\ UNCHANGED <<made, callVars, dropped>>

\* A receive, or the peer, fails the connection.
PeerFails(c) ==
  /\ link[c] = "open"
  /\ link' = [link EXCEPT ![c] = "failed"]
  /\ UNCHANGED <<made, table, lockVars, at, callVars, old, rest, dropped>>

Step(t) ==
  \/ Unreachable(t)
  \/ Establish(t) \/ EstablishFails(t) \/ TryAgain(t)
  \/ TakeTurn(t) \/ OldClosed(t) \/ Reinstall(t)
  \/ SendDone(t) \/ SendFails(t) \/ DropTurn(t) \/ SendAgain(t)
  \/ NodeDisconnected(t)

CleanerStep == CleanerTurn \/ StaleClosed
StopperStep == Shutdown \/ StopperTurn \/ RouteShut

RoutesNext ==
  \/ \E t \in Clients, n \in Nodes :
       BeginConnect(t, n) \/ BeginSend(t, n) \/ DisconnectNode(t, n)
  \/ \E t \in Clients : Step(t)
  \/ CleanUp \/ CleanerStep
  \/ CancelCleaner \/ StopperStep
  \/ \E c \in Links : PeerFails(c)

RoutesSpec == RoutesInit /\ [][RoutesNext]_routesVars

\* What the tasks wait for ends: probes and attempts have deadlines, a send or
\* a close ends or raises, the lock is handed on.
RoutesFairness == /\ \A t \in Clients : WF_routesVars(Step(t))
                  /\ WF_routesVars(CleanerStep)
                  /\ WF_routesVars(StopperStep)

RoutesFairSpec == RoutesSpec /\ RoutesFairness

(***************************************************************************)
(* Properties.                                                             *)
(***************************************************************************)

\* A call still has to put c into the table, or to close it.
InHands(c) == \/ \E t \in Clients : mine[t] = c /\ at[t] \in {"locking", "closing"}
              \/ \E t \in EveryTask : old[t] = c

\* A connection that nobody has closed is in the table, where disconnect()
\* finds it, and the clean-up and shutdown() until they have ended, or a call is
\* about to put it there or to close it.  The only others are those a failed
\* send_to(), a second _reconnect_route() or a cancelled clean-up took out (lines
\* 359, 444, 249).  One that connect() puts there when shutdown() is over stays: a
\* second shutdown() returns at once (line 238).
RouteOwned == \A c \in Links : Unclosed(c) => \/ InTable(c)
                                              \/ InHands(c)
                                              \/ c \in dropped

\* When connect() returns the connection it has established, the table holds
\* that connection and this program has not closed it, although other calls
\* ran while it waited for the lock and for the old route's end (line 323).
ConnectGivesLive ==
  [][\A t \in Clients :
       /\ doing[t] = "connect" /\ at'[t] = "idle"
       /\ \/ at[t] = "establishing" /\ made' = made + 1
          \/ at[t] \in {"locking", "closing"}
       => /\ table'[node[t]] # NoRoute
          /\ link'[table'[node[t]].conn] # "closed"
          /\ mine[t] # NoLink => table'[node[t]].conn = mine[t]]_routesVars

\* shutdown() ends, whoever holds the lock when it begins and whatever calls
\* are running: none of them keeps the lock, or waits for it in a circle
\* (lines 264, 312, 358, 443, 500).
ShutdownEnds == at[Stopper] # "idle" ~> at[Stopper] = "over"
=============================================================================
