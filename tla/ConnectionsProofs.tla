------------------------- MODULE ConnectionsProofs -------------------------
(***************************************************************************)
(* The components that make connections and keep them: the routes of the   *)
(* Continuum manager, for any number of tasks, nodes and connections, and  *)
(* their sum with the desktop program's QMP bridge.                        *)
(***************************************************************************)
EXTENDS MCConnections, QMPBridgeProofs, SequenceTheorems, TLAPS

(***************************************************************************)
(* The routes.                                                             *)
(***************************************************************************)

\* What the proofs need of the types.
Places == {"idle", "establishing", "backoff", "locking", "closing", "relocking",
           "sending", "dropping", "resting", "cancelling", "over"}
Doings == {"none", "connect", "send", "disconnect"}

Shaped ==
  /\ link \in [Links -> {"none", "open", "failed", "closed"}]
  /\ made \in 0..MaxConns
  /\ table \in [Nodes -> [conn : Links, shut : BOOLEAN] \cup {NoRoute}]
  /\ at \in [EveryTask -> Places]
  /\ doing \in [Clients -> Doings]
  /\ node \in [Clients -> Nodes]
  /\ mine \in [Clients -> Links \cup {NoLink}]
  /\ old \in [EveryTask -> Links \cup {NoLink}]
  /\ rest \in [{Cleaner, Stopper} -> SUBSET (Nodes \cup Links)]
  /\ rest[Cleaner] \subseteq Nodes
  /\ rest[Stopper] \subseteq Links

\* t closes a route and holds the lock, unless it is in disconnect().
Disconnecting(t) == t \in Clients /\ doing[t] = "disconnect"
ClosesLocked(t)  == at[t] = "closing" /\ ~Disconnecting(t)

\* Only one task at a time closes a route inside the lock.
LockHeld == \A t \in EveryTask : ClosesLocked(t) => holder = t

\* Only a task that closes a connection has one to close.
NothingOld == \A t \in EveryTask : at[t] # "closing" => old[t] = NoLink

\* A task that replaces a route still finds the one it closes, or none.
OldInPlace ==
  \A t \in Clients : ClosesLocked(t) =>
    \/ table[node[t]] = NoRoute
    \/ table[node[t]].conn = old[t]

\* A call that has established a connection, or sends, has one.
Holds(t) == at[t] \in {"locking", "relocking", "sending", "dropping"} \/ ClosesLocked(t)

\* Connections that anything refers to have been established.
Made(c) == c \in Links /\ link[c] # "none"

AllMade ==
  /\ \A c \in Links : link[c] # "none" => c <= made
  /\ \A n \in Nodes : table[n] # NoRoute => Made(table[n].conn)
  /\ \A t \in Clients : Holds(t) => Made(mine[t])
  /\ \A t \in EveryTask : at[t] = "closing" => Made(old[t])
  /\ \A c \in rest[Stopper] : Made(c)

\* A task in no call, in one that is still trying, or in disconnect(), has
\* established nothing.
NothingMine ==
  \A t \in Clients : /\ \/ at[t] \in {"idle", "establishing", "backoff"}
                        \/ doing[t] = "disconnect"
                        => mine[t] = NoLink
                     /\ doing[t] = "disconnect" => at[t] = "closing"

\* A connection that is not in the table yet is known to its own call only, and
\* nobody has closed it.
Waits(t) == at[t] = "locking" \/ ClosesLocked(t)

Private ==
  \A t \in Clients : Waits(t) =>
    /\ link[mine[t]] # "closed"
    /\ ~InTable(mine[t])
    /\ mine[t] \notin rest[Stopper]
    /\ \A u \in EveryTask : old[u] # mine[t]
    /\ \A u \in Clients \ {t} : Holds(u) => mine[u] # mine[t]

\* What shutdown() has still to close is on its list.
ListComplete ==
  at[Stopper] = "closing" =>
    \A c \in Links : InTable(c) => \/ link[c] = "closed"
                                   \/ c \in rest[Stopper]
                                   \/ c = old[Stopper]

RoutesInv ==
  /\ Shaped /\ LockHeld /\ NothingOld /\ OldInPlace
  /\ AllMade /\ NothingMine /\ Private /\ ListComplete
  /\ RouteOwned

LEMMA TasksApart ==
  /\ Cleaner \in EveryTask /\ Stopper \in EveryTask /\ Cleaner # Stopper
  /\ Cleaner \notin Clients /\ Stopper \notin Clients
  /\ Clients \subseteq EveryTask
  /\ \A t \in EveryTask : t # NoHolder
  /\ NoLink \notin Links
  BY RoutesTasks DEF EveryTask, NoLink, Links

\* A client goes from one place to another outside the lock; if it is going to
\* send, then on a connection of the table.
LEMMA MoveKeeps ==
  ASSUME RoutesInv,
         NEW t \in Clients, NEW p \in {"idle", "establishing", "backoff", "sending"},
         NEW d \in Doings, NEW n \in Nodes, NEW c \in Links \cup {NoLink},
         at[t] \notin {"locking", "closing"},
         p # "sending" => c = NoLink, d # "disconnect",
         p = "sending" => \E m \in Nodes : table[m] # NoRoute /\ table[m].conn = c,
         at' = [at EXCEPT ![t] = p], doing' = [doing EXCEPT ![t] = d],
         node' = [node EXCEPT ![t] = n], mine' = [mine EXCEPT ![t] = c],
         UNCHANGED <<connVars, table, lockVars, old, rest, dropped>>
  PROVE  RoutesInv'
<1> USE TasksApart DEF RoutesInv, connVars, lockVars
<1>1. Shaped'
  <2>1. at' \in [EveryTask -> Places]
    BY DEF Shaped, Places
  <2>2. /\ doing' \in [Clients -> Doings]
        /\ node' \in [Clients -> Nodes]
        /\ mine' \in [Clients -> Links \cup {NoLink}]
    BY DEF Shaped
  <2>3. /\ link' \in [Links -> {"none", "open", "failed", "closed"}]
        /\ made' \in 0..MaxConns
        /\ table' \in [Nodes -> [conn : Links, shut : BOOLEAN] \cup {NoRoute}]
    BY DEF Shaped
  <2>4. QED
    BY <2>1, <2>2, <2>3 DEF Shaped
<1>2. LockHeld'
  BY DEF LockHeld, ClosesLocked, Disconnecting, Shaped
<1>3. NothingOld'
  BY DEF NothingOld, Shaped
<1>4. OldInPlace'
  BY DEF OldInPlace, LockHeld, ClosesLocked, Disconnecting, Shaped
<1>5. AllMade'
  BY DEF AllMade, Holds, ClosesLocked, Disconnecting, Made, Shaped
<1>6. NothingMine'
  BY DEF NothingMine, Shaped
<1>7. Private'
  BY DEF Private, AllMade, Made, Waits, Holds, ClosesLocked, Disconnecting, InTable, Shaped
<1>8. ListComplete'
  BY DEF ListComplete, InTable, Shaped
<1>9. RouteOwned'
  BY DEF RouteOwned, InHands, InTable, Unclosed, NothingMine, NothingOld, Shaped
<1>10. QED
  BY <1>1, <1>2, <1>3, <1>4, <1>5, <1>6, <1>7, <1>8, <1>9 DEF RoutesInv

\* The steps of a call outside the lock.
LEMMA QuietKeeps ==
  ASSUME RoutesInv, NEW t \in Clients,
         \/ \E n \in Nodes : BeginConnect(t, n) \/ BeginSend(t, n)
         \/ Unreachable(t) \/ EstablishFails(t) \/ TryAgain(t)
         \/ SendDone(t) \/ SendAgain(t)
  PROVE  RoutesInv'
<1> USE TasksApart DEF Stands, Go, callVars, Doings
<1>0. Shaped /\ AnyNode \in Nodes
  BY RoutesNodes DEF RoutesInv, AnyNode
<1>1. CASE \E n \in Nodes : BeginConnect(t, n)
  <2>1. mine[t] \in Links \cup {NoLink} /\ mine' = [mine EXCEPT ![t] = mine[t]]
    BY <1>0, <1>1 DEF BeginConnect, Shaped
  <2>2. at[t] = "idle" /\ mine[t] = NoLink
    BY <1>1 DEF BeginConnect, RoutesInv, NothingMine
  <2>3. QED
    BY <1>0, <1>1, <2>1, <2>2, MoveKeeps DEF BeginConnect
<1>2. ASSUME NEW n \in Nodes, at[t] \in {"idle", "resting"}, AttemptSend(t, n)
      PROVE  RoutesInv'
  <2>1. CASE HasHealthy(n)
    <3>1. /\ table[n] # NoRoute
          /\ mine' = [mine EXCEPT ![t] = table[n].conn]
          /\ table[n].conn \in Links \cup {NoLink}
      BY <1>0, <1>2, <2>1 DEF AttemptSend, HasHealthy, Shaped
    <3>2. QED
      BY <1>2, <2>1, <3>1, MoveKeeps DEF AttemptSend
  <2>2. CASE ~HasHealthy(n)
    BY <1>2, <2>2, MoveKeeps DEF AttemptSend
  <2>3. QED
    BY <2>1, <2>2
<1>3. ASSUME Return(t), at[t] \notin {"locking", "closing"},
             UNCHANGED <<connVars, table, lockVars, old, rest, dropped>>
      PROVE  RoutesInv'
  BY <1>0, <1>3, MoveKeeps DEF Return
<1>4. ASSUME NEW p \in {"establishing", "backoff"}, at[t] \in {"establishing", "backoff"},
             Go(t, p), UNCHANGED <<doing, node, mine>>,
             UNCHANGED <<connVars, table, lockVars, old, rest, dropped>>
      PROVE  RoutesInv'
  <2>1. /\ mine[t] \in Links \cup {NoLink} /\ mine' = [mine EXCEPT ![t] = mine[t]]
        /\ doing[t] \in Doings /\ doing' = [doing EXCEPT ![t] = doing[t]]
        /\ node[t] \in Nodes /\ node' = [node EXCEPT ![t] = node[t]]
    BY <1>0, <1>4 DEF Shaped
  <2>2. doing[t] # "disconnect" /\ mine[t] = NoLink
    BY <1>4 DEF RoutesInv, NothingMine
  <2>3. /\ p \in {"idle", "establishing", "backoff", "sending"}
        /\ p # "idle" /\ p # "sending"
    BY <1>4
  <2>4. at' = [at EXCEPT ![t] = p]
    BY <1>4
  <2>5. /\ at[t] \notin {"locking", "closing"}
        /\ UNCHANGED <<connVars, table, lockVars, old, rest, dropped>>
    BY <1>4
  <2>6. QED
    BY <2>1, <2>2, <2>3, <2>4, <2>5, MoveKeeps
<1>5. CASE \E n \in Nodes : BeginSend(t, n)
  BY <1>2, <1>5 DEF BeginSend
<1>6. CASE Unreachable(t) \/ SendDone(t)
  BY <1>3, <1>6 DEF Unreachable, SendDone
<1>7. CASE EstablishFails(t)
  BY <1>4, <1>7 DEF EstablishFails
<1>8. CASE TryAgain(t)
  BY <1>3, <1>4, <1>8 DEF TryAgain
<1>9. CASE SendAgain(t)
  BY <1>0, <1>2, <1>3, <1>9 DEF SendAgain, Shaped
<1>10. QED
  BY <1>1, <1>5, <1>6, <1>7, <1>8, <1>9

\* The end of connect() leaves its caller outside the lock.
LEMMA InstalledShape ==
  ASSUME Shaped, NEW t \in Clients, NEW c \in Links, Installed(t, c), at[t] # "idle"
  PROVE  \E p \in {"idle", "sending", "relocking"}, d \in Doings, n \in Nodes,
            m \in Links \cup {NoLink} :
           /\ table' = [table EXCEPT ![node[t]] = Route(c)]
           /\ at' = [at EXCEPT ![t] = p]
           /\ doing' = [doing EXCEPT ![t] = d]
           /\ node' = [node EXCEPT ![t] = n]
           /\ mine' = [mine EXCEPT ![t] = m]
           /\ p = "idle" => m = NoLink /\ d # "disconnect"
           /\ p # "idle" => m = c /\ d = doing[t]
<1> USE TasksApart DEF Installed, Return, Go, Doings
<1>1. CASE doing[t] = "connect"
  <2>1. AnyNode \in Nodes
    BY RoutesNodes DEF AnyNode
  <2>2. QED
    BY <1>1, <2>1
<1>2. CASE doing[t] # "connect"
  <2>1. /\ doing[t] \in Doings /\ doing' = [doing EXCEPT ![t] = doing[t]]
        /\ node[t] \in Nodes /\ node' = [node EXCEPT ![t] = node[t]]
    BY <1>2 DEF Shaped
  <2>2. /\ mine' = [mine EXCEPT ![t] = c]
        /\ \/ at' = [at EXCEPT ![t] = "sending"]
           \/ at' = [at EXCEPT ![t] = "relocking"]
        /\ table' = [table EXCEPT ![node[t]] = Route(c)]
    BY <1>2
  <2>3. QED
    BY <2>1, <2>2
<1>3. QED
  BY <1>1, <1>2

\* A call puts the connection that only it knows into the table.
LEMMA InstalledKeeps ==
  ASSUME RoutesInv, NEW t \in Clients, NEW c \in Links, Installed(t, c),
         at[t] \in {"establishing", "locking", "closing"}, ~Disconnecting(t),
         at[t] # "establishing" => mine[t] = c,
         \A u \in EveryTask \ {t} : ~ClosesLocked(u),
         link' \in [Links -> {"none", "open", "failed", "closed"}],
         made' \in 0..MaxConns, made <= made', c <= made',
         link'[c] \notin {"none", "closed"},
         \A x \in Links \ {c} : link'[x] = link[x] \/ (link'[x] = "closed" /\ x = old[t]),
         ~InTable(c), \A u \in EveryTask : old[u] # c,
         \A u \in Clients \ {t} : Holds(u) => mine[u] # c,
         \/ table[node[t]] = NoRoute
         \/ table[node[t]].conn = old[t],
         old[t] # NoLink => link'[old[t]] = "closed",
         old' = [old EXCEPT ![t] = NoLink],
         UNCHANGED <<rest, dropped>>
  PROVE  RoutesInv'
<1> USE TasksApart DEF RoutesInv, Route
<1>0. PICK p \in {"idle", "sending", "relocking"}, d \in Doings, n \in Nodes,
           m \in Links \cup {NoLink} :
        /\ table' = [table EXCEPT ![node[t]] = Route(c)]
        /\ at' = [at EXCEPT ![t] = p]
        /\ doing' = [doing EXCEPT ![t] = d]
        /\ node' = [node EXCEPT ![t] = n]
        /\ mine' = [mine EXCEPT ![t] = m]
        /\ p = "idle" => m = NoLink /\ d # "disconnect"
        /\ p # "idle" => m = c /\ d = doing[t]
  BY InstalledShape
<1> HIDE DEF Installed
<1>1. Shaped'
  BY <1>0 DEF Shaped, Places, Doings
<1>2. LockHeld'
  BY <1>0 DEF Shaped, LockHeld, ClosesLocked, Disconnecting
<1>3. NothingOld'
  BY <1>0 DEF Shaped, NothingOld
<1>4. OldInPlace'
  BY <1>0 DEF Shaped, OldInPlace, LockHeld, ClosesLocked, Disconnecting
<1>5. AllMade'
  <2>1. (\A x \in Links : link[x] # "none" => x <= made)'
    BY DEF Shaped, AllMade, NothingOld, Made, Links
  <2>2. \A x \in Links : Made(x) => Made(x)'
    BY DEF Made
  <2>3. (\A k \in Nodes : table[k] # NoRoute => Made(table[k].conn))'
    <3>1. Made(c)'
      BY DEF Made
    <3>2. \A k \in Nodes : table[k] # NoRoute => table[k].conn \in Links /\ Made(table[k].conn)
      BY DEF Shaped, AllMade, Made
    <3>3. \A k \in Nodes : table'[k] = table[k] \/ table'[k].conn = c
      BY <1>0 DEF Shaped
    <3>4. QED
      BY <2>2, <3>1, <3>2, <3>3 DEF Made
  <2>4. (\A u \in Clients : Holds(u) => Made(mine[u]))'
    BY <1>0, <2>2 DEF Shaped, AllMade, Made, Holds, ClosesLocked, Disconnecting
  <2>5. (\A u \in EveryTask : at[u] = "closing" => Made(old[u]))'
    BY <1>0, <2>2 DEF Shaped, AllMade, Made
  <2>6. (\A x \in rest[Stopper] : Made(x))'
    BY <2>2 DEF Shaped, AllMade
  <2>7. QED
    BY <2>1, <2>3, <2>4, <2>5, <2>6 DEF AllMade
<1>6. NothingMine'
  BY <1>0 DEF Shaped, NothingMine, Disconnecting
<1>7. Private'
  BY <1>0 DEF Shaped, Private, AllMade, Made, Waits, Holds, ClosesLocked, Disconnecting, InTable
<1>8. ListComplete'
  BY <1>0 DEF Shaped, ListComplete, ClosesLocked, Disconnecting
<1>9. RouteOwned'
  <2> SUFFICES ASSUME NEW x \in Links, Unclosed(x)'
               PROVE  InTable(x)' \/ InHands(x)' \/ x \in dropped'
    BY DEF RouteOwned
  <2>0. CASE x = c
    <3>1. Route(c) \in [conn : 1..MaxConns, shut : BOOLEAN]
      BY DEF Links
    <3>2. node[t] \in Nodes /\ table'[node[t]] = Route(c)
      BY <1>0 DEF Shaped
    <3>3. Route(c).conn = c
      OBVIOUS
    <3>4. QED
      BY <2>0, <3>1, <3>2, <3>3, NoRouteAssumption DEF InTable
  <2>1. x = c \/ (Unclosed(x) /\ x # old[t])
    BY DEF Unclosed, NoLink, Links
  <2>2. CASE InTable(x)
    BY <1>0, <2>1, <2>2 DEF InTable, Shaped
  <2>3. ASSUME NEW u \in Clients, x # c, mine[u] = x, at[u] \in {"locking", "closing"}
        PROVE  InHands(x)'
    BY <1>0, <2>3 DEF InHands, Shaped
  <2>4. ASSUME NEW u \in EveryTask, old[u] = x
        PROVE  InHands(x)'
    BY <1>0, <2>1, <2>4 DEF InHands, Shaped
  <2>5. QED
    BY <2>0, <2>1, <2>2, <2>3, <2>4 DEF RouteOwned, InHands
<1>10. QED
  BY <1>1, <1>2, <1>3, <1>4, <1>5, <1>6, <1>7, <1>8, <1>9 DEF RoutesInv

\* A call that meets an old route begins to close it, inside the lock.
LEMMA OldClosingKeeps ==
  ASSUME RoutesInv, NEW t \in Clients, NEW c \in Links,
         at[t] \in {"establishing", "locking"}, ~Disconnecting(t),
         at[t] = "locking" => mine[t] = c,
         \A u \in EveryTask : ~ClosesLocked(u),
         link' \in [Links -> {"none", "open", "failed", "closed"}],
         made' \in 0..MaxConns, made <= made', c <= made',
         link'[c] \notin {"none", "closed"},
         \A x \in Links \ {c} : link'[x] = link[x],
         ~InTable(c), c \notin rest[Stopper], \A u \in EveryTask : old[u] # c,
         \A u \in Clients \ {t} : Holds(u) => mine[u] # c,
         table[node[t]] # NoRoute,
         old' = [old EXCEPT ![t] = table[node[t]].conn],
         table' = [table EXCEPT ![node[t]].shut = TRUE],
         holder' = t,
         mine' = [mine EXCEPT ![t] = c],
         at' = [at EXCEPT ![t] = "closing"],
         UNCHANGED <<doing, node, rest, dropped>>
  PROVE  RoutesInv'
<1> USE TasksApart DEF RoutesInv
<1>0. /\ table' \in [Nodes -> [conn : Links, shut : BOOLEAN] \cup {NoRoute}]
      /\ \A k \in Nodes : table'[k] = NoRoute <=> table[k] = NoRoute
      /\ \A k \in Nodes : table[k] # NoRoute => table'[k].conn = table[k].conn
      /\ table[node[t]].conn \in Links /\ node[t] \in Nodes
  <2>1. node[t] \in Nodes /\ table[node[t]] \in [conn : Links, shut : BOOLEAN]
    BY DEF Shaped
  <2>2. [table[node[t]] EXCEPT !.shut = TRUE] \in [conn : Links, shut : BOOLEAN]
    BY <2>1
  <2>3. [table[node[t]] EXCEPT !.shut = TRUE].conn = table[node[t]].conn
    BY <2>1
  <2>4. \A k \in Nodes : table'[k] = IF k = node[t] THEN [table[node[t]] EXCEPT !.shut = TRUE]
                                                    ELSE table[k]
    BY <2>1 DEF Shaped
  <2>5. [table[node[t]] EXCEPT !.shut = TRUE] # NoRoute
    BY <2>2, NoRouteAssumption DEF Links
  <2>6. QED
    BY <2>1, <2>2, <2>3, <2>4, <2>5 DEF Shaped
<1>1. Shaped'
  BY <1>0 DEF Shaped, Places, Doings
<1>2. LockHeld'
  BY <1>0 DEF Shaped, LockHeld, ClosesLocked, Disconnecting
<1>3. NothingOld'
  BY <1>0 DEF Shaped, NothingOld
<1>4. OldInPlace'
  BY <1>0 DEF Shaped, OldInPlace, LockHeld, ClosesLocked, Disconnecting
<1>5. AllMade'
  <2>1. (\A x \in Links : link[x] # "none" => x <= made)'
    BY DEF Shaped, AllMade, Links
  <2>2. \A x \in Links : Made(x) => Made(x)'
    BY DEF Made
  <2>3. (\A k \in Nodes : table[k] # NoRoute => Made(table[k].conn))'
    BY <1>0, <2>2 DEF Shaped, AllMade, Made
  <2>4. (\A u \in Clients : Holds(u) => Made(mine[u]))'
    BY <1>0, <2>2 DEF Shaped, AllMade, Made, Holds, ClosesLocked, Disconnecting
  <2>5. (\A u \in EveryTask : at[u] = "closing" => Made(old[u]))'
    BY <1>0, <2>2 DEF Shaped, AllMade, Made
  <2>6. (\A x \in rest[Stopper] : Made(x))'
    BY <2>2 DEF Shaped, AllMade
  <2>7. QED
    BY <2>1, <2>3, <2>4, <2>5, <2>6 DEF AllMade
<1>6. NothingMine'
  BY <1>0 DEF Shaped, NothingMine, Disconnecting
<1>7. Private'
  BY <1>0 DEF Shaped, Private, AllMade, Made, Waits, Holds, ClosesLocked, Disconnecting, InTable
<1>8. ListComplete'
  BY <1>0 DEF Shaped, ListComplete, ClosesLocked, Disconnecting
<1>9. RouteOwned'
  BY <1>0 DEF Shaped, RouteOwned, InHands, InTable, Unclosed, NothingMine, NothingOld
<1>10. QED
  BY <1>1, <1>2, <1>3, <1>4, <1>5, <1>6, <1>7, <1>8, <1>9 DEF RoutesInv

\* A call waits for the lock: nothing but its place changes, and perhaps what it
\* holds.
LEMMA WaitKeeps ==
  ASSUME RoutesInv, NEW t \in Clients, NEW p \in {"locking", "dropping"},
         NEW c \in Links,
         at[t] = IF p = "locking" THEN "establishing" ELSE "sending",
         link' \in [Links -> {"none", "open", "failed", "closed"}],
         made' \in 0..MaxConns, made <= made', c <= made',
         \A x \in Links \ {c} : link'[x] = link[x],
         link'[c] # "none",
         p = "locking" => /\ link'[c] # "closed" /\ link[c] = "none",
         p = "dropping" => /\ mine[t] = c /\ link[c] # "none"
                           /\ link[c] = "closed" <=> link'[c] = "closed",
         at' = [at EXCEPT ![t] = p],
         mine' = [mine EXCEPT ![t] = c],
         UNCHANGED <<doing, node, old, table, holder, rest, dropped>>
  PROVE  RoutesInv'
<1> USE TasksApart DEF RoutesInv
<1>1. Shaped'
  BY DEF Shaped, Places, Doings
<1>2. LockHeld'
  BY DEF Shaped, LockHeld, ClosesLocked, Disconnecting
<1>3. NothingOld'
  BY DEF Shaped, NothingOld
<1>4. OldInPlace'
  BY DEF Shaped, OldInPlace, LockHeld, ClosesLocked, Disconnecting
<1>5. AllMade'
  <2>1. (\A x \in Links : link[x] # "none" => x <= made)'
    BY DEF Shaped, AllMade, Links
  <2>2. \A x \in Links : Made(x) => Made(x)'
    BY DEF Made
  <2>3. (\A k \in Nodes : table[k] # NoRoute => Made(table[k].conn))'
    BY <2>2 DEF Shaped, AllMade, Made
  <2>4. (\A u \in Clients : Holds(u) => Made(mine[u]))'
    BY <2>2 DEF Shaped, AllMade, Made, Holds, ClosesLocked, Disconnecting
  <2>5. (\A u \in EveryTask : at[u] = "closing" => Made(old[u]))'
    BY <2>2 DEF Shaped, AllMade, Made
  <2>6. (\A x \in rest[Stopper] : Made(x))'
    BY <2>2 DEF Shaped, AllMade
  <2>7. QED
    BY <2>1, <2>3, <2>4, <2>5, <2>6 DEF AllMade
<1>6. NothingMine'
  BY DEF Shaped, NothingMine
<1>7. Private'
  BY DEF Shaped, Private, AllMade, NothingOld, Made, Waits, Holds, ClosesLocked, Disconnecting,
     InTable
<1>8. ListComplete'
  BY DEF Shaped, ListComplete, InTable
<1>9. RouteOwned'
  BY DEF Shaped, RouteOwned, InHands, InTable, Unclosed, NothingMine, NothingOld
<1>10. QED
  BY <1>1, <1>2, <1>3, <1>4, <1>5, <1>6, <1>7, <1>8, <1>9 DEF RoutesInv

\* A transport has established a connection.
LEMMA EstablishKeeps ==
  ASSUME RoutesInv, NEW t \in Clients, Establish(t)
  PROVE  RoutesInv'
<1> DEFINE c == made + 1
<1> USE TasksApart DEF Stands
<1>1. /\ c \in Links /\ made' = c /\ link' = [link EXCEPT ![c] = "open"]
      /\ at[t] = "establishing" /\ made \in Nat /\ link[c] = "none"
      /\ UNCHANGED <<rest, dropped>>
  BY RoutesBounds DEF Establish, RoutesInv, Shaped, AllMade, Links
<1>2. /\ link' \in [Links -> {"none", "open", "failed", "closed"}]
      /\ made' \in 0..MaxConns /\ made <= made' /\ c <= made'
      /\ \A x \in Links \ {c} : link'[x] = link[x]
      /\ link'[c] = "open"
  BY <1>1, RoutesBounds DEF RoutesInv, Shaped, Links
<1>3. /\ ~InTable(c) /\ c \notin rest[Stopper] /\ \A u \in EveryTask : old[u] # c
      /\ \A u \in Clients : Holds(u) => mine[u] # c
  BY <1>1 DEF RoutesInv, Shaped, AllMade, NothingOld, InTable, Made, NoLink, Links
<1>4. ~Disconnecting(t) /\ old[t] = NoLink
  BY <1>1 DEF RoutesInv, NothingMine, NothingOld, Disconnecting
<1> HIDE DEF c
<1>5. CASE holder = NoHolder /\ Install(t, c)
  <2>1. \A u \in EveryTask : ~ClosesLocked(u)
    BY <1>5 DEF RoutesInv, LockHeld
  <2>2. CASE table[node[t]] = NoRoute
    <3>1. Installed(t, c) /\ old' = [old EXCEPT ![t] = NoLink]
      BY <1>4, <1>5, <2>2 DEF Install, RoutesInv, Shaped
    <3>2. /\ at[t] \in {"establishing", "locking", "closing"}
          /\ at[t] # "establishing" => mine[t] = c
          /\ link'[c] \notin {"none", "closed"}
          /\ \A x \in Links \ {c} : link'[x] = link[x] \/ (link'[x] = "closed" /\ x = old[t])
          /\ \A u \in EveryTask \ {t} : ~ClosesLocked(u)
          /\ \A u \in Clients \ {t} : Holds(u) => mine[u] # c
          /\ old[t] # NoLink => link'[old[t]] = "closed"
      BY <1>1, <1>2, <1>3, <1>4, <2>1
    <3>3. QED
      BY <1>1, <1>2, <1>3, <1>4, <2>2, <3>1, <3>2, InstalledKeeps
  <2>3. CASE table[node[t]] # NoRoute
    <3>1. /\ old' = [old EXCEPT ![t] = table[node[t]].conn]
          /\ table' = [table EXCEPT ![node[t]].shut = TRUE]
          /\ holder' = t
          /\ mine' = [mine EXCEPT ![t] = c]
          /\ at' = [at EXCEPT ![t] = "closing"]
          /\ UNCHANGED <<doing, node>>
      BY <1>5, <2>3 DEF Install, Go
    <3>2. QED
      BY <1>1, <1>2, <1>3, <1>4, <2>1, <2>3, <3>1, OldClosingKeeps
  <2>4. QED
    BY <2>2, <2>3
<1>6. CASE /\ Queue(t, "locking") /\ mine' = [mine EXCEPT ![t] = c]
           /\ UNCHANGED <<table, old, doing, node, tries, sends>>
  BY <1>1, <1>2, <1>6, WaitKeeps DEF Queue
<1>7. QED
  BY <1>5, <1>6 DEF Establish, c

\* A call that has waited for the lock gets it.
LEMMA TakeTurnKeeps ==
  ASSUME RoutesInv, NEW t \in Clients, TakeTurn(t)
  PROVE  RoutesInv'
<1> DEFINE c == mine[t]
<1> USE TasksApart DEF Stands, TakeTurn, connVars
<1>1. /\ c \in Links /\ link[c] \notin {"none", "closed"} /\ c <= made
      /\ ~InTable(c) /\ c \notin rest[Stopper] /\ \A u \in EveryTask : old[u] # c
      /\ \A u \in Clients \ {t} : Holds(u) => mine[u] # c
  BY DEF RoutesInv, Shaped, AllMade, Private, Waits, Holds, Made
<1>2. ~Disconnecting(t) /\ old[t] = NoLink
  BY DEF RoutesInv, NothingMine, NothingOld, Disconnecting
<1>3. \A u \in EveryTask : ~ClosesLocked(u)
  BY DEF RoutesInv, LockHeld, ClosesLocked
<1>4. /\ link' \in [Links -> {"none", "open", "failed", "closed"}]
      /\ made' \in 0..MaxConns /\ made <= made'
  BY DEF RoutesInv, Shaped
<1>5. at[t] = "locking" /\ Install(t, c) /\ UNCHANGED <<link, made, rest, dropped>>
  OBVIOUS
<1> HIDE DEF TakeTurn
<1>6. CASE table[node[t]] = NoRoute
  <2>1. Installed(t, c) /\ old' = [old EXCEPT ![t] = NoLink]
    BY <1>2, <1>5, <1>6 DEF Install, RoutesInv, Shaped
  <2>2. /\ at[t] \in {"establishing", "locking", "closing"}
        /\ mine[t] = c
        /\ link'[c] \notin {"none", "closed"} /\ c <= made'
        /\ \A x \in Links \ {c} : link'[x] = link[x]
        /\ \A u \in EveryTask \ {t} : ~ClosesLocked(u)
        /\ UNCHANGED <<rest, dropped>>
    BY <1>1, <1>3, <1>5
  <2>3. QED
    BY <1>1, <1>2, <1>4, <1>6, <2>1, <2>2, InstalledKeeps
<1>7. CASE table[node[t]] # NoRoute
  <2>1. /\ old' = [old EXCEPT ![t] = table[node[t]].conn]
        /\ table' = [table EXCEPT ![node[t]].shut = TRUE]
        /\ holder' = t
        /\ mine' = [mine EXCEPT ![t] = c]
        /\ at' = [at EXCEPT ![t] = "closing"]
        /\ UNCHANGED <<doing, node>>
    BY <1>5, <1>7 DEF Install, Go
  <2>2. QED
    BY <1>1, <1>2, <1>3, <1>4, <1>5, <1>7, <2>1, OldClosingKeeps
<1>8. QED
  BY <1>6, <1>7

\* The old route's connection is closed.
LEMMA OldClosedKeeps ==
  ASSUME RoutesInv, NEW t \in Clients, OldClosed(t)
  PROVE  RoutesInv'
<1> DEFINE c == mine[t]
<1> USE TasksApart DEF Stands, OldClosed
<1>1. ClosesLocked(t) /\ ~Disconnecting(t)
  BY DEF ClosesLocked, Disconnecting
<1>2. /\ c \in Links /\ link[c] \notin {"none", "closed"} /\ c <= made
      /\ ~InTable(c) /\ \A u \in EveryTask : old[u] # c
      /\ \A u \in Clients \ {t} : Holds(u) => mine[u] # c
  BY <1>1 DEF RoutesInv, Shaped, AllMade, Private, Waits, Holds, Made
<1>3. \A u \in EveryTask \ {t} : ~ClosesLocked(u)
  BY <1>1 DEF RoutesInv, LockHeld
<1>4. old[t] \in Links
  BY DEF RoutesInv, AllMade, Made
<1>5. /\ link' \in [Links -> {"none", "open", "failed", "closed"}]
      /\ link'[old[t]] = "closed"
      /\ \A x \in Links : x # old[t] => link'[x] = link[x]
      /\ link'[c] = link[c]
      /\ made' \in 0..MaxConns /\ made <= made' /\ made' = made
  BY <1>2, <1>4 DEF RoutesInv, Shaped
<1>6. table[node[t]] = NoRoute \/ table[node[t]].conn = old[t]
  BY <1>1 DEF RoutesInv, OldInPlace
<1>7. /\ Installed(t, c) /\ at[t] = "closing" /\ old' = [old EXCEPT ![t] = NoLink]
      /\ UNCHANGED <<rest, dropped>>
  OBVIOUS
<1> HIDE DEF OldClosed
<1>8. /\ link'[c] \notin {"none", "closed"} /\ c <= made' /\ mine[t] = c
      /\ \A x \in Links \ {c} : link'[x] = link[x] \/ (link'[x] = "closed" /\ x = old[t])
  BY <1>2, <1>5
<1> HIDE DEF c
<1>9. QED
  BY <1>1, <1>2, <1>3, <1>5, <1>6, <1>7, <1>8, InstalledKeeps

\* A connection may fail at any time.
LEMMA FailureKeeps ==
  ASSUME RoutesInv, NEW c \in Links, PeerFails(c)
  PROVE  RoutesInv'
<1> USE DEF RoutesInv, PeerFails, callVars, lockVars
<1>0. \A x \in Links : /\ link'[x] = "none" <=> link[x] = "none"
                       /\ link'[x] = "closed" <=> link[x] = "closed"
                       /\ link'[x] \in {"none", "open", "failed", "closed"}
  BY DEF Shaped
<1>1. Shaped'
  BY <1>0 DEF Shaped, Places, Doings
<1>2. LockHeld'
  BY <1>0 DEF Shaped, LockHeld, ClosesLocked, Disconnecting
<1>3. NothingOld'
  BY <1>0 DEF Shaped, NothingOld
<1>4. OldInPlace'
  BY <1>0 DEF Shaped, OldInPlace, LockHeld, ClosesLocked, Disconnecting
<1>5. AllMade'
  BY <1>0 DEF Shaped, AllMade, Holds, ClosesLocked, Disconnecting, Made
<1>6. NothingMine'
  BY <1>0 DEF Shaped, NothingMine
<1>7. Private'
  BY <1>0 DEF Shaped, Private, AllMade, Made, Waits, Holds, ClosesLocked, Disconnecting, InTable
<1>8. ListComplete'
  BY <1>0 DEF Shaped, ListComplete, InTable
<1>9. RouteOwned'
  BY <1>0 DEF Shaped, RouteOwned, InHands, InTable, Unclosed, NothingMine, NothingOld
<1>10. QED
  BY <1>1, <1>2, <1>3, <1>4, <1>5, <1>6, <1>7, <1>8, <1>9 DEF RoutesInv

\* After an error whatever the table holds is taken out.
LEMMA DropKeeps ==
  ASSUME RoutesInv, NEW t \in Clients, at[t] \in {"sending", "dropping"},
         \A u \in EveryTask : ~ClosesLocked(u),
         link' \in [Links -> {"none", "open", "failed", "closed"}],
         \A x \in Links : /\ link'[x] = "none" <=> link[x] = "none"
                          /\ link'[x] = "closed" <=> link[x] = "closed",
         Drop(t)
  PROVE  RoutesInv'
<1> USE TasksApart DEF RoutesInv
<1>0. /\ table' = [table EXCEPT ![node[t]] = NoRoute]
      /\ at' = [at EXCEPT ![t] = "resting"]
      /\ dropped' = dropped \cup {mine[t]}
                    \cup {c \in Links : table[node[t]] # NoRoute /\ c = table[node[t]].conn}
      /\ UNCHANGED <<doing, old, rest, made, node, mine>>
  BY DEF Drop, Go
<1>1. Shaped'
  BY <1>0 DEF Shaped, Places, Doings
<1>2. LockHeld'
  BY <1>0 DEF Shaped, LockHeld, ClosesLocked, Disconnecting
<1>3. NothingOld'
  BY <1>0 DEF Shaped, NothingOld
<1>4. OldInPlace'
  BY <1>0 DEF Shaped, OldInPlace, LockHeld, ClosesLocked, Disconnecting
<1>5. AllMade'
  BY <1>0 DEF Shaped, AllMade, Holds, ClosesLocked, Disconnecting, Made
<1>6. NothingMine'
  BY <1>0 DEF Shaped, NothingMine
<1>7. Private'
  BY <1>0 DEF Shaped, Private, AllMade, Made, Waits, Holds, ClosesLocked, Disconnecting, InTable
<1>8. ListComplete'
  BY <1>0 DEF Shaped, ListComplete, ClosesLocked, Disconnecting
<1>9. RouteOwned'
  BY <1>0 DEF Shaped, RouteOwned, InHands, InTable, Unclosed, NothingMine, NothingOld
<1>10. QED
  BY <1>1, <1>2, <1>3, <1>4, <1>5, <1>6, <1>7, <1>8, <1>9 DEF RoutesInv

\* A send fails.
LEMMA SendFailsKeeps ==
  ASSUME RoutesInv, NEW t \in Clients, SendFails(t)
  PROVE  RoutesInv'
<1> USE TasksApart DEF Stands
<1>1. /\ at[t] = "sending" /\ mine[t] \in Links /\ link[mine[t]] # "none"
      /\ mine[t] <= made
  BY DEF SendFails, RoutesInv, AllMade, Holds, Made
<1>2. /\ link' \in [Links -> {"none", "open", "failed", "closed"}]
      /\ \A x \in Links : /\ link'[x] = "none" <=> link[x] = "none"
                          /\ link'[x] = "closed" <=> link[x] = "closed"
                          /\ x # mine[t] => link'[x] = link[x]
  BY <1>1 DEF SendFails, RoutesInv, Shaped
<1>3. CASE holder = NoHolder /\ Drop(t)
  <2>1. \A u \in EveryTask : ~ClosesLocked(u)
    BY <1>3 DEF RoutesInv, LockHeld
  <2>2. QED
    BY <1>1, <1>2, <1>3, <2>1, DropKeeps
<1>4. CASE Queue(t, "dropping") /\ UNCHANGED <<made, table, callVars, old, rest, dropped>>
  <2>1. /\ mine' = [mine EXCEPT ![t] = mine[t]]
        /\ made' \in 0..MaxConns /\ made <= made'
    BY <1>4 DEF RoutesInv, Shaped, callVars
  <2>2. /\ link[mine[t]] # "none"
        /\ link'[mine[t]] # "none"
        /\ link[mine[t]] = "closed" <=> link'[mine[t]] = "closed"
    BY <1>1, <1>2
  <2>3. /\ at' = [at EXCEPT ![t] = "dropping"] /\ mine[t] <= made'
        /\ UNCHANGED <<doing, node, old, table, holder, rest, dropped>>
    BY <1>1, <1>4 DEF Queue, callVars
  <2>4. /\ "dropping" \in {"locking", "dropping"} /\ "dropping" # "locking"
        /\ at[t] = IF "dropping" = "locking" THEN "establishing" ELSE "sending"
        /\ \A x \in Links \ {mine[t]} : link'[x] = link[x]
        /\ link' \in [Links -> {"none", "open", "failed", "closed"}]
        /\ mine[t] \in Links
    BY <1>1, <1>2
  <2>5. QED
    BY <2>1, <2>2, <2>3, <2>4, WaitKeeps
<1>5. QED
  BY <1>3, <1>4 DEF SendFails

LEMMA DropTurnKeeps ==
  ASSUME RoutesInv, NEW t \in Clients, DropTurn(t)
  PROVE  RoutesInv'
<1>1. \A u \in EveryTask : ~ClosesLocked(u)
  BY TasksApart DEF DropTurn, Stands, RoutesInv, LockHeld, ClosesLocked
<1>2. QED
  BY <1>1, DropKeeps DEF DropTurn, Stands, RoutesInv, Shaped

\* _reconnect_route() stores its route a second time.
LEMMA ReinstallKeeps ==
  ASSUME RoutesInv, NEW t \in Clients, Reinstall(t)
  PROVE  RoutesInv'
<1> USE TasksApart DEF RoutesInv, Route
<1>0. /\ at[t] = "relocking" /\ holder = t
      /\ table' = [table EXCEPT ![node[t]] = Route(mine[t])]
      /\ at' = [at EXCEPT ![t] = "sending"]
      /\ dropped' = dropped \cup {c \in Links : /\ table[node[t]] # NoRoute
                                                /\ c = table[node[t]].conn
                                                /\ c # mine[t]}
      /\ UNCHANGED <<link, made, doing, node, mine, old, rest>>
  BY DEF Reinstall, Go, Stands, connVars, callVars
<1>00. /\ \A u \in EveryTask : ~ClosesLocked(u)
       /\ mine[t] \in Links /\ link[mine[t]] # "none" /\ node[t] \in Nodes
       /\ Route(mine[t]) # NoRoute
  <2>1. /\ \A u \in EveryTask : ~ClosesLocked(u)
        /\ mine[t] \in Links /\ link[mine[t]] # "none" /\ node[t] \in Nodes
    BY <1>0 DEF LockHeld, ClosesLocked, AllMade, Holds, Made, Shaped
  <2>2. Route(mine[t]) \in [conn : 1..MaxConns, shut : BOOLEAN]
    BY <2>1 DEF Links
  <2>3. QED
    BY <2>1, <2>2, NoRouteAssumption
<1>1. Shaped'
  BY <1>0, <1>00 DEF Shaped, Places, Doings
<1>2. LockHeld'
  BY <1>0, <1>00 DEF Shaped, LockHeld, ClosesLocked, Disconnecting
<1>3. NothingOld'
  BY <1>0, <1>00 DEF Shaped, NothingOld
<1>4. OldInPlace'
  BY <1>0, <1>00 DEF Shaped, OldInPlace, LockHeld, ClosesLocked, Disconnecting
<1>5. AllMade'
  BY <1>0, <1>00 DEF Shaped, AllMade, Holds, ClosesLocked, Disconnecting, Made
<1>6. NothingMine'
  BY <1>0, <1>00 DEF Shaped, NothingMine
<1>7. Private'
  BY <1>0, <1>00 DEF Shaped, Private, AllMade, Made, Waits, Holds, ClosesLocked, Disconnecting,
     InTable
<1>8. ListComplete'
  BY <1>0, <1>00 DEF Shaped, ListComplete, ClosesLocked, Disconnecting
<1>9. RouteOwned'
  BY <1>0, <1>00 DEF Shaped, RouteOwned, InHands, InTable, Unclosed, NothingMine, NothingOld
<1>10. QED
  BY <1>1, <1>2, <1>3, <1>4, <1>5, <1>6, <1>7, <1>8, <1>9 DEF RoutesInv

\* disconnect() takes the route out and closes it, without the lock.
LEMMA DisconnectKeeps ==
  ASSUME RoutesInv, NEW t \in Clients, NEW n \in Nodes, DisconnectNode(t, n)
  PROVE  RoutesInv'
<1> USE TasksApart DEF RoutesInv
<1>0. /\ at[t] = "idle" /\ table[n] # NoRoute
      /\ doing' = [doing EXCEPT ![t] = "disconnect"]
      /\ node' = [node EXCEPT ![t] = n]
      /\ old' = [old EXCEPT ![t] = table[n].conn]
      /\ table' = [table EXCEPT ![n] = NoRoute]
      /\ at' = [at EXCEPT ![t] = "closing"]
      /\ UNCHANGED <<link, made, holder, mine, rest, dropped>>
  BY DEF DisconnectNode, Go, Stands, connVars, lockVars
<1>1. Shaped'
  BY <1>0 DEF Shaped, Places, Doings
<1>2. LockHeld'
  BY <1>0 DEF Shaped, LockHeld, ClosesLocked, Disconnecting
<1>3. NothingOld'
  BY <1>0 DEF Shaped, NothingOld
<1>4. OldInPlace'
  BY <1>0 DEF Shaped, OldInPlace, LockHeld, ClosesLocked, Disconnecting
<1>5. AllMade'
  BY <1>0 DEF Shaped, AllMade, Holds, ClosesLocked, Disconnecting, Made
<1>6. NothingMine'
  BY <1>0 DEF Shaped, NothingMine
<1>7. Private'
  BY <1>0 DEF Shaped, Private, AllMade, Made, Waits, Holds, ClosesLocked, Disconnecting, InTable
<1>8. ListComplete'
  BY <1>0 DEF Shaped, ListComplete, InTable
<1>9. RouteOwned'
  BY <1>0 DEF Shaped, RouteOwned, InHands, InTable, Unclosed, NothingMine, NothingOld
<1>10. QED
  BY <1>1, <1>2, <1>3, <1>4, <1>5, <1>6, <1>7, <1>8, <1>9 DEF RoutesInv

LEMMA DisconnectedKeeps ==
  ASSUME RoutesInv, NEW t \in Clients, NodeDisconnected(t)
  PROVE  RoutesInv'
<1> USE TasksApart DEF RoutesInv
<1>0. /\ at[t] = "closing" /\ doing[t] = "disconnect"
      /\ link' = [link EXCEPT ![old[t]] = "closed"]
      /\ old' = [old EXCEPT ![t] = NoLink]
      /\ at' = [at EXCEPT ![t] = "idle"]
      /\ doing' = [doing EXCEPT ![t] = "none"]
      /\ node' = [node EXCEPT ![t] = AnyNode]
      /\ mine' = [mine EXCEPT ![t] = NoLink]
      /\ UNCHANGED <<made, table, holder, rest, dropped>>
      /\ AnyNode \in Nodes
  BY RoutesNodes DEF NodeDisconnected, Return, Stands, lockVars, AnyNode
<1>1. Shaped'
  BY <1>0 DEF Shaped, Places, Doings
<1>2. LockHeld'
  BY <1>0 DEF Shaped, LockHeld, ClosesLocked, Disconnecting
<1>3. NothingOld'
  BY <1>0 DEF Shaped, NothingOld
<1>4. OldInPlace'
  BY <1>0 DEF Shaped, OldInPlace, LockHeld, ClosesLocked, Disconnecting
<1>5. AllMade'
  BY <1>0 DEF Shaped, AllMade, Holds, ClosesLocked, Disconnecting, Made
<1>6. NothingMine'
  BY <1>0 DEF Shaped, NothingMine
<1>7. Private'
  BY <1>0 DEF Shaped, Private, AllMade, Made, Waits, Holds, ClosesLocked, Disconnecting, InTable
<1>8. ListComplete'
  BY <1>0 DEF Shaped, ListComplete, InTable
<1>9. RouteOwned'
  BY <1>0 DEF Shaped, RouteOwned, InHands, InTable, Unclosed, NothingMine, NothingOld
<1>10. QED
  BY <1>1, <1>2, <1>3, <1>4, <1>5, <1>6, <1>7, <1>8, <1>9 DEF RoutesInv

\* The clean-up or shutdown() waits for the lock.
LEMMA ServiceWaits ==
  ASSUME RoutesInv, NEW t \in {Cleaner, Stopper}, at[t] # "closing",
         at' = [at EXCEPT ![t] = "locking"],
         UNCHANGED <<connVars, callVars, table, old, holder, rest, dropped>>
  PROVE  RoutesInv'
<1> USE TasksApart DEF RoutesInv, connVars, callVars
<1>1. Shaped'
  BY DEF Shaped, Places, Doings
<1>2. LockHeld'
  BY DEF Shaped, LockHeld, ClosesLocked, Disconnecting
<1>3. NothingOld'
  BY DEF Shaped, NothingOld
<1>4. OldInPlace'
  BY DEF Shaped, OldInPlace, LockHeld, ClosesLocked, Disconnecting
<1>5. AllMade'
  BY DEF Shaped, AllMade, Holds, ClosesLocked, Disconnecting, Made
<1>6. NothingMine'
  BY DEF Shaped, NothingMine
<1>7. Private'
  BY DEF Shaped, Private, AllMade, Made, Waits, Holds, ClosesLocked, Disconnecting, InTable
<1>8. ListComplete'
  BY DEF Shaped, ListComplete, InTable
<1>9. RouteOwned'
  BY DEF Shaped, RouteOwned, InHands, InTable, Unclosed, NothingMine, NothingOld
<1>10. QED
  BY <1>1, <1>2, <1>3, <1>4, <1>5, <1>6, <1>7, <1>8, <1>9 DEF RoutesInv

\* A round of the clean-up ends; what it was closing is closed.
LEMMA SweepOver ==
  ASSUME RoutesInv, \A u \in EveryTask \ {Cleaner} : ~ClosesLocked(u),
         link' \in [Links -> {"none", "open", "failed", "closed"}],
         \A x \in Links : link'[x] = link[x] \/ (link'[x] = "closed" /\ x = old[Cleaner]),
         old[Cleaner] # NoLink => link'[old[Cleaner]] = "closed",
         old' = [old EXCEPT ![Cleaner] = NoLink],
         rest' = [rest EXCEPT ![Cleaner] = {}],
         at' = [at EXCEPT ![Cleaner] = "idle"],
         UNCHANGED <<made, callVars, table, dropped>>
  PROVE  RoutesInv'
<1> USE TasksApart DEF RoutesInv, callVars
<1>0. rest'[Stopper] = rest[Stopper]
  BY DEF Shaped
<1>1. Shaped'
  BY <1>0 DEF Shaped, Places, Doings
<1>2. LockHeld'
  BY <1>0 DEF Shaped, LockHeld, ClosesLocked, Disconnecting
<1>3. NothingOld'
  BY <1>0 DEF Shaped, NothingOld
<1>4. OldInPlace'
  BY <1>0 DEF Shaped, OldInPlace, LockHeld, ClosesLocked, Disconnecting
<1>5. AllMade'
  <2>1. (\A x \in Links : link[x] # "none" => x <= made)'
    BY <1>0 DEF Shaped, AllMade, NothingOld, Made, NoLink, Links
  <2>2. \A x \in Links : Made(x) => Made(x)'
    BY <1>0 DEF Made
  <2>3. (\A k \in Nodes : table[k] # NoRoute => Made(table[k].conn))'
    BY <1>0, <2>2 DEF Shaped, AllMade, Made
  <2>4. (\A u \in Clients : Holds(u) => Made(mine[u]))'
    BY <1>0, <2>2 DEF Shaped, AllMade, Made, Holds, ClosesLocked, Disconnecting
  <2>5. (\A u \in EveryTask : at[u] = "closing" => Made(old[u]))'
    BY <1>0, <2>2 DEF Shaped, AllMade, Made
  <2>6. (\A x \in rest[Stopper] : Made(x))'
    BY <1>0, <2>2 DEF Shaped, AllMade, Made
  <2>7. QED
    BY <2>1, <2>3, <2>4, <2>5, <2>6 DEF AllMade
<1>6. NothingMine'
  BY <1>0 DEF Shaped, NothingMine
<1>7. Private'
  BY <1>0 DEF Shaped, Private, AllMade, Made, Waits, Holds, ClosesLocked, Disconnecting, InTable
<1>8. ListComplete'
  BY <1>0 DEF Shaped, ListComplete, ClosesLocked, Disconnecting
<1>9. RouteOwned'
  BY <1>0 DEF Shaped, RouteOwned, InHands, InTable, Unclosed, NothingMine, NothingOld
<1>10. QED
  BY <1>1, <1>2, <1>3, <1>4, <1>5, <1>6, <1>7, <1>8, <1>9 DEF RoutesInv

\* The clean-up takes the next route out and closes it.
LEMMA SweepGoesOn ==
  ASSUME RoutesInv, \A u \in EveryTask \ {Cleaner} : ~ClosesLocked(u),
         link' \in [Links -> {"none", "open", "failed", "closed"}],
         \A x \in Links : link'[x] = link[x] \/ (link'[x] = "closed" /\ x = old[Cleaner]),
         old[Cleaner] # NoLink => link'[old[Cleaner]] = "closed",
         NEW stale \in SUBSET Nodes, NEW n \in stale, table[n] # NoRoute,
         old' = [old EXCEPT ![Cleaner] = table[n].conn],
         table' = [table EXCEPT ![n] = NoRoute],
         rest' = [rest EXCEPT ![Cleaner] = stale \ {n}],
         holder' = Cleaner,
         at' = [at EXCEPT ![Cleaner] = "closing"],
         UNCHANGED <<made, callVars, dropped>>
  PROVE  RoutesInv'
<1> USE TasksApart DEF RoutesInv, callVars
<1>0. rest'[Stopper] = rest[Stopper] /\ n \in Nodes /\ table[n].conn \in Links
  BY DEF Shaped
<1>1. Shaped'
  BY <1>0 DEF Shaped, Places, Doings
<1>2. LockHeld'
  BY <1>0 DEF Shaped, LockHeld, ClosesLocked, Disconnecting
<1>3. NothingOld'
  BY <1>0 DEF Shaped, NothingOld
<1>4. OldInPlace'
  BY <1>0 DEF Shaped, OldInPlace, LockHeld, ClosesLocked, Disconnecting
<1>5. AllMade'
  <2>1. (\A x \in Links : link[x] # "none" => x <= made)'
    BY <1>0 DEF Shaped, AllMade, NothingOld, Made, NoLink, Links
  <2>2. \A x \in Links : Made(x) => Made(x)'
    BY <1>0 DEF Made
  <2>3. (\A k \in Nodes : table[k] # NoRoute => Made(table[k].conn))'
    BY <1>0, <2>2 DEF Shaped, AllMade, Made
  <2>4. (\A u \in Clients : Holds(u) => Made(mine[u]))'
    BY <1>0, <2>2 DEF Shaped, AllMade, Made, Holds, ClosesLocked, Disconnecting
  <2>5. (\A u \in EveryTask : at[u] = "closing" => Made(old[u]))'
    BY <1>0, <2>2 DEF Shaped, AllMade, Made
  <2>6. (\A x \in rest[Stopper] : Made(x))'
    BY <1>0, <2>2 DEF Shaped, AllMade, Made
  <2>7. QED
    BY <2>1, <2>3, <2>4, <2>5, <2>6 DEF AllMade
<1>6. NothingMine'
  BY <1>0 DEF Shaped, NothingMine
<1>7. Private'
  BY <1>0 DEF Shaped, Private, AllMade, Made, Waits, Holds, ClosesLocked, Disconnecting, InTable
<1>8. ListComplete'
  BY <1>0 DEF Shaped, ListComplete, ClosesLocked, Disconnecting
<1>9. RouteOwned'
  BY <1>0 DEF Shaped, RouteOwned, InHands, InTable, Unclosed, NothingMine, NothingOld
<1>10. QED
  BY <1>1, <1>2, <1>3, <1>4, <1>5, <1>6, <1>7, <1>8, <1>9 DEF RoutesInv

\* shutdown() has closed every route of the table.
LEMMA ShutdownOver ==
  ASSUME RoutesInv, \A u \in EveryTask \ {Stopper} : ~ClosesLocked(u),
         link' \in [Links -> {"none", "open", "failed", "closed"}],
         \A x \in Links : link'[x] = link[x] \/ (link'[x] = "closed" /\ x = old[Stopper]),
         old[Stopper] # NoLink => link'[old[Stopper]] = "closed",
         \A x \in Links : InTable(x) => link'[x] = "closed",
         table' = [n \in Nodes |-> NoRoute],
         old' = [old EXCEPT ![Stopper] = NoLink],
         rest' = [rest EXCEPT ![Stopper] = {}],
         at' = [at EXCEPT ![Stopper] = "over"],
         UNCHANGED <<made, callVars, dropped>>
  PROVE  RoutesInv'
<1> USE TasksApart DEF RoutesInv, callVars
<1>0. rest'[Stopper] = {} /\ rest'[Cleaner] = rest[Cleaner]
  BY DEF Shaped
<1>1. Shaped'
  BY <1>0 DEF Shaped, Places, Doings
<1>2. LockHeld'
  BY <1>0 DEF Shaped, LockHeld, ClosesLocked, Disconnecting
<1>3. NothingOld'
  BY <1>0 DEF Shaped, NothingOld
<1>4. OldInPlace'
  BY <1>0 DEF Shaped, OldInPlace, LockHeld, ClosesLocked, Disconnecting
<1>5. AllMade'
  <2>1. (\A x \in Links : link[x] # "none" => x <= made)'
    BY <1>0 DEF Shaped, AllMade, NothingOld, Made, NoLink, Links
  <2>2. \A x \in Links : Made(x) => Made(x)'
    BY <1>0 DEF Made
  <2>3. (\A k \in Nodes : table[k] # NoRoute => Made(table[k].conn))'
    BY <1>0, <2>2 DEF Shaped, AllMade, Made
  <2>4. (\A u \in Clients : Holds(u) => Made(mine[u]))'
    BY <1>0, <2>2 DEF Shaped, AllMade, Made, Holds, ClosesLocked, Disconnecting
  <2>5. (\A u \in EveryTask : at[u] = "closing" => Made(old[u]))'
    BY <1>0, <2>2 DEF Shaped, AllMade, Made
  <2>6. (\A x \in rest[Stopper] : Made(x))'
    BY <1>0, <2>2 DEF Shaped, AllMade, Made
  <2>7. QED
    BY <2>1, <2>3, <2>4, <2>5, <2>6 DEF AllMade
<1>6. NothingMine'
  BY <1>0 DEF Shaped, NothingMine
<1>7. Private'
  BY <1>0 DEF Shaped, Private, AllMade, Made, Waits, Holds, ClosesLocked, Disconnecting, InTable
<1>8. ListComplete'
  BY <1>0 DEF Shaped, ListComplete, ClosesLocked, Disconnecting
<1>9. RouteOwned'
  BY <1>0 DEF Shaped, RouteOwned, InHands, InTable, Unclosed, NothingMine, NothingOld
<1>10. QED
  BY <1>1, <1>2, <1>3, <1>4, <1>5, <1>6, <1>7, <1>8, <1>9 DEF RoutesInv

\* shutdown() closes the next route of its list.
LEMMA ShutdownGoesOn ==
  ASSUME RoutesInv, \A u \in EveryTask \ {Stopper} : ~ClosesLocked(u),
         link' \in [Links -> {"none", "open", "failed", "closed"}],
         \A x \in Links : link'[x] = link[x] \/ (link'[x] = "closed" /\ x = old[Stopper]),
         old[Stopper] # NoLink => link'[old[Stopper]] = "closed",
         NEW open \in SUBSET Links, NEW c \in open,
         \A x \in open : Made(x), \A t \in Clients : Waits(t) => mine[t] \notin open,
         \A x \in Links : InTable(x) => link'[x] = "closed" \/ x \in open,
         table' = [n \in Nodes |-> IF table[n] # NoRoute /\ table[n].conn = c
                                   THEN [table[n] EXCEPT !.shut = TRUE]
                                   ELSE table[n]],
         old' = [old EXCEPT ![Stopper] = c],
         rest' = [rest EXCEPT ![Stopper] = open \ {c}],
         holder' = Stopper,
         at' = [at EXCEPT ![Stopper] = "closing"],
         UNCHANGED <<made, callVars, dropped>>
  PROVE  RoutesInv'
<1> USE TasksApart DEF RoutesInv, callVars
<1>0. /\ rest'[Stopper] = open \ {c} /\ rest'[Cleaner] = rest[Cleaner] /\ c \in Links
      /\ table' \in [Nodes -> [conn : Links, shut : BOOLEAN] \cup {NoRoute}]
      /\ \A k \in Nodes : table'[k] = NoRoute <=> table[k] = NoRoute
      /\ \A k \in Nodes : table[k] # NoRoute => table'[k].conn = table[k].conn
  <2>1. rest'[Stopper] = open \ {c} /\ rest'[Cleaner] = rest[Cleaner] /\ c \in Links
    BY DEF Shaped
  <2>2. ASSUME NEW k \in Nodes, table[k] # NoRoute
        PROVE  /\ table[k] \in [conn : Links, shut : BOOLEAN]
               /\ [table[k] EXCEPT !.shut = TRUE] \in [conn : Links, shut : BOOLEAN]
               /\ [table[k] EXCEPT !.shut = TRUE] # NoRoute
               /\ [table[k] EXCEPT !.shut = TRUE].conn = table[k].conn
    <3>1. table[k] \in [conn : Links, shut : BOOLEAN]
      BY <2>2 DEF Shaped
    <3>2. /\ [table[k] EXCEPT !.shut = TRUE] \in [conn : Links, shut : BOOLEAN]
          /\ [table[k] EXCEPT !.shut = TRUE].conn = table[k].conn
      BY <3>1
    <3>3. QED
      BY <3>1, <3>2, NoRouteAssumption DEF Links
  <2>3. QED
    BY <2>1, <2>2 DEF Shaped
<1> HIDE DEF Made
<1>1. Shaped'
  BY <1>0 DEF Shaped, Places, Doings
<1>2. LockHeld'
  BY <1>0 DEF Shaped, LockHeld, ClosesLocked, Disconnecting
<1>3. NothingOld'
  BY <1>0 DEF Shaped, NothingOld
<1>4. OldInPlace'
  BY <1>0 DEF Shaped, OldInPlace, LockHeld, ClosesLocked, Disconnecting
<1>5. AllMade'
  <2>1. (\A x \in Links : link[x] # "none" => x <= made)'
    BY <1>0 DEF Shaped, AllMade, NothingOld, Made, NoLink, Links
  <2>2. \A x \in Links : Made(x) => Made(x)'
    BY <1>0 DEF Made
  <2>3. (\A k \in Nodes : table[k] # NoRoute => Made(table[k].conn))'
    BY <1>0, <2>2 DEF Shaped, AllMade, Made
  <2>4. (\A u \in Clients : Holds(u) => Made(mine[u]))'
    BY <1>0, <2>2 DEF Shaped, AllMade, Made, Holds, ClosesLocked, Disconnecting
  <2>5. (\A u \in EveryTask : at[u] = "closing" => Made(old[u]))'
    BY <1>0, <2>2 DEF Shaped, AllMade, Made
  <2>6. (\A x \in rest[Stopper] : Made(x))'
    BY <1>0, <2>2 DEF Shaped, AllMade, Made
  <2>7. QED
    BY <2>1, <2>3, <2>4, <2>5, <2>6 DEF AllMade
<1>6. NothingMine'
  BY <1>0 DEF Shaped, NothingMine
<1>7. Private'
  BY <1>0 DEF Shaped, Private, AllMade, Made, Waits, Holds, ClosesLocked, Disconnecting, InTable
<1>8. ListComplete'
  BY <1>0 DEF Shaped, ListComplete, InTable
<1>9. RouteOwned'
  BY <1>0 DEF Shaped, RouteOwned, InHands, InTable, Unclosed, NothingMine, NothingOld
<1>10. QED
  BY <1>1, <1>2, <1>3, <1>4, <1>5, <1>6, <1>7, <1>8, <1>9 DEF RoutesInv

\* The clean-up.
LEMMA SweepKeeps ==
  ASSUME RoutesInv, NEW stale \in SUBSET Nodes, Sweep(stale),
         \A u \in EveryTask \ {Cleaner} : ~ClosesLocked(u), at[Cleaner] # "closing",
         UNCHANGED <<connVars, callVars, dropped>>
  PROVE  RoutesInv'
<1> USE TasksApart DEF connVars
<1>1. /\ old[Cleaner] = NoLink /\ old = [old EXCEPT ![Cleaner] = NoLink]
      /\ link' \in [Links -> {"none", "open", "failed", "closed"}]
  BY DEF RoutesInv, NothingOld, Shaped
<1>2. CASE /\ rest' = [rest EXCEPT ![Cleaner] = {}]
           /\ Go(Cleaner, "idle")
           /\ UNCHANGED <<table, old>>
  BY <1>1, <1>2, SweepOver DEF Go
<1>3. ASSUME NEW n \in stale, table[n] # NoRoute,
             old' = [old EXCEPT ![Cleaner] = table[n].conn],
             table' = [table EXCEPT ![n] = NoRoute],
             rest' = [rest EXCEPT ![Cleaner] = stale \ {n}],
             holder' = Cleaner, Go(Cleaner, "closing")
      PROVE  RoutesInv'
  BY <1>1, <1>3, SweepGoesOn DEF Go
<1>4. QED
  BY <1>2, <1>3 DEF Sweep

LEMMA CleanUpKeeps ==
  ASSUME RoutesInv, CleanUp \/ CleanerTurn
  PROVE  RoutesInv'
<1> USE TasksApart DEF Stands
<1>1. \A s \in Stale : s \in SUBSET Nodes
  BY DEF Stale
<1>2. CASE CleanUp /\ holder = NoHolder
  <2>1. \A u \in EveryTask : ~ClosesLocked(u)
    BY <1>2 DEF RoutesInv, LockHeld
  <2>2. CASE \E s \in Stale : Sweep(s)
    BY <1>1, <1>2, <2>1, <2>2, SweepKeeps DEF CleanUp
  <2>3. QED
    BY <1>2, <2>2 DEF CleanUp, Queue
<1>3. CASE CleanUp /\ holder # NoHolder
  BY <1>3, ServiceWaits DEF CleanUp, Queue
<1>4. CASE CleanerTurn
  <2>1. \A u \in EveryTask : ~ClosesLocked(u)
    BY <1>4 DEF CleanerTurn, RoutesInv, LockHeld, ClosesLocked
  <2>2. QED
    BY <1>1, <1>4, <2>1, SweepKeeps DEF CleanerTurn
<1>5. QED
  BY <1>2, <1>3, <1>4

LEMMA StaleClosedKeeps ==
  ASSUME RoutesInv, StaleClosed
  PROVE  RoutesInv'
<1> USE TasksApart
<1>1. /\ at[Cleaner] = "closing" /\ old[Cleaner] \in Links
      /\ \A u \in EveryTask \ {Cleaner} : ~ClosesLocked(u)
  BY DEF StaleClosed, Stands, RoutesInv, AllMade, Made, LockHeld, ClosesLocked, Disconnecting
<1>2. /\ link' \in [Links -> {"none", "open", "failed", "closed"}]
      /\ \A x \in Links : link'[x] = link[x] \/ (link'[x] = "closed" /\ x = old[Cleaner])
      /\ link'[old[Cleaner]] = "closed"
      /\ UNCHANGED <<made, callVars, dropped>>
  BY <1>1 DEF StaleClosed, RoutesInv, Shaped
<1>3. CASE /\ rest' = [rest EXCEPT ![Cleaner] = {}]
           /\ old' = [old EXCEPT ![Cleaner] = NoLink]
           /\ Go(Cleaner, "idle")
           /\ UNCHANGED table
  BY <1>1, <1>2, <1>3, SweepOver DEF Go
<1>4. ASSUME Sweep(rest[Cleaner]), at'[Cleaner] = "closing"
      PROVE  RoutesInv'
  <2>1. rest[Cleaner] \in SUBSET Nodes /\ ~Go(Cleaner, "idle")
    BY <1>4 DEF RoutesInv, Shaped, Go
  <2>2. PICK n \in rest[Cleaner] :
               /\ table[n] # NoRoute
               /\ old' = [old EXCEPT ![Cleaner] = table[n].conn]
               /\ table' = [table EXCEPT ![n] = NoRoute]
               /\ rest' = [rest EXCEPT ![Cleaner] = rest[Cleaner] \ {n}]
               /\ holder' = Cleaner
               /\ Go(Cleaner, "closing")
    BY <1>4, <2>1 DEF Sweep
  <2>3. QED
    BY <1>1, <1>2, <2>1, <2>2, SweepGoesOn DEF Go
<1>5. QED
  BY <1>3, <1>4 DEF StaleClosed

\* shutdown() cancels the clean-up wherever it waits.
LEMMA CancelKeeps ==
  ASSUME RoutesInv, CancelCleaner
  PROVE  RoutesInv'
<1> USE TasksApart DEF RoutesInv
<1>0. /\ at[Stopper] = "idle"
      /\ at' = [at EXCEPT ![Stopper] = "cancelling", ![Cleaner] = "over"]
      /\ holder = Cleaner \/ holder' = holder
      /\ dropped' = dropped \cup ({old[Cleaner]} \ {NoLink})
      /\ old' = [old EXCEPT ![Cleaner] = NoLink]
      /\ rest' = [rest EXCEPT ![Cleaner] = {}]
      /\ UNCHANGED <<connVars, table, callVars>>
  BY DEF CancelCleaner, Leave, Stands
<1>00. rest'[Stopper] = rest[Stopper] /\ UNCHANGED <<link, made, doing, node, mine>>
  BY <1>0 DEF Shaped, connVars, callVars
<1>1. Shaped'
  BY <1>0, <1>00 DEF Shaped, Places, Doings
<1>2. LockHeld'
  BY <1>0, <1>00 DEF Shaped, LockHeld, ClosesLocked, Disconnecting
<1>3. NothingOld'
  BY <1>0, <1>00 DEF Shaped, NothingOld
<1>4. OldInPlace'
  BY <1>0, <1>00 DEF Shaped, OldInPlace, LockHeld, ClosesLocked, Disconnecting
<1>5. AllMade'
  BY <1>0, <1>00 DEF Shaped, AllMade, Holds, ClosesLocked, Disconnecting, Made
<1>6. NothingMine'
  BY <1>0, <1>00 DEF Shaped, NothingMine
<1>7. Private'
  BY <1>0, <1>00 DEF Shaped, Private, AllMade, Made, Waits, Holds, ClosesLocked, Disconnecting,
     InTable
<1>8. ListComplete'
  BY <1>0, <1>00 DEF Shaped, ListComplete, InTable
<1>9. RouteOwned'
  BY <1>0, <1>00 DEF Shaped, RouteOwned, InHands, InTable, Unclosed, NothingMine, NothingOld
<1>10. QED
  BY <1>1, <1>2, <1>3, <1>4, <1>5, <1>6, <1>7, <1>8, <1>9 DEF RoutesInv

\* shutdown() closes what the table holds.
LEMMA CloseNextKeeps ==
  ASSUME RoutesInv, NEW open \in SUBSET Links, CloseNext(open),
         \A u \in EveryTask \ {Stopper} : ~ClosesLocked(u),
         link' \in [Links -> {"none", "open", "failed", "closed"}],
         \A x \in Links : link'[x] = link[x] \/ (link'[x] = "closed" /\ x = old[Stopper]),
         old[Stopper] # NoLink => link'[old[Stopper]] = "closed",
         \A x \in open : Made(x), \A t \in Clients : Waits(t) => mine[t] \notin open,
         \A x \in Links : InTable(x) => link'[x] = "closed" \/ x \in open,
         UNCHANGED <<made, callVars, dropped>>
  PROVE  RoutesInv'
<1>1. CASE open = {}
  BY <1>1, ShutdownOver DEF CloseNext, Go
<1>2. CASE open # {}
  BY <1>2, ShutdownGoesOn DEF CloseNext, Go
<1>3. QED
  BY <1>1, <1>2

LEMMA ShutdownKeeps ==
  ASSUME RoutesInv, Shutdown \/ StopperTurn
  PROVE  RoutesInv'
<1> USE TasksApart DEF Stands
<1>1. /\ Listed \in SUBSET Links
      /\ \A x \in Listed : Made(x)
      /\ \A t \in Clients : Waits(t) => mine[t] \notin Listed
      /\ \A x \in Links : InTable(x) => x \in Listed
  BY DEF Listed, InTable, RoutesInv, AllMade, Private, Made
<1>2. CASE Shutdown /\ holder # NoHolder
  BY <1>2, ServiceWaits DEF Shutdown, Queue
<1>3. CASE (Shutdown /\ holder = NoHolder) \/ StopperTurn
  <2>1. \A u \in EveryTask : ~ClosesLocked(u)
    BY <1>3 DEF StopperTurn, RoutesInv, LockHeld, ClosesLocked
  <2>2. /\ CloseNext(Listed) /\ old[Stopper] = NoLink
        /\ UNCHANGED <<connVars, callVars, dropped>>
    BY <1>3 DEF Shutdown, StopperTurn, Queue, RoutesInv, NothingOld
  <2>3. link' \in [Links -> {"none", "open", "failed", "closed"}]
    BY <2>2 DEF connVars, RoutesInv, Shaped
  <2>4. QED
    BY <1>1, <2>1, <2>2, <2>3, CloseNextKeeps DEF connVars
<1>4. QED
  BY <1>2, <1>3

LEMMA RouteShutKeeps ==
  ASSUME RoutesInv, RouteShut
  PROVE  RoutesInv'
<1> USE TasksApart
<1>1. /\ at[Stopper] = "closing" /\ old[Stopper] \in Links
      /\ \A u \in EveryTask \ {Stopper} : ~ClosesLocked(u)
  BY DEF RouteShut, Stands, RoutesInv, AllMade, Made, LockHeld, ClosesLocked, Disconnecting
<1>2. /\ link' \in [Links -> {"none", "open", "failed", "closed"}]
      /\ \A x \in Links : link'[x] = link[x] \/ (link'[x] = "closed" /\ x = old[Stopper])
      /\ link'[old[Stopper]] = "closed"
      /\ UNCHANGED <<made, callVars, dropped>>
  BY <1>1 DEF RouteShut, RoutesInv, Shaped
<1>3. /\ rest[Stopper] \in SUBSET Links
      /\ \A x \in rest[Stopper] : Made(x)
      /\ \A t \in Clients : Waits(t) => mine[t] \notin rest[Stopper]
      /\ \A x \in Links : InTable(x) => link'[x] = "closed" \/ x \in rest[Stopper]
  BY <1>1, <1>2 DEF RoutesInv, Shaped, AllMade, Private, ListComplete
<1>4. QED
  BY <1>1, <1>2, <1>3, CloseNextKeeps DEF RouteShut

LEMMA RoutesStep == RoutesInv /\ [RoutesNext]_routesVars => RoutesInv'
<1> SUFFICES ASSUME RoutesInv, [RoutesNext]_routesVars PROVE RoutesInv'
  OBVIOUS
<1>1. ASSUME NEW t \in Clients, Step(t) PROVE RoutesInv'
  BY <1>1, QuietKeeps, EstablishKeeps, TakeTurnKeeps, OldClosedKeeps, ReinstallKeeps,
     SendFailsKeeps, DropTurnKeeps, DisconnectedKeeps DEF Step
<1>2. ASSUME NEW t \in Clients, NEW n \in Nodes,
             BeginConnect(t, n) \/ BeginSend(t, n) \/ DisconnectNode(t, n)
      PROVE  RoutesInv'
  BY <1>2, QuietKeeps, DisconnectKeeps
<1>3. CASE CleanUp \/ CleanerStep
  BY <1>3, CleanUpKeeps, StaleClosedKeeps DEF CleanerStep
<1>4. CASE CancelCleaner \/ StopperStep
  BY <1>4, CancelKeeps, ShutdownKeeps, RouteShutKeeps DEF StopperStep
<1>5. CASE \E c \in Links : PeerFails(c)
  BY <1>5, FailureKeeps
<1>6. CASE UNCHANGED routesVars
  BY <1>6 DEF routesVars, RoutesInv, Shaped, LockHeld, NothingOld, OldInPlace, AllMade,
     NothingMine, Private, ListComplete, RouteOwned, ClosesLocked, Disconnecting, Holds, Made,
     Waits, InTable, InHands, Unclosed
<1>7. QED
  BY <1>1, <1>2, <1>3, <1>4, <1>5, <1>6 DEF RoutesNext

LEMMA RoutesInitInv == RoutesInit => RoutesInv
<1> SUFFICES ASSUME RoutesInit PROVE RoutesInv
  OBVIOUS
<1>0. AnyNode \in Nodes
  BY RoutesNodes DEF AnyNode
<1>1. Shaped
  BY <1>0, RoutesBounds, TasksApart DEF RoutesInit, Shaped, Places, Doings
<1>2. LockHeld /\ NothingOld /\ OldInPlace /\ AllMade /\ NothingMine /\ Private /\ ListComplete
  BY TasksApart DEF RoutesInit, LockHeld, NothingOld, OldInPlace, AllMade, NothingMine, Private,
     ListComplete, ClosesLocked, Holds, Made, Waits
<1>3. RouteOwned
  BY DEF RoutesInit, RouteOwned, Unclosed
<1>4. QED
  BY <1>1, <1>2, <1>3 DEF RoutesInv

\* A connection that nobody has closed is in the table or in the hands of a
\* call, or was dropped by one of the three steps that do so, for any number of
\* tasks, nodes and connections.
THEOREM RoutesAreOwned == RoutesSpec => []RouteOwned
<1>1. RoutesInv => RouteOwned
  BY DEF RoutesInv
<1>2. QED
  BY <1>1, RoutesInitInv, RoutesStep, PTL DEF RoutesSpec

\* When connect() returns the connection it has established, the table holds
\* that connection and nobody has closed it, whatever ran while it waited.
THEOREM ConnectedIsLive == RoutesSpec => ConnectGivesLive
<1> DEFINE Gives(t) ==
      /\ doing[t] = "connect" /\ at'[t] = "idle"
      /\ \/ at[t] = "establishing" /\ made' = made + 1
         \/ at[t] \in {"locking", "closing"}
      => /\ table'[node[t]] # NoRoute
         /\ link'[table'[node[t]].conn] # "closed"
         /\ mine[t] # NoLink => table'[node[t]].conn = mine[t]
<1>1. ASSUME RoutesInv, [RoutesNext]_routesVars, NEW t \in Clients
      PROVE  Gives(t)
  <2> USE TasksApart
  <2> SUFFICES ASSUME doing[t] = "connect", at'[t] = "idle",
                      \/ at[t] = "establishing" /\ made' = made + 1
                      \/ at[t] \in {"locking", "closing"}
               PROVE  /\ table'[node[t]] # NoRoute
                      /\ link'[table'[node[t]].conn] # "closed"
                      /\ mine[t] # NoLink => table'[node[t]].conn = mine[t]
    OBVIOUS
  <2>0. Shaped /\ at[t] # at'[t] /\ t # Cleaner /\ t # Stopper
    BY <1>1 DEF RoutesInv
  <2>1. ASSUME NEW c \in Links, Installed(t, c), link'[c] # "closed", mine[t] \in {c, NoLink}
        PROVE  /\ table'[node[t]] # NoRoute
               /\ link'[table'[node[t]].conn] # "closed"
               /\ mine[t] # NoLink => table'[node[t]].conn = mine[t]
    <3>1. table'[node[t]] = Route(c) /\ Route(c).conn = c
      BY <2>0, <2>1 DEF Installed, Route, Shaped
    <3>2. Route(c) \in [conn : 1..MaxConns, shut : BOOLEAN]
      BY DEF Route, Links
    <3>3. QED
      BY <2>1, <3>1, <3>2, NoRouteAssumption
  <2>2. ASSUME NEW c \in Links, Install(t, c) PROVE Installed(t, c)
    BY <2>0, <2>2 DEF Install, Go, Shaped
  <2>3. CASE Establish(t)
    <3>1. made + 1 \in Links /\ link'[made + 1] = "open" /\ mine[t] = NoLink
      BY <1>1, <2>3, RoutesBounds
      DEF Establish, Stands, RoutesInv, NothingMine, Shaped, Links
    <3>2. Install(t, made + 1)
      BY <2>0, <2>3 DEF Establish, Queue, Shaped
    <3>3. QED
      BY <2>1, <2>2, <3>1, <3>2
  <2>4. CASE TakeTurn(t)
    <3>1. mine[t] \in Links /\ link'[mine[t]] # "closed"
      BY <1>1, <2>4
      DEF TakeTurn, Stands, connVars, RoutesInv, AllMade, Private, Holds, Waits, Made
    <3>2. QED
      BY <2>1, <2>2, <2>4, <3>1 DEF TakeTurn
  <2>5. CASE OldClosed(t)
    <3>1. /\ mine[t] \in Links /\ link[mine[t]] # "closed" /\ old[t] # mine[t]
          /\ link' = [link EXCEPT ![old[t]] = "closed"]
      BY <1>1, <2>5
      DEF OldClosed, Stands, RoutesInv, AllMade, Private, Holds, Waits, Made, ClosesLocked,
          Disconnecting
    <3>2. link'[mine[t]] # "closed"
      BY <2>0, <3>1 DEF Shaped
    <3>3. QED
      BY <2>1, <2>5, <3>1, <3>2 DEF OldClosed
  <2>6. CASE NodeDisconnected(t) \/ Unreachable(t)
    BY <2>0, <2>6 DEF NodeDisconnected, Unreachable, Stands, connVars, Shaped
  <2>7. CASE \/ EstablishFails(t) \/ TryAgain(t) \/ Reinstall(t) \/ SendDone(t)
             \/ SendFails(t) \/ DropTurn(t) \/ SendAgain(t)
             \/ \E n \in Nodes : BeginConnect(t, n) \/ BeginSend(t, n) \/ DisconnectNode(t, n)
    BY <2>0, <2>7 DEF EstablishFails, TryAgain, Reinstall, SendDone, SendFails, DropTurn,
       SendAgain, BeginConnect, BeginSend, DisconnectNode, Stands, Go, Shaped
  <2>8. ASSUME NEW u \in EveryTask, NEW p, u # t, at' = [at EXCEPT ![u] = p]
        PROVE  FALSE
    BY <2>0, <2>8 DEF Shaped
  <2>9. ASSUME NEW u \in Clients, u # t, Step(u) PROVE FALSE
    BY <2>8, <2>9 DEF Step, Unreachable, Establish, EstablishFails, TryAgain, TakeTurn, OldClosed,
       Reinstall, SendDone, SendFails, DropTurn, SendAgain, NodeDisconnected, Install, Installed,
       Return, AttemptSend, Drop, Queue, Go
  <2>10. ASSUME NEW u \in Clients, u # t, NEW n \in Nodes,
                BeginConnect(u, n) \/ BeginSend(u, n) \/ DisconnectNode(u, n)
         PROVE  FALSE
    BY <2>8, <2>10 DEF BeginConnect, BeginSend, DisconnectNode, AttemptSend, Go
  <2>11. CASE CleanUp \/ CleanerStep \/ StopperStep
    BY <2>0, <2>8, <2>11 DEF CleanUp, CleanerStep, StopperStep, CleanerTurn, StaleClosed, Shutdown,
       StopperTurn, RouteShut, Sweep, CloseNext, Queue, Go
  <2>12. CASE CancelCleaner
    BY <2>0, <2>12 DEF CancelCleaner, Shaped
  <2>13. CASE UNCHANGED at
    BY <2>0, <2>13
  <2>14. QED
    BY <1>1, <2>3, <2>4, <2>5, <2>6, <2>7, <2>9, <2>10, <2>11, <2>12, <2>13
    DEF RoutesNext, Step, PeerFails, routesVars
<1>2. RoutesInv /\ [RoutesNext]_routesVars => [\A t \in Clients : Gives(t)]_routesVars
  BY <1>1
<1>3. QED
  BY <1>2, RoutesInitInv, RoutesStep, PTL DEF RoutesSpec, ConnectGivesLive

(***************************************************************************)
(* The lock of the routes.                                                 *)
(***************************************************************************)

\* t waits for the lock, or has been handed it and has not run yet.
Queued(t) == at[t] \in {"locking", "relocking", "dropping"}
InLine(t) == \E i \in 1..Len(waiters) : waiters[i] = t

\* Whoever waits for the lock stands in the line, once, or has been handed the
\* lock; whoever holds the lock has still to release it; nobody waits for a free
\* lock.
LineInv ==
  /\ holder \in EveryTask \cup {NoHolder}
  /\ waiters \in Seq(EveryTask)
  /\ holder = NoHolder => waiters = <<>>
  /\ holder # NoHolder => Queued(holder) \/ ClosesLocked(holder)
  /\ \A t \in EveryTask : Queued(t) => holder = t \/ InLine(t)
  /\ \A i \in 1..Len(waiters) : Queued(waiters[i]) /\ waiters[i] # holder
  /\ \A i, j \in 1..Len(waiters) : waiters[i] = waiters[j] => i = j

\* Only t begins or ends to wait for the lock, or to close a route inside it.
OnlyMoves(t) ==
  \A u \in EveryTask \ {t} : /\ Queued(u)' <=> Queued(u)
                             /\ ClosesLocked(u)' <=> ClosesLocked(u)

LEMMA MoveIsOnly ==
  ASSUME Shaped, NEW t \in EveryTask, NEW p, at' = [at EXCEPT ![t] = p],
         \A u \in Clients \ {t} : doing'[u] = doing[u]
  PROVE  OnlyMoves(t) /\ at'[t] = p
BY TasksApart DEF Shaped, OnlyMoves, Queued, ClosesLocked, Disconnecting

\* t neither waits nor stops waiting.
LEMMA LineStill ==
  ASSUME LineInv, NEW t \in EveryTask, OnlyMoves(t), UNCHANGED lockVars,
         ~Queued(t), ~Queued(t)', holder = t => ClosesLocked(t)'
  PROVE  LineInv'
<1> USE TasksApart DEF lockVars
<1>1. \A i \in 1..Len(waiters) : waiters[i] \in EveryTask \ {t}
  BY DEF LineInv
<1>2. holder' \in EveryTask \cup {NoHolder} /\ waiters' \in Seq(EveryTask)
  BY DEF LineInv
<1>3. holder' = NoHolder => waiters' = <<>>
  BY DEF LineInv
<1>4. holder' # NoHolder => Queued(holder)' \/ ClosesLocked(holder)'
  BY DEF LineInv, OnlyMoves
<1>5. (\A u \in EveryTask : Queued(u) => holder = u \/ InLine(u))'
  BY DEF LineInv, OnlyMoves, InLine
<1>6. (\A i \in 1..Len(waiters) : Queued(waiters[i]) /\ waiters[i] # holder)'
  BY <1>1 DEF LineInv, OnlyMoves
<1>7. (\A i, j \in 1..Len(waiters) : waiters[i] = waiters[j] => i = j)'
  BY DEF LineInv
<1>8. QED
  BY <1>2, <1>3, <1>4, <1>5, <1>6, <1>7 DEF LineInv

\* t joins the line.
LEMMA LineJoined ==
  ASSUME LineInv, NEW t \in EveryTask, OnlyMoves(t), holder # NoHolder, holder # t,
         ~Queued(t), Queued(t)', waiters' = Append(waiters, t), holder' = holder
  PROVE  LineInv'
<1> USE TasksApart
<1> DEFINE L == Len(waiters)
<1>0. /\ waiters \in Seq(EveryTask) /\ L \in Nat
      /\ Len(waiters') = L + 1 /\ waiters'[L + 1] = t
      /\ \A i \in 1..L : waiters'[i] = waiters[i]
      /\ waiters' \in Seq(EveryTask)
  BY DEF LineInv
<1>1. \A i \in 1..L : waiters[i] \in EveryTask \ {t}
  BY <1>0 DEF LineInv
<1> HIDE DEF L
<1>2. \A i \in 1..(L + 1) : i \in 1..L \/ i = L + 1
  BY <1>0
<1>3. holder' \in EveryTask \cup {NoHolder} /\ holder' # NoHolder
  BY DEF LineInv
<1>4. Queued(holder)' \/ ClosesLocked(holder)'
  BY DEF LineInv, OnlyMoves
<1>5. (\A u \in EveryTask : Queued(u) => holder = u \/ InLine(u))'
  <2> SUFFICES ASSUME NEW u \in EveryTask, Queued(u)' PROVE holder' = u \/ InLine(u)'
    OBVIOUS
  <2>1. CASE u = t
    <3>1. L + 1 \in 1..Len(waiters')
      BY <1>0
    <3>2. QED
      BY <1>0, <2>1, <3>1 DEF InLine
  <2>2. CASE u # t
    <3>1. holder = u \/ InLine(u)
      BY <2>2 DEF LineInv, OnlyMoves
    <3>2. ASSUME NEW i \in 1..L, waiters[i] = u PROVE InLine(u)'
      <4>1. i \in 1..Len(waiters') /\ waiters'[i] = u
        BY <1>0, <3>2
      <4>2. QED
        BY <4>1 DEF InLine
    <3>3. QED
      BY <3>1, <3>2 DEF InLine, L
  <2>3. QED
    BY <2>1, <2>2
<1>6. (\A i \in 1..Len(waiters) : Queued(waiters[i]) /\ waiters[i] # holder)'
  <2> SUFFICES ASSUME NEW i \in 1..(L + 1)
               PROVE  Queued(waiters[i])' /\ waiters'[i] # holder'
    BY <1>0
  <2>1. CASE i \in 1..L
    BY <1>0, <1>1, <2>1 DEF LineInv, OnlyMoves, L
  <2>2. CASE i = L + 1
    BY <1>0, <2>2
  <2>3. QED
    BY <1>2, <2>1, <2>2
<1>7. (\A i, j \in 1..Len(waiters) : waiters[i] = waiters[j] => i = j)'
  BY <1>0, <1>1, <1>2 DEF LineInv, L
<1>8. QED
  BY <1>0, <1>3, <1>4, <1>5, <1>6, <1>7 DEF LineInv

\* t, who holds the lock or has just taken it, releases it.
LEMMA LineReleased ==
  ASSUME LineInv, NEW t \in EveryTask, OnlyMoves(t), holder \in {t, NoHolder},
         ~Queued(t)', Release
  PROVE  LineInv'
<1> USE TasksApart
<1>1. CASE waiters = <<>>
  <2>1. holder' = NoHolder /\ waiters' = <<>> /\ Len(waiters') = 0 /\ waiters' \in Seq(EveryTask)
    BY <1>1 DEF Release
  <2>2. (\A u \in EveryTask : Queued(u) => holder = u \/ InLine(u))'
    BY <1>1 DEF LineInv, OnlyMoves, InLine
  <2>3. 1..0 = {}
    OBVIOUS
  <2>4. QED
    BY <2>1, <2>2, <2>3 DEF LineInv
<1>2. CASE waiters # <<>>
  <2> DEFINE L == Len(waiters)
  <2>0. /\ waiters \in Seq(EveryTask) /\ L \in Nat /\ L # 0
        /\ holder' = waiters[1] /\ waiters' = Tail(waiters)
    BY <1>2 DEF Release, LineInv
  <2>1. /\ Len(waiters') = L - 1 /\ waiters' \in Seq(EveryTask)
        /\ \A i \in 1..(L - 1) : waiters'[i] = waiters[i + 1]
    BY <2>0
  <2>2. holder = t
    BY <1>2 DEF LineInv
  <2>3. \A i \in 1..L : waiters[i] \in EveryTask \ {t}
    BY <2>0, <2>2 DEF LineInv
  <2> HIDE DEF L
  <2>4. /\ \A i \in 1..(L - 1) : i \in 1..L /\ i + 1 \in 1..L /\ i + 1 # 1
        /\ \A i \in 1..L : i = 1 \/ (i - 1 \in 1..(L - 1) /\ (i - 1) + 1 = i)
        /\ 1 \in 1..L
    BY <2>0
  <2>5. holder' \in EveryTask /\ Queued(holder)'
    BY <2>0, <2>3, <2>4 DEF LineInv, OnlyMoves, L
  <2>6. (\A u \in EveryTask : Queued(u) => holder = u \/ InLine(u))'
    <3> SUFFICES ASSUME NEW u \in EveryTask, Queued(u)' PROVE holder' = u \/ InLine(u)'
      OBVIOUS
    <3>1. u # t /\ Queued(u)
      BY DEF OnlyMoves
    <3>2. PICK i \in 1..L : waiters[i] = u
      BY <2>2, <3>1 DEF LineInv, InLine, L
    <3>3. CASE i = 1
      BY <2>0, <3>2, <3>3
    <3>4. CASE i # 1
      <4>1. i - 1 \in 1..Len(waiters') /\ waiters'[i - 1] = u
        BY <2>1, <2>4, <3>2, <3>4
      <4>2. QED
        BY <4>1 DEF InLine
    <3>5. QED
      BY <3>3, <3>4
  <2>7. (\A i \in 1..Len(waiters) : Queued(waiters[i]) /\ waiters[i] # holder)'
    <3> SUFFICES ASSUME NEW i \in 1..(L - 1)
                 PROVE  Queued(waiters[i])' /\ waiters'[i] # holder'
      BY <2>1
    <3>1. waiters'[i] = waiters[i + 1] /\ i + 1 \in 1..L /\ i + 1 # 1
      BY <2>1, <2>4
    <3>2. waiters[i + 1] # waiters[1]
      BY <2>4, <3>1 DEF LineInv, L
    <3>3. Queued(waiters[i + 1]) /\ waiters[i + 1] \in EveryTask \ {t}
      BY <2>3, <3>1 DEF LineInv, L
    <3>4. QED
      BY <2>0, <3>1, <3>2, <3>3 DEF OnlyMoves, Queued
  <2>8. (\A i, j \in 1..Len(waiters) : waiters[i] = waiters[j] => i = j)'
    BY <2>0, <2>1, <2>4 DEF LineInv, L
  <2>9. holder' # NoHolder
    BY <2>5
  <2>10. QED
    BY <2>1, <2>5, <2>6, <2>7, <2>8, <2>9 DEF LineInv
<1>3. QED
  BY <1>1, <1>2

\* t, who holds the lock or takes it, keeps it to close a route.
LEMMA LineTaken ==
  ASSUME LineInv, NEW t \in EveryTask, OnlyMoves(t), holder \in {t, NoHolder},
         ~Queued(t)', ClosesLocked(t)', holder' = t, UNCHANGED waiters
  PROVE  LineInv'
<1> USE TasksApart
<1>1. \A i \in 1..Len(waiters) : waiters[i] \in EveryTask \ {t}
  BY DEF LineInv
<1>2. holder' \in EveryTask \cup {NoHolder} /\ waiters' \in Seq(EveryTask) /\ holder' # NoHolder
  BY DEF LineInv
<1>3. (\A u \in EveryTask : Queued(u) => holder = u \/ InLine(u))'
  BY DEF LineInv, OnlyMoves, InLine
<1>4. (\A i \in 1..Len(waiters) : Queued(waiters[i]) /\ waiters[i] # holder)'
  BY <1>1 DEF LineInv, OnlyMoves
<1>5. (\A i, j \in 1..Len(waiters) : waiters[i] = waiters[j] => i = j)'
  BY DEF LineInv
<1>6. ClosesLocked(holder)'
  OBVIOUS
<1>7. QED
  BY <1>2, <1>3, <1>4, <1>5, <1>6 DEF LineInv

\* t releases the lock and joins the line again behind the others.
LEMMA LineRejoined ==
  ASSUME LineInv, NEW t \in EveryTask, OnlyMoves(t), holder \in {t, NoHolder},
         waiters # <<>>, Queued(t)', holder' = Head(waiters),
         waiters' = Append(Tail(waiters), t)
  PROVE  LineInv'
<1> USE TasksApart
<1> DEFINE L == Len(waiters)
<1>0. /\ waiters \in Seq(EveryTask) /\ L \in Nat /\ L # 0
      /\ holder' = waiters[1] /\ waiters' = Append(Tail(waiters), t)
      /\ Tail(waiters) \in Seq(EveryTask) /\ Len(Tail(waiters)) = L - 1
      /\ \A i \in 1..(L - 1) : Tail(waiters)[i] = waiters[i + 1]
  BY DEF LineInv
<1>1. /\ Len(waiters') = L /\ waiters' \in Seq(EveryTask) /\ waiters'[L] = t
      /\ \A i \in 1..(L - 1) : waiters'[i] = waiters[i + 1]
  <2>1. /\ Len(waiters') = (L - 1) + 1 /\ waiters' \in Seq(EveryTask)
        /\ waiters'[(L - 1) + 1] = t
        /\ \A i \in 1..(L - 1) : waiters'[i] = Tail(waiters)[i]
    BY <1>0
  <2>2. (L - 1) + 1 = L
    BY <1>0
  <2>3. QED
    BY <1>0, <2>1, <2>2
<1>2. holder = t
  BY DEF LineInv
<1>3. \A i \in 1..L : waiters[i] \in EveryTask \ {t}
  BY <1>0, <1>2 DEF LineInv
<1> HIDE DEF L
<1>4. /\ \A i \in 1..(L - 1) : i \in 1..L /\ i + 1 \in 1..L /\ i + 1 # 1
      /\ \A i \in 1..L : i = 1 \/ (i - 1 \in 1..(L - 1) /\ (i - 1) + 1 = i)
      /\ \A i \in 1..L : i = L \/ i \in 1..(L - 1)
      /\ 1 \in 1..L /\ L \in 1..L
  BY <1>0
<1>5. holder' \in EveryTask /\ Queued(holder)' /\ holder' # NoHolder
  <2>1. waiters[1] \in EveryTask \ {t} /\ Queued(waiters[1])
    BY <1>3, <1>4 DEF LineInv, L
  <2>2. QED
    BY <1>0, <2>1 DEF OnlyMoves, Queued
<1>6. (\A u \in EveryTask : Queued(u) => holder = u \/ InLine(u))'
  <2> SUFFICES ASSUME NEW u \in EveryTask, Queued(u)' PROVE holder' = u \/ InLine(u)'
    OBVIOUS
  <2>1. CASE u = t
    BY <1>1, <1>4, <2>1 DEF InLine
  <2>2. CASE u # t
    <3>1. PICK i \in 1..L : waiters[i] = u
      BY <1>2, <2>2 DEF LineInv, OnlyMoves, InLine, L
    <3>2. CASE i = 1
      BY <1>0, <3>1, <3>2
    <3>3. CASE i # 1
      <4>1. i - 1 \in 1..(L - 1) /\ (i - 1) + 1 = i
        BY <1>4, <3>3
      <4>2. waiters'[i - 1] = u
        BY <1>1, <3>1, <4>1
      <4>3. i - 1 \in 1..Len(waiters')
        BY <1>1, <1>4, <4>1
      <4>4. QED
        BY <4>2, <4>3 DEF InLine
    <3>4. QED
      BY <3>2, <3>3
  <2>3. QED
    BY <2>1, <2>2
<1>7. (\A i \in 1..Len(waiters) : Queued(waiters[i]) /\ waiters[i] # holder)'
  <2> SUFFICES ASSUME NEW i \in 1..L
               PROVE  Queued(waiters[i])' /\ waiters'[i] # holder'
    BY <1>1
  <2>1. CASE i = L
    BY <1>0, <1>1, <1>3, <1>4, <2>1
  <2>2. CASE i \in 1..(L - 1)
    <3>1. waiters'[i] = waiters[i + 1] /\ i + 1 \in 1..L /\ i + 1 # 1
      BY <1>1, <1>4, <2>2
    <3>2. waiters[i + 1] # waiters[1]
      BY <1>4, <3>1 DEF LineInv, L
    <3>3. Queued(waiters[i + 1]) /\ waiters[i + 1] \in EveryTask \ {t}
      BY <1>3, <3>1 DEF LineInv, L
    <3>4. QED
      BY <1>0, <3>1, <3>2, <3>3 DEF OnlyMoves, Queued
  <2>3. QED
    BY <1>4, <2>1, <2>2
<1>8. (\A i, j \in 1..Len(waiters) : waiters[i] = waiters[j] => i = j)'
  <2> SUFFICES ASSUME NEW i \in 1..L, NEW j \in 1..L, waiters'[i] = waiters'[j] PROVE i = j
    BY <1>1
  <2>1. CASE i \in 1..(L - 1) /\ j \in 1..(L - 1)
    <3>1. waiters[i + 1] = waiters[j + 1] /\ i + 1 \in 1..L /\ j + 1 \in 1..L
      BY <1>1, <1>4, <2>1
    <3>2. i + 1 = j + 1
      BY <3>1 DEF LineInv, L
    <3>3. QED
      BY <3>2
  <2>2. ASSUME NEW k \in 1..(L - 1) PROVE waiters'[k] # t
    BY <1>1, <1>3, <1>4, <2>2
  <2>3. QED
    BY <1>1, <1>4, <2>1, <2>2
<1>9. QED
  BY <1>1, <1>5, <1>6, <1>7, <1>8 DEF LineInv

\* Removing one place keeps the others in order.
LEMMA RemovedPlace ==
  ASSUME NEW S, NEW s \in Seq(S), NEW i \in 1..Len(s)
  PROVE  /\ RemoveAt(s, i) \in Seq(S)
         /\ Len(RemoveAt(s, i)) = Len(s) - 1
         /\ \A j \in 1..(Len(s) - 1) :
              RemoveAt(s, i)[j] = IF j < i THEN s[j] ELSE s[j + 1]
<1> DEFINE a == SubSeq(s, 1, i - 1)
           b == SubSeq(s, i + 1, Len(s))
<1>0. Len(s) \in Nat /\ i \in Nat /\ i - 1 \in Nat
  OBVIOUS
<1>1. a \in Seq(S) /\ Len(a) = i - 1 /\ \A j \in 1..(i - 1) : a[j] = s[j]
  BY <1>0, SubSeqProperties
<1>2. b \in Seq(S) /\ Len(b) = Len(s) - i /\ \A j \in 1..(Len(s) - i) : b[j] = s[i + j]
  BY <1>0, SubSeqProperties
<1>3. RemoveAt(s, i) = a \o b
  BY DEF RemoveAt
<1> HIDE DEF a, b
<1>4. /\ a \o b \in Seq(S) /\ Len(a \o b) = Len(a) + Len(b)
      /\ \A j \in 1..(Len(a) + Len(b)) :
           (a \o b)[j] = IF j <= Len(a) THEN a[j] ELSE b[j - Len(a)]
  BY <1>1, <1>2, ConcatProperties
<1>5. ASSUME NEW j \in 1..(Len(s) - 1)
      PROVE  (a \o b)[j] = IF j < i THEN s[j] ELSE s[j + 1]
  <2>1. CASE j < i
    BY <1>0, <1>1, <1>2, <1>4, <2>1
  <2>2. CASE ~(j < i)
    <3>1. (a \o b)[j] = b[j - (i - 1)] /\ j - (i - 1) \in 1..(Len(s) - i)
      BY <1>0, <1>1, <1>2, <1>4, <2>2
    <3>2. b[j - (i - 1)] = s[i + (j - (i - 1))] /\ i + (j - (i - 1)) = j + 1
      BY <1>0, <1>2, <3>1
    <3>3. QED
      BY <2>2, <3>1, <3>2
  <2>3. QED
    BY <2>1, <2>2
<1>6. QED
  BY <1>0, <1>1, <1>2, <1>3, <1>4, <1>5

\* t, who does not hold the lock, is cancelled.
LEMMA LineLeft ==
  ASSUME LineInv, NEW t \in EveryTask, OnlyMoves(t), holder # t, ~Queued(t)', Leave(t)
  PROVE  LineInv'
<1> USE TasksApart
<1>0. waiters \in Seq(EveryTask) /\ holder' = holder /\ Len(waiters) \in Nat
  BY DEF LineInv, Leave
<1>1. CASE (\A i \in 1..Len(waiters) : waiters[i] # t) /\ UNCHANGED waiters
  <2>1. ~Queued(t) /\ UNCHANGED lockVars
    BY <1>0, <1>1 DEF LineInv, InLine, lockVars
  <2>2. QED
    BY <2>1, LineStill
<1>2. ASSUME NEW k \in 1..Len(waiters), waiters[k] = t, waiters' = RemoveAt(waiters, k)
      PROVE  LineInv'
  <2> DEFINE L == Len(waiters)
             from(j) == IF j < k THEN j ELSE j + 1
  <2>1. /\ waiters' \in Seq(EveryTask) /\ Len(waiters') = L - 1
        /\ \A j \in 1..(L - 1) : waiters'[j] = IF j < k THEN waiters[j] ELSE waiters[j + 1]
    BY <1>0, <1>2, RemovedPlace
  <2>2. /\ \A j \in 1..(L - 1) : from(j) \in 1..L /\ from(j) # k
        /\ \A i, j \in 1..(L - 1) : from(i) = from(j) => i = j
    BY <1>0
  <2>3. \A j \in 1..(L - 1) : waiters'[j] = waiters[from(j)]
    BY <2>1
  <2>4. ASSUME NEW i \in 1..L, i # k PROVE \E j \in 1..(L - 1) : from(j) = i
    <3>1. CASE i < k
      <4>1. i \in 1..(L - 1) /\ from(i) = i
        BY <1>0, <3>1
      <4>2. QED
        BY <4>1
    <3>2. CASE i > k
      <4>1. i - 1 \in 1..(L - 1) /\ from(i - 1) = i
        BY <1>0, <3>2
      <4>2. QED
        BY <4>1
    <3>3. QED
      BY <1>0, <2>4, <3>1, <3>2
  <2> HIDE DEF from, L
  <2>5. \A i \in 1..L : waiters[i] \in EveryTask /\ (i # k => waiters[i] # t)
    BY <1>0, <1>2 DEF LineInv, L
  <2>6. holder' \in EveryTask /\ holder' # NoHolder /\ holder' # t
    BY <1>0, <1>2 DEF LineInv
  <2>7. Queued(holder)' \/ ClosesLocked(holder)'
    BY <1>0, <2>6 DEF LineInv, OnlyMoves, Queued, ClosesLocked, Disconnecting
  <2>8. (\A u \in EveryTask : Queued(u) => holder = u \/ InLine(u))'
    <3> SUFFICES ASSUME NEW u \in EveryTask, Queued(u)', holder # u PROVE InLine(u)'
      BY <1>0
    <3>1. u # t /\ Queued(u)
      BY DEF OnlyMoves
    <3>2. PICK i \in 1..L : waiters[i] = u
      BY <3>1 DEF LineInv, InLine, L
    <3>3. i # k
      BY <1>2, <3>1, <3>2
    <3>4. PICK j \in 1..(L - 1) : from(j) = i
      BY <2>4, <3>3
    <3>5. j \in 1..Len(waiters') /\ waiters'[j] = u
      BY <2>1, <2>3, <3>2, <3>4
    <3>6. QED
      BY <3>5 DEF InLine
  <2>9. (\A i \in 1..Len(waiters) : Queued(waiters[i]) /\ waiters[i] # holder)'
    <3> SUFFICES ASSUME NEW j \in 1..(L - 1)
                 PROVE  Queued(waiters[j])' /\ waiters'[j] # holder'
      BY <2>1
    <3>1. waiters'[j] = waiters[from(j)] /\ from(j) \in 1..L /\ from(j) # k
      BY <2>2, <2>3
    <3>2. /\ Queued(waiters[from(j)]) /\ waiters[from(j)] # holder
          /\ waiters[from(j)] \in EveryTask \ {t}
      BY <2>5, <3>1 DEF LineInv, L
    <3>3. QED
      BY <1>0, <3>1, <3>2 DEF OnlyMoves, Queued
  <2>10. (\A i, j \in 1..Len(waiters) : waiters[i] = waiters[j] => i = j)'
    <3> SUFFICES ASSUME NEW i \in 1..(L - 1), NEW j \in 1..(L - 1), waiters'[i] = waiters'[j]
                 PROVE  i = j
      BY <2>1
    <3>1. from(i) \in 1..L /\ from(j) \in 1..L /\ waiters[from(i)] = waiters[from(j)]
      BY <2>2, <2>3
    <3>2. from(i) = from(j)
      BY <3>1 DEF LineInv, L
    <3>3. QED
      BY <2>2, <3>2
  <2>11. QED
    BY <2>1, <2>6, <2>7, <2>8, <2>9, <2>10 DEF LineInv
<1>3. QED
  BY <1>1, <1>2 DEF Leave

\* The steps that leave the lock alone.
LEMMA LineQuiet ==
  ASSUME RoutesInv, LineInv, NEW t \in Clients,
         \/ \E n \in Nodes : BeginConnect(t, n) \/ BeginSend(t, n) \/ DisconnectNode(t, n)
         \/ Unreachable(t) \/ EstablishFails(t) \/ TryAgain(t)
         \/ SendDone(t) \/ SendAgain(t) \/ NodeDisconnected(t)
  PROVE  LineInv'
<1> USE TasksApart
<1>0. /\ Shaped /\ t \in EveryTask
      /\ holder # NoHolder => Queued(holder) \/ ClosesLocked(holder)
  BY DEF RoutesInv, LineInv
<1>1. ASSUME NEW p \in Places, at[t] \notin {"locking", "relocking", "dropping"},
             p \notin {"locking", "relocking", "dropping"}, ~ClosesLocked(t),
             at' = [at EXCEPT ![t] = p], \A u \in Clients \ {t} : doing'[u] = doing[u],
             UNCHANGED lockVars
      PROVE  LineInv'
  <2>1. OnlyMoves(t) /\ ~Queued(t)' /\ ~Queued(t) /\ holder # t
    BY <1>0, <1>1, MoveIsOnly DEF Queued
  <2>2. QED
    BY <1>1, <2>1, LineStill
<1>2. \A d \in Doings : doing' = doing \/ doing' = [doing EXCEPT ![t] = d]
             => \A u \in Clients \ {t} : doing'[u] = doing[u]
  BY <1>0 DEF Shaped, Doings
<1>3. at[t] \in {"idle", "establishing", "backoff", "sending", "resting"} => ~ClosesLocked(t)
  BY DEF ClosesLocked
<1>4. ASSUME NEW n \in Nodes, at[t] \in {"idle", "resting"}, AttemptSend(t, n)
      PROVE  LineInv'
  <2>1. \/ at' = [at EXCEPT ![t] = "sending"]
        \/ at' = [at EXCEPT ![t] = "establishing"]
    BY <1>4 DEF AttemptSend, Go
  <2>2. UNCHANGED lockVars /\ doing' = [doing EXCEPT ![t] = "send"]
    BY <1>4 DEF AttemptSend
  <2>3. QED
    BY <1>1, <1>2, <1>3, <1>4, <2>1, <2>2 DEF Places, Doings
<1>5. ASSUME Return(t), UNCHANGED lockVars, ~ClosesLocked(t),
             at[t] \notin {"locking", "relocking", "dropping"}
      PROVE  LineInv'
  BY <1>1, <1>2, <1>5 DEF Return, Places, Doings
<1>6. CASE \E n \in Nodes : BeginConnect(t, n)
  BY <1>1, <1>2, <1>3, <1>6 DEF BeginConnect, Stands, Go, Places, Doings
<1>7. CASE \E n \in Nodes : BeginSend(t, n)
  BY <1>4, <1>7 DEF BeginSend, Stands
<1>8. CASE \E n \in Nodes : DisconnectNode(t, n)
  BY <1>1, <1>2, <1>3, <1>8 DEF DisconnectNode, Stands, Go, Places, Doings
<1>9. CASE Unreachable(t) \/ SendDone(t)
  BY <1>3, <1>5, <1>9 DEF Unreachable, SendDone, Stands
<1>10. CASE EstablishFails(t)
  BY <1>1, <1>2, <1>3, <1>10 DEF EstablishFails, Stands, Go, Places, Doings
<1>11. CASE TryAgain(t)
  <2>1. at[t] = "backoff" /\ UNCHANGED lockVars
    BY <1>11 DEF TryAgain, Stands
  <2>2. CASE Go(t, "establishing") /\ UNCHANGED callVars
    BY <1>1, <1>2, <1>3, <2>1, <2>2 DEF Go, callVars, Places, Doings
  <2>3. QED
    BY <1>3, <1>5, <1>11, <2>1, <2>2 DEF TryAgain
<1>12. CASE SendAgain(t)
  <2>1. node[t] \in Nodes /\ at[t] = "resting"
    BY <1>0, <1>12 DEF SendAgain, Stands, Shaped
  <2>2. QED
    BY <1>3, <1>4, <1>5, <1>12, <2>1 DEF SendAgain
<1>13. CASE NodeDisconnected(t)
  BY <1>5, <1>13 DEF NodeDisconnected, Stands, ClosesLocked, Disconnecting
<1>14. QED
  BY <1>6, <1>7, <1>8, <1>9, <1>10, <1>11, <1>12, <1>13

\* connect() puts its route into the table, or finds an old one to close.
LEMMA LineInstalled ==
  ASSUME RoutesInv, LineInv, NEW t \in Clients, NEW c \in Links, holder \in {t, NoHolder},
         Installed(t, c)
  PROVE  LineInv'
<1> USE TasksApart
<1>0. Shaped /\ t \in EveryTask
  BY DEF RoutesInv
<1>1. CASE doing[t] = "connect"
  <2>1. at' = [at EXCEPT ![t] = "idle"] /\ Release /\ doing' = [doing EXCEPT ![t] = "none"]
    BY <1>1 DEF Installed, Return
  <2>2. OnlyMoves(t) /\ ~Queued(t)'
    BY <1>0, <2>1, MoveIsOnly DEF Queued, Shaped
  <2>3. QED
    BY <2>1, <2>2, LineReleased
<1>2. CASE doing[t] # "connect"
  <2>1. UNCHANGED doing
    BY <1>2 DEF Installed
  <2>2. CASE waiters = <<>>
    <3>1. at' = [at EXCEPT ![t] = "sending"] /\ Release
      BY <1>2, <2>2 DEF Installed, Go
    <3>2. OnlyMoves(t) /\ at'[t] = "sending"
      BY <1>0, <2>1, <3>1, MoveIsOnly
    <3>3. ~Queued(t)'
      BY <3>2 DEF Queued
    <3>4. QED
      BY <3>1, <3>2, <3>3, LineReleased
  <2>3. CASE waiters # <<>>
    <3>1. /\ at' = [at EXCEPT ![t] = "relocking"] /\ holder' = Head(waiters)
          /\ waiters' = Append(Tail(waiters), t)
      BY <1>2, <2>3 DEF Installed, Go
    <3>2. OnlyMoves(t) /\ at'[t] = "relocking"
      BY <1>0, <2>1, <3>1, MoveIsOnly
    <3>3. Queued(t)'
      BY <3>2 DEF Queued
    <3>4. QED
      BY <2>3, <3>1, <3>2, <3>3, LineRejoined
  <2>4. QED
    BY <2>2, <2>3
<1>3. QED
  BY <1>1, <1>2

LEMMA LineInstall ==
  ASSUME RoutesInv, LineInv, NEW t \in Clients, NEW c \in Links, holder \in {t, NoHolder},
         doing[t] # "disconnect", Install(t, c)
  PROVE  LineInv'
<1> USE TasksApart
<1>1. CASE table[node[t]] = NoRoute
  BY <1>1, LineInstalled DEF Install
<1>2. CASE table[node[t]] # NoRoute
  <2>1. /\ at' = [at EXCEPT ![t] = "closing"] /\ holder' = t /\ UNCHANGED <<waiters, doing>>
    BY <1>2 DEF Install, Go
  <2>2. OnlyMoves(t) /\ ~Queued(t)' /\ ClosesLocked(t)'
    BY <2>1, MoveIsOnly DEF RoutesInv, Queued, ClosesLocked, Disconnecting
  <2>3. QED
    BY <2>1, <2>2, LineTaken
<1>3. QED
  BY <1>1, <1>2

\* The steps of a call that take the lock, wait for it or release it.
LEMMA LineCall ==
  ASSUME RoutesInv, LineInv, NEW t \in Clients,
         \/ Establish(t) \/ TakeTurn(t) \/ OldClosed(t)
         \/ Reinstall(t) \/ SendFails(t) \/ DropTurn(t)
  PROVE  LineInv'
<1> USE TasksApart DEF Stands
<1>0. /\ Shaped /\ t \in EveryTask
      /\ holder # NoHolder => Queued(holder) \/ ClosesLocked(holder)
  BY DEF RoutesInv, LineInv
<1>1. ASSUME Queue(t, "locking") \/ Queue(t, "dropping"), UNCHANGED doing,
             at[t] \in {"establishing", "sending"}
      PROVE  LineInv'
  <2>1. /\ holder # NoHolder /\ waiters' = Append(waiters, t) /\ holder' = holder
        /\ \/ at' = [at EXCEPT ![t] = "locking"]
           \/ at' = [at EXCEPT ![t] = "dropping"]
    BY <1>1 DEF Queue
  <2>2. OnlyMoves(t) /\ Queued(t)' /\ ~Queued(t) /\ holder # t
    BY <1>0, <1>1, <2>1, MoveIsOnly DEF Queued, ClosesLocked
  <2>3. QED
    BY <2>1, <2>2, LineJoined
<1>2. ASSUME Drop(t) \/ Reinstall(t), holder \in {t, NoHolder}
      PROVE  LineInv'
  <2>1. /\ Release /\ UNCHANGED doing
        /\ \/ at' = [at EXCEPT ![t] = "resting"]
           \/ at' = [at EXCEPT ![t] = "sending"]
    BY <1>2 DEF Drop, Reinstall, Go, callVars
  <2>2. OnlyMoves(t) /\ ~Queued(t)'
    BY <1>0, <2>1, MoveIsOnly DEF Queued
  <2>3. QED
    BY <1>2, <2>1, <2>2, LineReleased
<1>3. CASE Establish(t)
  <2>1. /\ at[t] = "establishing" /\ made + 1 \in Links /\ doing[t] # "disconnect"
    BY <1>3, RoutesBounds DEF Establish, RoutesInv, Shaped, NothingMine, Links
  <2>2. QED
    BY <1>1, <1>3, <2>1, LineInstall DEF Establish
<1>4. CASE TakeTurn(t)
  <2>1. mine[t] \in Links /\ doing[t] # "disconnect" /\ holder = t /\ Install(t, mine[t])
    BY <1>4 DEF TakeTurn, RoutesInv, AllMade, Holds, Made, NothingMine
  <2>2. QED
    BY <2>1, LineInstall
<1>5. CASE OldClosed(t)
  <2>1. mine[t] \in Links /\ holder = t /\ Installed(t, mine[t])
    BY <1>5 DEF OldClosed, RoutesInv, AllMade, Holds, Made, LockHeld, ClosesLocked, Disconnecting
  <2>2. QED
    BY <2>1, LineInstalled
<1>6. CASE Reinstall(t)
  BY <1>2, <1>6 DEF Reinstall
<1>7. CASE SendFails(t)
  BY <1>1, <1>2, <1>7 DEF SendFails, callVars
<1>8. CASE DropTurn(t)
  BY <1>2, <1>8 DEF DropTurn
<1>9. QED
  BY <1>3, <1>4, <1>5, <1>6, <1>7, <1>8

\* The clean-up and shutdown().
LEMMA LineService ==
  ASSUME RoutesInv, LineInv, CleanUp \/ CleanerStep \/ CancelCleaner \/ StopperStep
  PROVE  LineInv'
<1> USE TasksApart DEF Stands
<1>0. /\ Shaped
      /\ holder # NoHolder => Queued(holder) \/ ClosesLocked(holder)
  BY DEF RoutesInv, LineInv
<1>1. UNCHANGED doing
  BY DEF CleanUp, CleanerStep, CleanerTurn, StaleClosed, CancelCleaner, StopperStep, Shutdown,
     StopperTurn, RouteShut, callVars
<1>2. ASSUME NEW t \in {Cleaner, Stopper}, at[t] \in {"idle", "cancelling"}, Queue(t, "locking")
      PROVE  LineInv'
  <2>1. /\ holder # NoHolder /\ waiters' = Append(waiters, t) /\ holder' = holder
        /\ at' = [at EXCEPT ![t] = "locking"]
    BY <1>2 DEF Queue
  <2>2. OnlyMoves(t) /\ Queued(t)' /\ ~Queued(t) /\ holder # t
    BY <1>0, <1>1, <1>2, <2>1, MoveIsOnly DEF Queued, ClosesLocked
  <2>3. QED
    BY <2>1, <2>2, LineJoined
<1>3. ASSUME NEW t \in {Cleaner, Stopper}, holder \in {t, NoHolder}, Release,
             NEW p \in {"idle", "over"}, at' = [at EXCEPT ![t] = p]
      PROVE  LineInv'
  <2>1. OnlyMoves(t) /\ ~Queued(t)'
    BY <1>0, <1>1, <1>3, MoveIsOnly DEF Queued
  <2>2. QED
    BY <1>3, <2>1, LineReleased
<1>4. ASSUME NEW t \in {Cleaner, Stopper}, holder \in {t, NoHolder}, holder' = t,
             at' = [at EXCEPT ![t] = "closing"], UNCHANGED waiters
      PROVE  LineInv'
  <2>1. OnlyMoves(t) /\ at'[t] = "closing"
    BY <1>0, <1>1, <1>4, MoveIsOnly
  <2>2. ~Queued(t)' /\ ClosesLocked(t)'
    BY <2>1 DEF Queued, ClosesLocked, Disconnecting
  <2>3. QED
    BY <1>4, <2>1, <2>2, LineTaken
<1>5. ASSUME NEW s, Sweep(s), holder \in {Cleaner, NoHolder}
      PROVE  LineInv'
  BY <1>3, <1>4, <1>5 DEF Sweep, Go
<1>6. ASSUME NEW s, CloseNext(s), holder \in {Stopper, NoHolder}
      PROVE  LineInv'
  <2>1. CASE s = {}
    BY <1>3, <1>6, <2>1 DEF CloseNext, Go
  <2>2. CASE s # {}
    BY <1>4, <1>6, <2>2 DEF CloseNext, Go
  <2>3. QED
    BY <2>1, <2>2
<1>7. at[Cleaner] = "closing" => holder = Cleaner
  BY DEF RoutesInv, LockHeld, ClosesLocked, Disconnecting
<1>8. at[Stopper] = "closing" => holder = Stopper
  BY DEF RoutesInv, LockHeld, ClosesLocked, Disconnecting
<1>9. CASE CleanUp \/ CleanerTurn
  BY <1>2, <1>5, <1>9 DEF CleanUp, CleanerTurn
<1>10. CASE StaleClosed
  BY <1>3, <1>5, <1>7, <1>10 DEF StaleClosed, Go
<1>11. CASE Shutdown \/ StopperTurn \/ RouteShut
  BY <1>2, <1>6, <1>8, <1>11 DEF Shutdown, StopperTurn, RouteShut
<1>12. CASE CancelCleaner
  <2>1. /\ at[Stopper] = "idle"
        /\ at' = [at EXCEPT ![Stopper] = "cancelling", ![Cleaner] = "over"]
    BY <1>12 DEF CancelCleaner
  <2>2. OnlyMoves(Cleaner) /\ ~Queued(Cleaner)'
    BY <1>0, <1>1, <2>1 DEF Shaped, OnlyMoves, Queued, ClosesLocked, Disconnecting
  <2>3. CASE holder = Cleaner
    BY <1>12, <2>2, <2>3, LineReleased DEF CancelCleaner
  <2>4. CASE holder # Cleaner
    BY <1>12, <2>2, <2>4, LineLeft DEF CancelCleaner
  <2>5. QED
    BY <2>3, <2>4
<1>13. QED
  BY <1>9, <1>10, <1>11, <1>12 DEF CleanerStep, StopperStep

LEMMA LineStep == RoutesInv /\ LineInv /\ [RoutesNext]_routesVars => LineInv'
<1> SUFFICES ASSUME RoutesInv, LineInv, [RoutesNext]_routesVars PROVE LineInv'
  OBVIOUS
<1>1. ASSUME NEW t \in Clients, Step(t) PROVE LineInv'
  BY <1>1, LineQuiet, LineCall DEF Step
<1>2. ASSUME NEW t \in Clients, NEW n \in Nodes,
             BeginConnect(t, n) \/ BeginSend(t, n) \/ DisconnectNode(t, n)
      PROVE  LineInv'
  BY <1>2, LineQuiet
<1>3. CASE CleanUp \/ CleanerStep \/ CancelCleaner \/ StopperStep
  BY <1>3, LineService
<1>4. CASE UNCHANGED <<holder, waiters, at, doing>>
  BY <1>4 DEF LineInv, Queued, ClosesLocked, Disconnecting, InLine
<1>5. CASE (\E c \in Links : PeerFails(c)) \/ UNCHANGED routesVars
  BY <1>4, <1>5 DEF PeerFails, lockVars, callVars, routesVars
<1>6. QED
  BY <1>1, <1>2, <1>3, <1>5 DEF RoutesNext

LEMMA LineInit == RoutesInit => LineInv
BY TasksApart DEF RoutesInit, LineInv, Queued

\* The lock is never lost: a task that waits for it stands in the line or has
\* been handed it, nobody waits for a free lock, and whoever holds it has a step
\* to take that releases it, however calls, the clean-up, its cancellation and
\* shutdown() interleave.
LockServed ==
  /\ holder = NoHolder => waiters = <<>>
  /\ holder # NoHolder => Queued(holder) \/ ClosesLocked(holder)
  /\ \A t \in EveryTask : Queued(t) => holder = t \/ InLine(t)

\* So it is for any tasks, nodes and connections.
THEOREM LockIsServed == RoutesSpec => []LockServed
<1>1. LineInv => LockServed
  BY DEF LineInv, LockServed
<1>2. QED
  BY <1>1, RoutesInitInv, RoutesStep, LineInit, LineStep, PTL DEF RoutesSpec

(***************************************************************************)
(* The attempts, and the types of every variable.                          *)
(***************************************************************************)

\* A task in no call has made no attempt, and a call that still tries has an
\* attempt left.
CountInv ==
  /\ tries \in [Clients -> 0..MaxTries]
  /\ sends \in [Clients -> 0..MaxSends]
  /\ dropped \subseteq Links
  /\ \A t \in Clients : /\ at[t] = "idle" => tries[t] = 0 /\ sends[t] = 0
                        /\ at[t] = "establishing" => tries[t] < MaxTries

LEMMA ZeroCounts == 0 \in 0..MaxTries /\ 0 < MaxTries /\ 0 \in 0..MaxSends
BY RoutesBounds

\* A client, or a service, goes where no attempt is counted.
LEMMA CountMove ==
  ASSUME CountInv, Shaped, NEW t \in EveryTask, NEW p,
         t \in Clients => p \notin {"idle", "establishing"},
         at' = [at EXCEPT ![t] = p], UNCHANGED <<tries, sends>>, dropped' \subseteq Links
  PROVE  CountInv'
<1>1. \A u \in Clients : at'[u] \in {"idle", "establishing"} => at'[u] = at[u]
  BY TasksApart DEF Shaped
<1>2. QED
  BY <1>1 DEF CountInv

LEMMA CountReturn ==
  ASSUME CountInv, Shaped, NEW t \in Clients, Return(t), UNCHANGED dropped
  PROVE  CountInv'
<1> USE TasksApart
<1>1. tries' = [tries EXCEPT ![t] = 0] /\ sends' = [sends EXCEPT ![t] = 0]
      /\ at' = [at EXCEPT ![t] = "idle"]
  BY DEF Return
<1>2. tries' \in [Clients -> 0..MaxTries] /\ sends' \in [Clients -> 0..MaxSends]
  BY <1>1, ZeroCounts DEF CountInv
<1>3. ASSUME NEW u \in Clients
      PROVE  /\ at'[u] = "idle" => tries'[u] = 0 /\ sends'[u] = 0
             /\ at'[u] = "establishing" => tries'[u] < MaxTries
  <2>1. CASE u = t
    BY <1>1, <2>1 DEF CountInv, Shaped
  <2>2. CASE u # t
    BY <1>1, <2>2 DEF CountInv, Shaped
  <2>3. QED
    BY <2>1, <2>2
<1>4. QED
  BY <1>2, <1>3 DEF CountInv

LEMMA CountAttempt ==
  ASSUME CountInv, Shaped, NEW t \in Clients, NEW n \in Nodes, sends[t] < MaxSends,
         AttemptSend(t, n)
  PROVE  CountInv'
<1> USE TasksApart
<1>1. /\ sends' = [sends EXCEPT ![t] = sends[t] + 1]
      /\ tries' = [tries EXCEPT ![t] = 0]
      /\ \/ at' = [at EXCEPT ![t] = "sending"]
         \/ at' = [at EXCEPT ![t] = "establishing"]
      /\ dropped' = dropped
  BY DEF AttemptSend, Go
<1>2. sends[t] + 1 \in 0..MaxSends
  BY RoutesBounds DEF CountInv
<1>3. tries' \in [Clients -> 0..MaxTries] /\ sends' \in [Clients -> 0..MaxSends]
  BY <1>1, <1>2, ZeroCounts DEF CountInv
<1>4. ASSUME NEW u \in Clients
      PROVE  /\ at'[u] = "idle" => tries'[u] = 0 /\ sends'[u] = 0
             /\ at'[u] = "establishing" => tries'[u] < MaxTries
  <2>1. CASE u = t
    <3>1. at'[t] # "idle" /\ tries'[t] = 0
      BY <1>1 DEF CountInv, Shaped
    <3>2. QED
      BY <2>1, <3>1, ZeroCounts
  <2>2. CASE u # t
    BY <1>1, <2>2 DEF CountInv, Shaped
  <2>3. QED
    BY <2>1, <2>2
<1>5. QED
  BY <1>1, <1>3, <1>4 DEF CountInv

LEMMA CountClient ==
  ASSUME RoutesInv, CountInv, NEW t \in Clients,
         \/ \E n \in Nodes : BeginConnect(t, n) \/ BeginSend(t, n) \/ DisconnectNode(t, n)
         \/ Step(t)
  PROVE  CountInv'
<1> USE TasksApart DEF Stands
<1>0. Shaped /\ dropped \subseteq Links
  BY DEF RoutesInv, CountInv
<1>1. ASSUME NEW p, p \notin {"idle", "establishing"}, Go(t, p), UNCHANGED <<tries, sends>>,
             dropped' \subseteq Links
      PROVE  CountInv'
  BY <1>0, <1>1, CountMove DEF Go
<1>2. ASSUME Return(t), UNCHANGED dropped PROVE CountInv'
  BY <1>0, <1>2, CountReturn
<1>3. ASSUME NEW k \in 0..MaxTries, tries' = [tries EXCEPT ![t] = k], UNCHANGED <<sends, dropped>>,
             NEW p \in {"establishing", "backoff"}, Go(t, p), p = "establishing" => k < MaxTries
      PROVE  CountInv'
  <2>1. tries' \in [Clients -> 0..MaxTries] /\ at' = [at EXCEPT ![t] = p]
    BY <1>3 DEF CountInv, Go
  <2>2. ASSUME NEW u \in Clients
        PROVE  /\ at'[u] = "idle" => tries'[u] = 0 /\ sends'[u] = 0
               /\ at'[u] = "establishing" => tries'[u] < MaxTries
    <3>1. CASE u = t
      BY <1>0, <1>3, <2>1, <3>1 DEF CountInv, Shaped
    <3>2. CASE u # t
      BY <1>0, <1>3, <2>1, <3>2 DEF CountInv, Shaped
    <3>3. QED
      BY <3>1, <3>2
  <2>3. QED
    BY <1>0, <1>3, <2>1, <2>2 DEF CountInv
<1>4. tries[t] \in 0..MaxTries /\ tries = [tries EXCEPT ![t] = tries[t]]
  BY DEF CountInv
<1>5. ASSUME NEW c \in Links, Installed(t, c), UNCHANGED dropped
      PROVE  CountInv'
  <2>1. CASE doing[t] = "connect"
    BY <1>2, <1>5, <2>1 DEF Installed
  <2>2. CASE doing[t] # "connect"
    <3>1. UNCHANGED <<tries, sends>> /\ (Go(t, "sending") \/ Go(t, "relocking"))
      BY <2>2, <1>5 DEF Installed
    <3>2. QED
      BY <1>0, <1>1, <1>5, <3>1
  <2>3. QED
    BY <2>1, <2>2
<1>6. ASSUME NEW c \in Links, Install(t, c), UNCHANGED dropped
      PROVE  CountInv'
  <2>1. CASE table[node[t]] = NoRoute
    BY <1>5, <1>6, <2>1 DEF Install
  <2>2. CASE table[node[t]] # NoRoute
    <3>1. UNCHANGED <<tries, sends>> /\ Go(t, "closing")
      BY <1>6, <2>2 DEF Install
    <3>2. QED
      BY <1>0, <1>1, <1>6, <3>1
  <2>3. QED
    BY <2>1, <2>2
<1>7. Holds(t) => mine[t] \in Links
  BY DEF RoutesInv, AllMade, Made
<1>8. CASE \E n \in Nodes : BeginConnect(t, n)
  <2>1. /\ UNCHANGED <<tries, sends, dropped>> /\ Go(t, "establishing") /\ tries[t] = 0
    BY <1>8 DEF BeginConnect, CountInv
  <2>2. tries' = [tries EXCEPT ![t] = 0]
    BY <1>4, <2>1
  <2>3. QED
    BY <1>3, <2>1, <2>2, ZeroCounts
<1>9. CASE \E n \in Nodes : BeginSend(t, n)
  <2>1. sends[t] = 0 /\ 0 < MaxSends
    BY <1>9, RoutesBounds DEF BeginSend, CountInv
  <2>2. QED
    BY <1>0, <1>9, <2>1, CountAttempt DEF BeginSend
<1>10. CASE \E n \in Nodes : DisconnectNode(t, n)
  BY <1>0, <1>1, <1>10 DEF DisconnectNode
<1>11. CASE Unreachable(t) \/ SendDone(t) \/ NodeDisconnected(t)
  BY <1>2, <1>11 DEF Unreachable, SendDone, NodeDisconnected
<1>12. CASE EstablishFails(t)
  <2>1. /\ UNCHANGED <<sends, dropped>> /\ Go(t, "backoff")
        /\ tries' = [tries EXCEPT ![t] = tries[t] + 1] /\ tries[t] < MaxTries
    BY <1>12 DEF EstablishFails, CountInv
  <2>2. tries[t] + 1 \in 0..MaxTries
    BY <1>4, <2>1, RoutesBounds
  <2>3. QED
    BY <1>3, <2>1, <2>2
<1>13. CASE TryAgain(t)
  <2>1. CASE tries[t] < MaxTries
    <3>1. UNCHANGED <<tries, sends, dropped>> /\ Go(t, "establishing")
      BY <1>13, <2>1 DEF TryAgain, callVars
    <3>2. tries' = [tries EXCEPT ![t] = tries[t]]
      BY <1>4, <3>1
    <3>3. QED
      BY <1>3, <1>4, <2>1, <3>1, <3>2
  <2>2. CASE ~(tries[t] < MaxTries)
    BY <1>2, <1>13, <2>2 DEF TryAgain
  <2>3. QED
    BY <2>1, <2>2
<1>14. CASE Establish(t)
  <2>1. made + 1 \in Links /\ UNCHANGED dropped
    BY <1>14, RoutesBounds DEF Establish, RoutesInv, Shaped, Links
  <2>2. CASE Install(t, made + 1)
    BY <1>6, <2>1, <2>2
  <2>3. CASE Queue(t, "locking") /\ UNCHANGED <<tries, sends>>
    BY <1>0, <1>1, <2>1, <2>3 DEF Queue, Go
  <2>4. QED
    BY <1>14, <2>2, <2>3 DEF Establish
<1>15. CASE TakeTurn(t)
  BY <1>6, <1>7, <1>15 DEF TakeTurn, Holds
<1>16. CASE OldClosed(t)
  BY <1>5, <1>7, <1>16 DEF OldClosed, Holds, ClosesLocked, Disconnecting
<1>17. CASE Reinstall(t)
  <2>1. UNCHANGED <<tries, sends>> /\ Go(t, "sending") /\ dropped' \subseteq Links
    BY <1>0, <1>17 DEF Reinstall, callVars
  <2>2. QED
    BY <1>1, <2>1
<1>18. ASSUME Drop(t), at[t] \in {"sending", "dropping"}
       PROVE  CountInv'
  <2>1. UNCHANGED <<tries, sends>> /\ Go(t, "resting") /\ dropped' \subseteq Links
    BY <1>0, <1>7, <1>18 DEF Drop, Holds
  <2>2. QED
    BY <1>1, <2>1
<1>19. CASE SendFails(t)
  <2>1. CASE Queue(t, "dropping") /\ UNCHANGED <<callVars, dropped>>
    BY <1>0, <1>1, <2>1 DEF Queue, Go, callVars
  <2>2. QED
    BY <1>18, <1>19, <2>1 DEF SendFails
<1>20. CASE DropTurn(t)
  BY <1>18, <1>20 DEF DropTurn
<1>21. CASE SendAgain(t)
  <2>1. node[t] \in Nodes
    BY <1>0 DEF Shaped
  <2>2. QED
    BY <1>0, <1>2, <1>21, <2>1, CountAttempt DEF SendAgain
<1>22. QED
  BY <1>8, <1>9, <1>10, <1>11, <1>12, <1>13, <1>14, <1>15, <1>16, <1>17, <1>19, <1>20, <1>21
  DEF Step

LEMMA CountService ==
  ASSUME RoutesInv, CountInv, CleanUp \/ CleanerStep \/ CancelCleaner \/ StopperStep
  PROVE  CountInv'
<1> USE TasksApart
<1>0. Shaped /\ dropped \subseteq Links /\ UNCHANGED <<tries, sends>>
  BY DEF RoutesInv, CountInv, CleanUp, CleanerStep, CleanerTurn, StaleClosed, CancelCleaner,
     StopperStep, Shutdown, StopperTurn, RouteShut, callVars
<1>1. ASSUME NEW t \in {Cleaner, Stopper}, NEW p, Go(t, p), UNCHANGED dropped
      PROVE  CountInv'
  BY <1>0, <1>1, CountMove DEF Go
<1>2. CASE CleanUp \/ CleanerTurn \/ StaleClosed
  BY <1>1, <1>2 DEF CleanUp, CleanerTurn, StaleClosed, Sweep, Queue, Go
<1>3. CASE StopperStep
  BY <1>1, <1>3 DEF StopperStep, Shutdown, StopperTurn, RouteShut, CloseNext, Queue, Go
<1>4. CASE CancelCleaner
  <2>1. \A u \in Clients : at'[u] = at[u]
    BY <1>0, <1>4 DEF CancelCleaner, Shaped
  <2>2. dropped' \subseteq Links
    BY <1>0, <1>4 DEF CancelCleaner, Shaped
  <2>3. QED
    BY <1>0, <2>1, <2>2 DEF CountInv
<1>5. QED
  BY <1>2, <1>3, <1>4 DEF CleanerStep

LEMMA CountStep == RoutesInv /\ CountInv /\ [RoutesNext]_routesVars => CountInv'
<1> SUFFICES ASSUME RoutesInv, CountInv, [RoutesNext]_routesVars PROVE CountInv'
  OBVIOUS
<1>1. CASE UNCHANGED <<tries, sends, dropped, at>>
  BY <1>1 DEF CountInv
<1>2. CASE (\E c \in Links : PeerFails(c)) \/ UNCHANGED routesVars
  BY <1>1, <1>2 DEF PeerFails, callVars, routesVars
<1>3. QED
  BY <1>2, CountClient, CountService DEF RoutesNext

LEMMA CountInit == RoutesInit => CountInv
BY ZeroCounts, TasksApart DEF RoutesInit, CountInv

\* Every variable of the routes keeps its type: no call makes more attempts than
\* it may, and only tasks of the manager stand in the line (manager.py:285-364).
THEOREM RoutesType == RoutesSpec => []RoutesTypeOK
<1>1. RoutesInv /\ LineInv /\ CountInv => RoutesTypeOK
  BY DEF RoutesInv, Shaped, Places, Doings, LineInv, CountInv, RoutesTypeOK
<1>2. QED
  BY <1>1, RoutesInitInv, RoutesStep, LineInit, LineStep, CountInit, CountStep, PTL
  DEF RoutesSpec

(***************************************************************************)
(* The two components side by side.                                        *)
(***************************************************************************)

\* A step of one component leaves the other alone, so that what is true of a
\* component by itself is true of it here.
LEMMA ConnectionsParts == ConnectionsSpec => BridgeSpec /\ RoutesSpec
<1>1. ConnectionsInit => BridgeInit /\ RoutesInit
  BY DEF ConnectionsInit
<1>2. [ConnectionsNext]_connectionsVars => [BridgeNext]_bridgeVars
  BY DEF ConnectionsNext, BridgeNext, Continue, connectionsVars, InBridge, InRoutes
<1>3. [ConnectionsNext]_connectionsVars => [RoutesNext]_routesVars
  BY DEF ConnectionsNext, RoutesNext, Step, CleanerStep, StopperStep, connectionsVars, InBridge,
     InRoutes
<1>4. QED
  BY <1>1, <1>2, <1>3, PTL DEF ConnectionsSpec, BridgeSpec, RoutesSpec

\* Every variable of the two components keeps its type.
THEOREM ConnectionsType == ConnectionsSpec => []ConnectionsTypeOK
<1>1. BridgeTypeOK /\ RoutesTypeOK => ConnectionsTypeOK
  BY DEF ConnectionsTypeOK
<1>2. QED
  BY <1>1, ConnectionsParts, BridgeType, RoutesType, PTL

\* What the run checks of the two components beside their types holds of every
\* behaviour of the two together: the bridge's is_connected is the truth, no
\* connection is forgotten, and connect() gives a live one.
THEOREM ConnectionsSafe == ConnectionsSpec => [](InStep /\ RouteOwned) /\ ConnectGivesLive
BY ConnectionsParts, ConnectedIsTrue, RoutesAreOwned, ConnectedIsLive, PTL
=============================================================================
