----------------------------- MODULE QMPBridge -----------------------------
(***************************************************************************)
(* gui/qmp_bridge.py, class QMPBridge: the desktop program's connection to *)
(* the monitor of a virtual machine.                                       *)
(*                                                                         *)
(* The GUI thread posts calls, and the tasks of one event loop run them.   *)
(* Every call first asks _get_client() for a client, and each call that    *)
(* finds none connects by itself, in a loop of its own: nothing keeps two  *)
(* of these loops apart, and they share self._client and the flags.  QEMU  *)
(* accepts many connections and serves the oldest.                         *)
(***************************************************************************)
EXTENDS Naturals

CONSTANTS
  Calls,        \* the calls that can be in flight at once
  Conns,        \* identities of QMPClient objects
  NoConn,       \* None
  MaxAttempts,  \* max_attempts: tries of one _get_client()
  MaxStart,     \* bound: times QEMU starts
  MaxMiss,      \* bound: deadlines QEMU misses while it serves the client
  MaxDisc       \* bound: disconnect() calls

ASSUME ConnsAssumption  == NoConn \notin Conns
ASSUME BoundsAssumption == MaxAttempts \in Nat \ {0} /\ MaxStart \in Nat
                           /\ MaxMiss \in Nat /\ MaxDisc \in Nat

VARIABLES
  client,     \* self._client
  connected,  \* self._connected
  ever,       \* self._ever_connected
  retry,      \* self._should_reconnect
  conn,       \* conn[c]: the socket of client c, and its own connected flag
  call,       \* call[t]: what t is, where it waits, the client it uses
  qemuUp,     \* QEMU runs
  starts, misses, discs,
  drops,      \* times QEMU died
  overlap     \* has one call begun to connect or disconnect during another's?

bridgeVars == <<client, connected, ever, retry, conn, call, qemuUp,
                starts, misses, discs, drops, overlap>>
world      == <<qemuUp, starts, misses, discs, drops>>

Idle == [op |-> "none", at |-> "idle", conn |-> NoConn, left |-> 0]
At(o, l, c, n) == [op |-> o, at |-> l, conn |-> c, left |-> n]
Call == {Idle} \cup
        [op : {"connect", "command", "disconnect"},
         at : {"opening", "shaking", "backoff", "sending", "posted", "closing"},
         conn : Conns \cup {NoConn}, left : 0..MaxAttempts]

\* A client: its socket, the open connections QEMU accepted before it,
\* QMPClient._connected, and whether a command was written on it while another
\* task was in the handshake.
Unused == [sock |-> "unused", ahead |-> {}, flag |-> FALSE, muddled |-> FALSE]
Conn == [sock : {"unused", "opening", "open", "dead", "closed"},
         ahead : SUBSET Conns, flag : BOOLEAN, muddled : BOOLEAN]

BridgeInit ==
  /\ client = NoConn /\ connected = FALSE /\ ever = FALSE /\ retry = TRUE
  /\ conn = [c \in Conns |-> Unused] /\ call = [t \in Calls |-> Idle]
  /\ qemuUp = FALSE
  /\ starts = 0 /\ misses = 0 /\ discs = 0 /\ drops = 0 /\ overlap = FALSE

Open(c)     == conn[c].sock = "open"
Serves(c)   == Open(c) /\ conn[c].ahead = {}
HasClient   == client # NoConn /\ conn[client].flag
Served      == HasClient /\ Serves(client)
HasSocket   == client # NoConn /\ conn[client].sock # "opening"
Reads(u, c) == call[u].conn = c /\ call[u].at \in {"shaking", "sending"}
Changes(u)  == call[u].at \notin {"idle", "sending"}

\* What a step makes of self._client, the calls and the sockets.  A client
\* that nothing refers to any more is collected, which closes its socket.
Become(cl, calls, conns) ==
  LET Live(c) == c = cl \/ \E t \in Calls : calls[t].conn = c
      opened  == {c \in Conns : Live(c) /\ conns[c].sock = "open"} IN
  /\ client' = cl /\ call' = calls
  /\ conn' = [c \in Conns |->
                IF Live(c) THEN [conns[c] EXCEPT !.ahead = @ \cap opened] ELSE Unused]

Goes(t, to) == Become(client, [call EXCEPT ![t] = to], conn)
Ends(t)     == Goes(t, Idle)

-----------------------------------------------------------------------------
(* _get_client() *)

\* One try: the new client is self._client before it is connected.
Attempt(t, o, n) ==
  \E c \in Conns :
    /\ c = CHOOSE u \in Conns : conn[u].sock = "unused"
    /\ conn[c].sock = "unused"
    /\ Become(c, [call EXCEPT ![t] = At(o, "opening", c, n)],
              [conn EXCEPT ![c].sock = "opening"])

\* The slow path: no client that says it is connected.
Begin(t, o) ==
  /\ ~HasClient
  /\ connected' = FALSE
  /\ overlap' = (overlap \/ \E u \in Calls \ {t} : Changes(u))
  /\ Attempt(t, o, MaxAttempts)
  /\ UNCHANGED <<ever, retry, world>>

OpenSucceeds(t) ==
  LET c == call[t].conn IN
  /\ call[t].at = "opening" /\ qemuUp
  /\ Become(client, [call EXCEPT ![t].at = "shaking"],
            [conn EXCEPT ![c].sock = "open", ![c].flag = TRUE,
                         ![c].ahead = {d \in Conns : Open(d)}])
  /\ UNCHANGED <<connected, ever, retry, overlap, world>>

\* A try failed: give up after a disconnect(), or wait and try again.
Failed(t) ==
  /\ connected' = FALSE
  /\ \/ retry /\ Goes(t, At(call[t].op, "backoff", NoConn, call[t].left))
     \/ ~retry /\ Become(NoConn, [call EXCEPT ![t] = Idle], conn)
  /\ UNCHANGED <<ever, retry, overlap>>

OpenFails(t) ==
  /\ call[t].at = "opening" /\ ~qemuUp
  /\ Failed(t) /\ UNCHANGED world

\* Fault: the tries are not counted off against max_attempts.
BackoffUnchecked(t) ==
  /\ call[t].at = "backoff"
  /\ Attempt(t, call[t].op, call[t].left - 1)
  /\ UNCHANGED <<connected, ever, retry, overlap, world>>

\* Fault: the loop is "while True".
BackoffForever(t) ==
  /\ call[t].at = "backoff"
  /\ Attempt(t, call[t].op, call[t].left)
  /\ UNCHANGED <<connected, ever, retry, overlap, world>>

BackoffEnds(t) ==
  /\ call[t].at = "backoff"
  /\ \/ /\ call[t].left > 1
        /\ Attempt(t, call[t].op, call[t].left - 1) /\ UNCHANGED connected
     \/ /\ call[t].left = 1
        /\ Become(NoConn, [call EXCEPT ![t] = Idle], conn)
        /\ connected' = FALSE
  /\ UNCHANGED <<ever, retry, overlap, world>>

\* client.send(): it needs a client that says it is connected and a stream
\* nobody else reads; the command is on the wire before the latter shows.
Send(t, c) ==
  LET readers == {u \in Calls \ {t} : Reads(u, c)} IN
  \/ /\ conn[c].flag /\ readers = {}
     /\ Goes(t, At("command", "sending", c, 0))
  \/ /\ conn[c].flag /\ readers # {}
     /\ Become(client, [call EXCEPT ![t] = Idle],
               [conn EXCEPT ![c].muddled = @ \/ \E u \in readers : call[u].at = "shaking"])
  \/ ~conn[c].flag /\ Ends(t)

\* The handshake is done.  The call goes on with self._client, whichever
\* client that is by now.
Shaken(t) ==
  /\ call[t].at = "shaking" /\ Serves(call[t].conn)
  /\ connected' = TRUE /\ ever' = TRUE /\ retry' = TRUE
  /\ IF call[t].op = "command" /\ client # NoConn THEN Send(t, client) ELSE Ends(t)
  /\ UNCHANGED <<overlap, world>>

\* An exception _get_client() does not expect: the stream ended, or QEMU
\* answered the muddled handshake with an error.  The client stays.
ShakeRaises(t) ==
  LET c == call[t].conn IN
  /\ call[t].at = "shaking"
  /\ conn[c].sock \in {"dead", "closed"} \/ (Serves(c) /\ conn[c].muddled)
  /\ connected' = (connected /\ call[t].op = "command")
  /\ Ends(t)
  /\ UNCHANGED <<ever, retry, overlap, world>>

\* A deadline passes: QEMU serves another client, or is too slow.
Misses(c) ==
  \/ Open(c) /\ ~Serves(c) /\ UNCHANGED misses
  \/ Serves(c) /\ misses < MaxMiss /\ misses' = misses + 1

\* The deadline, or a connection reset.
ShakeFails(t) ==
  LET c == call[t].conn IN
  /\ call[t].at = "shaking"
  /\ Misses(c) \/ (conn[c].sock = "dead" /\ UNCHANGED misses)
  /\ Failed(t)
  /\ UNCHANGED <<qemuUp, starts, discs, drops>>

-----------------------------------------------------------------------------
(* The calls *)

\* connect() with a client that says it is connected does nothing.
Connect(t) == call[t] = Idle /\ Begin(t, "connect")

\* get_status(), send_command(), system_reset() and the other commands.
Command(t) ==
  /\ call[t] = Idle
  /\ \/ /\ HasClient /\ Send(t, client)
        /\ UNCHANGED <<connected, ever, retry, overlap, world>>
     \/ Begin(t, "command")

SendEnds(t) ==
  LET c == call[t].conn IN
  /\ call[t].at = "sending"
  /\ \/ (Serves(c) \/ conn[c].sock \in {"dead", "closed"}) /\ UNCHANGED misses
     \/ Misses(c)
  /\ Ends(t)
  /\ UNCHANGED <<connected, ever, retry, overlap, qemuUp, starts, discs, drops>>

\* disconnect(), in the GUI thread.
Disconnect(t) ==
  /\ call[t] = Idle /\ discs < MaxDisc
  /\ discs' = discs + 1
  /\ retry' = FALSE
  /\ overlap' = (overlap \/ \E u \in Calls \ {t} : Changes(u))
  /\ Goes(t, At("disconnect", "posted", NoConn, 0))
  /\ UNCHANGED <<connected, ever, qemuUp, starts, misses, drops>>

\* _disconnect_impl(): a client that has no socket yet is only forgotten.
DisconnectRuns(t) ==
  /\ call[t].at = "posted"
  /\ \/ /\ ~HasSocket
        /\ Become(NoConn, [call EXCEPT ![t] = Idle], conn)
        /\ connected' = FALSE
     \/ /\ HasSocket
        /\ Become(client, [call EXCEPT ![t] = At("disconnect", "closing", client, 0)],
                  [conn EXCEPT ![client].sock = "closed"])
        /\ UNCHANGED connected
  /\ UNCHANGED <<ever, retry, overlap, world>>

\* Fault: wait_closed() raises, and nothing is reset.
ClosedRaises(t) ==
  /\ call[t].at = "closing"
  /\ Ends(t)
  /\ UNCHANGED <<connected, ever, retry, overlap, world>>

\* Fault: the flag is left alone.
ClosedStaysConnected(t) ==
  /\ call[t].at = "closing"
  /\ Become(NoConn, [call EXCEPT ![t] = Idle],
            [conn EXCEPT ![call[t].conn].flag = FALSE])
  /\ UNCHANGED <<connected, ever, retry, overlap, world>>

\* The socket has closed: self._client goes, even if it is another by now.
Closed(t) ==
  /\ call[t].at = "closing"
  /\ Become(NoConn, [call EXCEPT ![t] = Idle],
            [conn EXCEPT ![call[t].conn].flag = FALSE])
  /\ connected' = FALSE
  /\ UNCHANGED <<ever, retry, overlap, world>>

-----------------------------------------------------------------------------
(* QEMU *)

Start ==
  /\ ~qemuUp /\ starts < MaxStart
  /\ qemuUp' = TRUE /\ starts' = starts + 1
  /\ UNCHANGED <<client, connected, ever, retry, conn, call,
                 misses, discs, drops, overlap>>

Die ==
  /\ qemuUp
  /\ qemuUp' = FALSE /\ drops' = drops + 1
  /\ Become(client, call,
            [c \in Conns |-> IF Open(c) THEN [conn[c] EXCEPT !.sock = "dead"] ELSE conn[c]])
  /\ UNCHANGED <<connected, ever, retry, starts, misses, discs, overlap>>

Continue(t) ==
  \/ OpenSucceeds(t) \/ OpenFails(t) \/ BackoffEnds(t)
  \/ Shaken(t) \/ ShakeRaises(t) \/ ShakeFails(t)
  \/ SendEnds(t) \/ DisconnectRuns(t) \/ Closed(t)

BridgeNext ==
  \/ \E t \in Calls : Connect(t) \/ Command(t) \/ Disconnect(t) \/ Continue(t)
  \/ Start \/ Die

BridgeSpec == BridgeInit /\ [][BridgeNext]_bridgeVars

\* What the timers of the main window and of its panels post: a status query
\* while the bridge is connected, connect() once it has been and is not.
Timer ==
  \E t \in Calls : \/ connected /\ Command(t)
                   \/ ever /\ ~connected /\ Connect(t)

\* The event loop runs what can run, and the timers fire for ever.
BridgeFairSpec == BridgeSpec /\ WF_bridgeVars(Timer) /\ \A t \in Calls : WF_bridgeVars(Continue(t))

-----------------------------------------------------------------------------
BridgeTypeOK ==
  /\ client \in Conns \cup {NoConn}
  /\ connected \in BOOLEAN /\ ever \in BOOLEAN /\ retry \in BOOLEAN
  /\ conn \in [Conns -> Conn] /\ call \in [Calls -> Call]
  /\ qemuUp \in BOOLEAN
  /\ starts \in 0..MaxStart /\ misses \in 0..MaxMiss /\ discs \in 0..MaxDisc
  /\ drops \in Nat /\ overlap \in BOOLEAN

\* While no two calls connect or disconnect at once, is_connected is the
\* truth: there is a client, it would be handed out, and unless its QEMU has
\* died or a disconnect() is closing it, it is the one QEMU serves.
InStep ==
  ~overlap /\ connected =>
    HasClient /\ (Open(client) => Serves(client))

\* Every call ends, however the loops, the disconnects and QEMU interleave.
CallsEnd == \A t \in Calls : call[t] # Idle ~> call[t] = Idle

\* When connections are not made at once and QEMU does not die, the bridge
\* ends up with a client that QEMU serves, after any disconnect() and whatever
\* deadlines were missed.
Settles ==
  ([](~overlap /\ drops = 0) /\ <>ever) => <>[]Served

\* gui/qmp_bridge.py, class QMPBridge: when the QMP connection drops, the
\* bridge retries: while QEMU runs, a bridge that has been connected gets a
\* connection QEMU serves.
Reconnects == (ever /\ qemuUp) ~> (Served \/ ~qemuUp)
=============================================================================
