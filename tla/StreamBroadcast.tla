--------------------------- MODULE StreamBroadcast ---------------------------
(***************************************************************************)
(* src/streaming_bridge.py, class StreamingBridge: the registry of the     *)
(* streaming clients and the loop that sends them the captured frame.      *)
(*                                                                         *)
(* A handler registers its session under the client_id the client chose    *)
(* and removes that id when its websocket ends, whoever is registered      *)
(* under it by then.  The broadcast loop walks the registry and suspends   *)
(* in send_bytes() when a client reads slowly; if the registry has another *)
(* size when it goes on, the walk raises and the round is given up.        *)
(***************************************************************************)
EXTENDS Naturals, FiniteSets

CONSTANTS
  Sessions,   \* websockets, each connected at most once
  Ids,        \* client ids
  Id,         \* Id[s]: the client_id in the request of session s
  NoSession   \* nothing is registered under an id

ASSUME SessionsAssumption == NoSession \notin Sessions
ASSUME IdAssumption       == Id \in [Sessions -> Ids]
ASSUME FiniteAssumption   == IsFiniteSet(Ids)

VARIABLES
  running,   \* self._running
  clients,   \* self.clients
  frame,     \* has a frame been captured
  handler,        \* the handler of each session: "none", "loop" or "done"
  ws,        \* its websocket: "new", "open" or "gone"
  closing,   \* sessions stop() has still to close
  loop,      \* the broadcast loop: "pause", "round" or "drain"
  size,      \* size of the registry when the round began
  visited,   \* ids the round has passed
  broken,    \* disconnected: ids whose send raised in this round
  cur,       \* the session send_bytes() is suspended on
  got        \* sessions the frame of this round was sent to

handlers == <<handler, ws>>
round    == <<loop, size, visited, broken, cur, got>>
streamVars     == <<running, clients, frame, handlers, closing, round>>

Registered == {i \in Ids : clients[i] # NoSession}

StreamInit ==
  /\ running = TRUE /\ frame = FALSE
  /\ clients = [i \in Ids |-> NoSession]
  /\ handler = [s \in Sessions |-> "none"]
  /\ ws = [s \in Sessions |-> "new"]
  /\ closing = {}
  /\ loop = "pause" /\ size = 0 /\ visited = {} /\ broken = {}
  /\ cur = NoSession /\ got = {}

-----------------------------------------------------------------------------
(* The handlers *)

\* The websocket is accepted and registered; stop() leaves the site open.
Connect(s) ==
  /\ handler[s] = "none"
  /\ clients' = [clients EXCEPT ![Id[s]] = s]
  /\ handler' = [handler EXCEPT ![s] = "loop"]
  /\ ws' = [ws EXCEPT ![s] = "open"]
  /\ UNCHANGED <<running, frame, closing, round>>

\* The client leaves, or its connection dies.
PeerLeaves(s) ==
  /\ ws[s] = "open"
  /\ ws' = [ws EXCEPT ![s] = "gone"]
  /\ UNCHANGED <<running, clients, frame, handler, closing, round>>

\* Fault: the handler leaves its session registered.
HandlerForgets(s) ==
  /\ handler[s] = "loop" /\ ws[s] = "gone"
  /\ handler' = [handler EXCEPT ![s] = "done"]
  /\ UNCHANGED <<running, clients, frame, ws, closing, round>>

\* The loop over the messages ends; the id is deleted.  When it is not there
\* the deletion raises, and the handler ends all the same.
HandlerEnds(s) ==
  /\ handler[s] = "loop" /\ ws[s] = "gone"
  /\ clients' = [clients EXCEPT ![Id[s]] = NoSession]
  /\ handler' = [handler EXCEPT ![s] = "done"]
  /\ visited' = visited \ {Id[s]}
  /\ UNCHANGED <<running, frame, ws, closing, loop, size, broken, cur, got>>

-----------------------------------------------------------------------------
(* The broadcast loop *)

\* The capture thread has a frame.
Capture ==
  /\ ~frame
  /\ frame' = TRUE
  /\ UNCHANGED <<running, clients, handlers, closing, round>>

BeginRound ==
  /\ loop = "pause" /\ running /\ frame
  /\ loop' = "round"
  /\ size' = Cardinality(Registered)
  /\ got' = {}
  /\ UNCHANGED <<running, clients, frame, handlers, closing, visited, broken, cur>>

\* Fault: a send that suspends counts as a broken client.
VisitImpatient(i) ==
  /\ loop = "round" /\ Cardinality(Registered) = size
  /\ i \in Registered \ visited
  /\ visited' = visited \cup {i}
  /\ \/ got' = got \cup {clients[i]} /\ UNCHANGED broken
     \/ broken' = broken \cup {i} /\ UNCHANGED got
  /\ UNCHANGED <<running, clients, frame, handlers, closing, loop, size, cur>>

\* send_bytes() to the next client: it is done at once, waits for a client
\* that reads slowly, or finds the connection closed.
Visit(i) ==
  /\ loop = "round" /\ Cardinality(Registered) = size
  /\ i \in Registered \ visited
  /\ visited' = visited \cup {i}
  /\ \/ got' = got \cup {clients[i]} /\ UNCHANGED <<loop, cur, broken>>
     \/ loop' = "drain" /\ cur' = clients[i] /\ UNCHANGED <<got, broken>>
     \/ /\ ws[clients[i]] = "gone"
        /\ broken' = broken \cup {i}
        /\ UNCHANGED <<loop, cur, got>>
  /\ UNCHANGED <<running, clients, frame, handlers, closing, size>>

\* The suspended send ends: the client has read, or its connection died.
Drained ==
  /\ loop = "drain"
  /\ IF ws[cur] = "open"
       THEN got' = got \cup {cur} /\ UNCHANGED broken
       ELSE broken' = broken \cup {Id[cur]} /\ UNCHANGED got
  /\ loop' = "round" /\ cur' = NoSession
  /\ UNCHANGED <<running, clients, frame, handlers, closing, size, visited>>

\* Fault: the next round believes everybody was passed.
RoundOverKeepsVisited ==
  /\ loop' = "pause" /\ size' = 0 /\ broken' = {}
  /\ UNCHANGED <<running, frame, handlers, closing, visited, cur, got>>

RoundOver ==
  /\ loop' = "pause" /\ size' = 0 /\ visited' = {} /\ broken' = {}
  /\ UNCHANGED <<running, frame, handlers, closing, cur, got>>

\* Everybody was passed: the ids whose send raised are deleted.
RoundEnds ==
  /\ loop = "round" /\ Cardinality(Registered) = size
  /\ Registered \subseteq visited
  /\ clients' = [i \in Ids |-> IF i \in broken THEN NoSession ELSE clients[i]]
  /\ RoundOver

\* The registry changed size during the walk: the error is logged.
RoundAborted ==
  /\ loop = "round" /\ Cardinality(Registered) # size
  /\ RoundOver
  /\ UNCHANGED clients

Broadcast ==
  \/ BeginRound \/ (\E i \in Ids : Visit(i)) \/ Drained
  \/ RoundEnds \/ RoundAborted

-----------------------------------------------------------------------------
(* stop() *)

Stop ==
  /\ running
  /\ running' = FALSE
  /\ closing' = {clients[i] : i \in Registered}
  /\ UNCHANGED <<clients, frame, handlers, round>>

CloseOne(s) ==
  /\ s \in closing
  /\ closing' = closing \ {s}
  /\ ws' = [ws EXCEPT ![s] = "gone"]
  /\ UNCHANGED <<running, clients, frame, handler, round>>

Handler(s) == HandlerEnds(s) \/ CloseOne(s)

StreamNext ==
  \/ \E s \in Sessions : Connect(s) \/ PeerLeaves(s) \/ Handler(s)
  \/ Broadcast \/ Capture \/ Stop

StreamSpec == StreamInit /\ [][StreamNext]_streamVars

\* The capture thread gets a frame; a slow client reads or loses its
\* connection, so that every send ends; a dead websocket ends its handler.
StreamFairSpec ==
  /\ StreamSpec
  /\ WF_streamVars(Capture)
  /\ WF_streamVars(Broadcast)
  /\ \A s \in Sessions : WF_streamVars(HandlerEnds(s)) /\ WF_streamVars(CloseOne(s))

-----------------------------------------------------------------------------
(* Properties *)

StreamTypeOK ==
  /\ running \in BOOLEAN /\ frame \in BOOLEAN
  /\ clients \in [Ids -> Sessions \cup {NoSession}]
  /\ handler \in [Sessions -> {"none", "loop", "done"}]
  /\ ws \in [Sessions -> {"new", "open", "gone"}]
  /\ closing \subseteq Sessions
  /\ loop \in {"pause", "round", "drain"}
  /\ size \in Nat /\ visited \subseteq Ids /\ broken \subseteq Ids
  /\ cur \in Sessions \cup {NoSession} /\ got \subseteq Sessions

\* Whoever is registered still has a handler that will remove it, however
\* sessions under one id replace each other: no frame is ever sent to a
\* websocket whose handler has returned, and the registry does not leak.
NoGhost ==
  \A i \in Ids : clients[i] # NoSession => handler[clients[i]] = "loop"

\* A client nobody shares its id with stays registered as long as it is
\* connected: neither another handler's deletion nor the clean-up after a
\* round, which removes ids by name a while after their send raised, hits it.
KeptRegistered ==
  \A s \in Sessions :
    (/\ handler[s] = "loop" /\ ws[s] = "open"
     /\ \A u \in Sessions \ {s} : Id[u] = Id[s] => handler[u] = "none")
    => clients[Id[s]] = s

\* Joining, leaving and slow clients give up rounds and hold up the loop,
\* but a client that stays registered is sent a frame again and again.
FrameReaches ==
  \A s \in Sessions :
    (running /\ clients[Id[s]] = s) ~>
      (s \in got \/ clients[Id[s]] # s \/ ~running)

\* _broadcast_loop: "Broadcast frames to all connected clients."  Who is
\* connected is registered.
ConnectedRegistered ==
  \A s \in Sessions : handler[s] = "loop" /\ ws[s] = "open" => clients[Id[s]] = s
=============================================================================
