-------------------------- MODULE QMPBridgeProofs --------------------------
(***************************************************************************)
(* What the bridge's flags mean for any number of calls, clients and       *)
(* tries: while no two calls connect or disconnect at once, is_connected   *)
(* is the truth about self._client.                                        *)
(***************************************************************************)
EXTENDS QMPBridge, TLAPS

Trying(t) == call[t].at \in {"opening", "shaking", "backoff"}

\* One call at a time connects or disconnects.
OneAtATime ==
  ~overlap => \A t, u \in Calls : Changes(t) /\ Changes(u) => t = u

\* The call that connects does so with self._client, which says it is
\* connected as soon as its socket is open; the bridge does not say so yet.
OwnTry ==
  ~overlap => \A t \in Calls :
    /\ Trying(t) => ~connected
    /\ call[t].at \in {"opening", "shaking"} => client = call[t].conn
    /\ call[t].at = "shaking" => HasClient

\* Who waits for a socket has one, and only a call that needs a client tries to
\* connect.
HoldsClient ==
  \A t \in Calls :
    /\ call[t].at \in {"opening", "shaking", "sending", "closing"} =>
         call[t].conn \in Conns
    /\ Trying(t) => call[t].op \in {"connect", "command"}

BridgeInv == BridgeTypeOK /\ HoldsClient /\ OneAtATime /\ OwnTry /\ InStep

-----------------------------------------------------------------------------
\* What a step does to the sockets it does not name: a client that is still
\* self._client keeps its socket and its flag and only moves up in QEMU's line.
LEMMA BecomeLemma ==
  ASSUME NEW cl \in Conns \cup {NoConn}, NEW calls \in [Calls -> Call],
         NEW conns \in [Conns -> Conn], Become(cl, calls, conns)
  PROVE  /\ client' = cl /\ call' = calls /\ conn' \in [Conns -> Conn]
         /\ cl # NoConn => /\ conn'[cl].sock = conns[cl].sock
                           /\ conn'[cl].flag = conns[cl].flag
                           /\ conn'[cl].ahead \subseteq conns[cl].ahead
<1> DEFINE Live(c) == c = cl \/ \E t \in Calls : calls[t].conn = c
           opened  == {c \in Conns : Live(c) /\ conns[c].sock = "open"}
<1>1. /\ client' = cl /\ call' = calls
      /\ conn' = [c \in Conns |->
                   IF Live(c) THEN [conns[c] EXCEPT !.ahead = @ \cap opened] ELSE Unused]
  BY DEF Become
<1> HIDE DEF Live, opened
<1>2. ASSUME NEW c \in Conns
      PROVE  [conns[c] EXCEPT !.ahead = @ \cap opened] \in Conn
  <2>1. conns[c] \in Conn
    OBVIOUS
  <2>2. QED
    BY <2>1 DEF Conn
<1>3. Unused \in Conn
  BY DEF Unused, Conn
<1>4. conn' \in [Conns -> Conn]
  BY <1>1, <1>2, <1>3
<1>5. ASSUME cl # NoConn
      PROVE  /\ conn'[cl].sock = conns[cl].sock
             /\ conn'[cl].flag = conns[cl].flag
             /\ conn'[cl].ahead \subseteq conns[cl].ahead
  <2>1. cl \in Conns /\ Live(cl)
    BY <1>5 DEF Live
  <2>2. conn'[cl] = [conns[cl] EXCEPT !.ahead = @ \cap opened]
    BY <1>1, <2>1
  <2>3. conns[cl] \in Conn
    BY <2>1
  <2>4. QED
    BY <2>2, <2>3 DEF Conn
<1>6. QED
  BY <1>1, <1>4, <1>5

\* The step of a call that changes neither self._client nor a socket.
LEMMA GoesLemma ==
  ASSUME BridgeTypeOK, NEW t \in Calls, NEW to \in Call, Goes(t, to)
  PROVE  /\ client' = client /\ call' = [call EXCEPT ![t] = to]
         /\ conn' \in [Conns -> Conn]
         /\ client # NoConn => /\ conn'[client].sock = conn[client].sock
                               /\ conn'[client].flag = conn[client].flag
                               /\ conn'[client].ahead \subseteq conn[client].ahead
<1>1. [call EXCEPT ![t] = to] \in [Calls -> Call]
  BY DEF BridgeTypeOK
<1>2. QED
  BY <1>1, BecomeLemma DEF BridgeTypeOK, Goes

LEMMA IdleType == Idle \in Call
BY DEF Idle, Call

\* A try replaces self._client by a client whose socket is not open.
LEMMA AttemptLemma ==
  ASSUME BridgeTypeOK, NEW t \in Calls, NEW o \in {"connect", "command"},
         NEW n \in 0..MaxAttempts, Attempt(t, o, n)
  PROVE  \E c \in Conns :
           /\ client' = c /\ call' = [call EXCEPT ![t] = At(o, "opening", c, n)]
           /\ conn' \in [Conns -> Conn]
           /\ conn'[c].sock = "opening"
<1>1. PICK c \in Conns :
        Become(c, [call EXCEPT ![t] = At(o, "opening", c, n)],
               [conn EXCEPT ![c].sock = "opening"])
  BY DEF Attempt
<1>2. At(o, "opening", c, n) \in Call
  BY DEF At, Call
<1>3. [call EXCEPT ![t] = At(o, "opening", c, n)] \in [Calls -> Call]
  BY <1>2 DEF BridgeTypeOK
<1>4. /\ [conn EXCEPT ![c].sock = "opening"] \in [Conns -> Conn]
      /\ [conn EXCEPT ![c].sock = "opening"][c].sock = "opening"
  BY DEF BridgeTypeOK, Conn
<1>5. QED
  BY <1>1, <1>3, <1>4, BecomeLemma, ConnsAssumption

LEMMA SendLemma ==
  ASSUME BridgeTypeOK, NEW t \in Calls, NEW c \in Conns, Send(t, c)
  PROVE  /\ client' = client /\ conn' \in [Conns -> Conn]
         /\ \E to \in {Idle, At("command", "sending", c, 0)} :
              call' = [call EXCEPT ![t] = to]
         /\ client # NoConn => /\ conn'[client].sock = conn[client].sock
                               /\ conn'[client].flag = conn[client].flag
                               /\ conn'[client].ahead \subseteq conn[client].ahead
<1> DEFINE readers == {u \in Calls \ {t} : Reads(u, c)}
           waits   == \E u \in readers : call[u].at = "shaking"
           muddle  == [conn EXCEPT ![c].muddled = @ \/ waits]
<1>1. CASE Goes(t, At("command", "sending", c, 0))
  <2>1. At("command", "sending", c, 0) \in Call
    BY BoundsAssumption DEF At, Call
  <2>2. QED
    BY <1>1, <2>1, GoesLemma
<1>2. CASE Ends(t)
  BY <1>2, GoesLemma, IdleType DEF Ends
<1>3. CASE Become(client, [call EXCEPT ![t] = Idle], muddle)
  <2>1. [call EXCEPT ![t] = Idle] \in [Calls -> Call]
    BY IdleType DEF BridgeTypeOK
  <2>2. /\ muddle \in [Conns -> Conn]
        /\ \A d \in Conns : /\ muddle[d].sock = conn[d].sock
                            /\ muddle[d].flag = conn[d].flag
                            /\ muddle[d].ahead = conn[d].ahead
    <3> DEFINE told == conn[c].muddled \/ waits
    <3>1. told \in BOOLEAN
      OBVIOUS
    <3>2. muddle = [conn EXCEPT ![c] = [conn[c] EXCEPT !.muddled = told]]
      OBVIOUS
    <3>3. conn[c] \in Conn
      BY DEF BridgeTypeOK
    <3> HIDE DEF told
    <3>4. /\ [conn[c] EXCEPT !.muddled = told] \in Conn
          /\ [conn[c] EXCEPT !.muddled = told].sock = conn[c].sock
          /\ [conn[c] EXCEPT !.muddled = told].flag = conn[c].flag
          /\ [conn[c] EXCEPT !.muddled = told].ahead = conn[c].ahead
      BY <3>1, <3>3 DEF Conn
    <3> HIDE DEF muddle
    <3>5. QED
      BY <3>2, <3>4 DEF BridgeTypeOK
  <2> HIDE DEF muddle
  <2>3. client \in Conns \cup {NoConn}
    BY DEF BridgeTypeOK
  <2>4. QED
    BY <1>3, <2>1, <2>2, <2>3, BecomeLemma
<1>4. QED
  BY <1>1, <1>2, <1>3 DEF Send

\* A try that failed leaves a bridge that says it is not connected.
LEMMA FailedLemma ==
  ASSUME BridgeTypeOK, NEW t \in Calls, call[t].at \in {"opening", "shaking"}, Failed(t)
  PROVE  /\ client' \in Conns \cup {NoConn} /\ ~connected' /\ connected' \in BOOLEAN
         /\ conn' \in [Conns -> Conn]
         /\ \E to \in Call : /\ call' = [call EXCEPT ![t] = to]
                             /\ to.at \in {"idle", "backoff"}
                             /\ to.at = "backoff" => to.op = call[t].op
<1>1. CASE retry /\ Goes(t, At(call[t].op, "backoff", NoConn, call[t].left))
  <2>1. At(call[t].op, "backoff", NoConn, call[t].left) \in Call
    BY DEF At, Call, BridgeTypeOK, Idle
  <2>2. QED
    BY <1>1, <2>1, GoesLemma DEF Failed, At, BridgeTypeOK
<1>2. CASE Become(NoConn, [call EXCEPT ![t] = Idle], conn)
  <2>1. [call EXCEPT ![t] = Idle] \in [Calls -> Call] /\ conn \in [Conns -> Conn]
    BY IdleType DEF BridgeTypeOK
  <2>2. QED
    BY <1>2, <2>1, BecomeLemma, IdleType DEF Failed, Idle
<1>3. QED
  BY <1>1, <1>2 DEF Failed

\* What begins a try: the bridge is not connected, the call is the one that
\* changes it.
LEMMA BeginLemma ==
  ASSUME BridgeInv, NEW t \in Calls, NEW o \in {"connect", "command"}, call[t] = Idle,
         Begin(t, o)
  PROVE  BridgeInv'
<1>1. MaxAttempts \in 0..MaxAttempts
  BY BoundsAssumption
<1>2. PICK c \in Conns :
        /\ client' = c /\ call' = [call EXCEPT ![t] = At(o, "opening", c, MaxAttempts)]
        /\ conn' \in [Conns -> Conn]
        /\ conn'[c].sock = "opening"
  BY <1>1, AttemptLemma DEF Begin, BridgeInv
<1>3. At(o, "opening", c, MaxAttempts) \in Call
  BY <1>1 DEF At, Call
<1>4. BridgeTypeOK'
  BY <1>2, <1>3 DEF BridgeTypeOK, BridgeInv, Begin, world
<1>5. HoldsClient'
  BY <1>2 DEF HoldsClient, Trying, BridgeInv, BridgeTypeOK, At
<1>6. OneAtATime' /\ OwnTry'
  <2> SUFFICES ASSUME ~overlap'
               PROVE  OneAtATime' /\ OwnTry'
    BY DEF OneAtATime, OwnTry
  <2>1. ~overlap /\ ~connected' /\ \A u \in Calls \ {t} : ~Changes(u)
    BY DEF Begin, BridgeInv, BridgeTypeOK
  <2>2. \A u \in Calls \ {t} : call'[u] = call[u]
    BY <1>2 DEF BridgeInv, BridgeTypeOK
  <2>3. call'[t] = At(o, "opening", c, MaxAttempts)
    BY <1>2 DEF BridgeInv, BridgeTypeOK
  <2>4. QED
    BY <1>2, <2>1, <2>2, <2>3 DEF OneAtATime, OwnTry, Changes, Trying, At
<1>7. InStep'
  BY DEF Begin, InStep
<1>8. QED
  BY <1>4, <1>5, <1>6, <1>7 DEF BridgeInv

-----------------------------------------------------------------------------
\* The three shapes of a step that ends or suspends a call.  First: the bridge
\* is left alone, and the call does not start to connect.
LEMMA MovesLemma ==
  ASSUME BridgeInv, NEW t \in Calls, NEW to \in Call,
         to.at \in {"idle", "sending"}, to.at = "sending" => to.conn \in Conns,
         call' = [call EXCEPT ![t] = to], client' = client, overlap' = overlap,
         connected' \in {connected, FALSE},
         client # NoConn => /\ conn'[client].sock = conn[client].sock
                            /\ conn'[client].flag = conn[client].flag
                            /\ conn'[client].ahead \subseteq conn[client].ahead
  PROVE  HoldsClient' /\ OneAtATime' /\ OwnTry' /\ InStep'
<1>1. call'[t] = to /\ \A u \in Calls \ {t} : call'[u] = call[u]
  BY DEF BridgeInv, BridgeTypeOK
<1>2. HoldsClient'
  BY <1>1 DEF HoldsClient, BridgeInv, Trying
<1>3. OneAtATime'
  BY <1>1 DEF OneAtATime, BridgeInv, Changes
<1>4. HasClient => HasClient'
  BY DEF HasClient
<1>5. OwnTry'
  BY <1>1, <1>4 DEF OwnTry, BridgeInv, Trying
<1>6. InStep'
  BY <1>4 DEF InStep, BridgeInv, HasClient, Open, Serves
<1>7. QED
  BY <1>2, <1>3, <1>5, <1>6

\* Second: the one call that connects or disconnects gives up, whatever becomes
\* of self._client.
LEMMA GivesUpLemma ==
  ASSUME BridgeInv, NEW t \in Calls, Changes(t), NEW to \in Call,
         to.at \in {"idle", "backoff"},
         to.at = "backoff" => to.op \in {"connect", "command"},
         call' = [call EXCEPT ![t] = to], overlap' = overlap, ~connected'
  PROVE  HoldsClient' /\ OneAtATime' /\ OwnTry' /\ InStep'
<1>1. call'[t] = to /\ \A u \in Calls \ {t} : call'[u] = call[u]
  BY DEF BridgeInv, BridgeTypeOK
<1>2. HoldsClient'
  BY <1>1 DEF HoldsClient, BridgeInv, Trying
<1>3. OneAtATime'
  BY <1>1 DEF OneAtATime, BridgeInv, Changes
<1>4. ASSUME ~overlap
      PROVE  \A u \in Calls \ {t} : call[u].at \notin {"opening", "shaking"}
  BY <1>4 DEF OneAtATime, BridgeInv, Changes
<1>5. OwnTry'
  BY <1>1, <1>4 DEF OwnTry, Trying
<1>6. InStep'
  BY DEF InStep
<1>7. QED
  BY <1>2, <1>3, <1>5, <1>6

-----------------------------------------------------------------------------
LEMMA OpenLemma ==
  ASSUME BridgeInv, NEW t \in Calls, OpenSucceeds(t)
  PROVE  BridgeInv'
<1> DEFINE c == call[t].conn
           to == [call[t] EXCEPT !.at = "shaking"]
           opened == [conn[c] EXCEPT !.sock = "open", !.flag = TRUE,
                                     !.ahead = {d \in Conns : Open(d)}]
<1>1. /\ c \in Conns /\ conn[c] \in Conn /\ call[t] \in Call /\ call[t] # Idle
  BY DEF OpenSucceeds, BridgeInv, HoldsClient, BridgeTypeOK, Idle
<1>2. to \in Call /\ to.at = "shaking" /\ to.conn = c /\ to.op = call[t].op
  BY <1>1 DEF Call
<1>3. /\ opened \in Conn /\ opened.flag = TRUE
  BY <1>1 DEF Conn
<1>4. Become(client, [call EXCEPT ![t] = to], [conn EXCEPT ![c] = opened])
  <2>1. [call EXCEPT ![t].at = "shaking"] = [call EXCEPT ![t] = to]
    OBVIOUS
  <2>2. [conn EXCEPT ![c].sock = "open", ![c].flag = TRUE,
                     ![c].ahead = {d \in Conns : Open(d)}] = [conn EXCEPT ![c] = opened]
    BY <1>1 DEF BridgeInv, BridgeTypeOK
  <2>3. QED
    BY <2>1, <2>2 DEF OpenSucceeds
<1> HIDE DEF to, opened, c
<1>5. /\ client' = client /\ call' = [call EXCEPT ![t] = to] /\ conn' \in [Conns -> Conn]
      /\ client # NoConn => conn'[client].flag = [conn EXCEPT ![c] = opened][client].flag
  <2>1. /\ [call EXCEPT ![t] = to] \in [Calls -> Call]
        /\ [conn EXCEPT ![c] = opened] \in [Conns -> Conn]
        /\ client \in Conns \cup {NoConn}
    BY <1>2, <1>3 DEF BridgeInv, BridgeTypeOK
  <2>2. QED
    BY <1>4, <2>1, BecomeLemma
<1>6. call'[t] = to /\ \A u \in Calls \ {t} : call'[u] = call[u]
  BY <1>5 DEF BridgeInv, BridgeTypeOK
<1>7. BridgeTypeOK'
  BY <1>2, <1>5 DEF BridgeInv, BridgeTypeOK, OpenSucceeds, world
<1>8. HoldsClient'
  BY <1>1, <1>2, <1>6 DEF HoldsClient, BridgeInv, Trying, OpenSucceeds
<1>9. OneAtATime'
  BY <1>2, <1>6 DEF OneAtATime, BridgeInv, Changes, OpenSucceeds
<1>10. OwnTry' /\ InStep'
  <2> SUFFICES ASSUME ~overlap
               PROVE  OwnTry' /\ InStep'
    BY DEF OwnTry, InStep, OpenSucceeds
  <2>1. ~connected' /\ client = c
    BY DEF OwnTry, BridgeInv, Trying, OpenSucceeds, c
  <2>2. \A u \in Calls \ {t} : ~Changes(u)
    BY DEF OneAtATime, BridgeInv, Changes, OpenSucceeds
  <2>3. HasClient'
    BY <1>1, <1>3, <1>5, <2>1, ConnsAssumption DEF HasClient, BridgeInv, BridgeTypeOK
  <2>4. QED
    BY <1>2, <1>5, <1>6, <2>1, <2>2, <2>3 DEF OwnTry, InStep, Trying, Changes
<1>11. QED
  BY <1>7, <1>8, <1>9, <1>10 DEF BridgeInv

LEMMA ShakenLemma ==
  ASSUME BridgeInv, NEW t \in Calls, Shaken(t)
  PROVE  BridgeInv'
<1>1. \E to \in Call :
        /\ to.at \in {"idle", "sending"} /\ (to.at = "sending" => to.conn \in Conns)
        /\ call' = [call EXCEPT ![t] = to]
        /\ client' = client /\ conn' \in [Conns -> Conn]
        /\ client # NoConn => /\ conn'[client].sock = conn[client].sock
                              /\ conn'[client].flag = conn[client].flag
                              /\ conn'[client].ahead \subseteq conn[client].ahead
  <2>1. CASE client # NoConn /\ Send(t, client)
    <3>1. client \in Conns
      BY <2>1 DEF BridgeInv, BridgeTypeOK
    <3>2. At("command", "sending", client, 0) \in Call
      BY <3>1, BoundsAssumption DEF At, Call
    <3>3. QED
      BY <2>1, <3>1, <3>2, SendLemma, IdleType DEF BridgeInv, Idle, At
  <2>2. CASE Ends(t)
    BY <2>2, GoesLemma, IdleType DEF Ends, BridgeInv, Idle
  <2>3. QED
    BY <2>1, <2>2 DEF Shaken
<1>2. PICK to \in Call :
        /\ to.at \in {"idle", "sending"} /\ (to.at = "sending" => to.conn \in Conns)
        /\ call' = [call EXCEPT ![t] = to]
        /\ client' = client /\ conn' \in [Conns -> Conn]
        /\ client # NoConn => /\ conn'[client].sock = conn[client].sock
                              /\ conn'[client].flag = conn[client].flag
                              /\ conn'[client].ahead \subseteq conn[client].ahead
  BY <1>1
<1>3. connected' = TRUE /\ ever' = TRUE /\ retry' = TRUE /\ UNCHANGED <<overlap, world>>
  BY DEF Shaken
<1>4. BridgeTypeOK'
  BY <1>2, <1>3 DEF BridgeInv, BridgeTypeOK, world
<1>5. call'[t] = to /\ \A u \in Calls \ {t} : call'[u] = call[u]
  BY <1>2 DEF BridgeInv, BridgeTypeOK
<1>6. HoldsClient'
  BY <1>2, <1>5 DEF HoldsClient, BridgeInv, Trying
<1>7. OneAtATime'
  BY <1>2, <1>3, <1>5 DEF OneAtATime, BridgeInv, Changes
<1>8. OwnTry' /\ InStep'
  <2> SUFFICES ASSUME ~overlap
               PROVE  OwnTry' /\ InStep'
    BY <1>3 DEF OwnTry, InStep
  <2>1. HasClient /\ Serves(client)
    BY DEF BridgeInv, OwnTry, Trying, Shaken
  <2>2. \A u \in Calls \ {t} : ~Changes(u)
    BY DEF OneAtATime, BridgeInv, Changes, Shaken
  <2>3. HasClient' /\ (Open(client) => Serves(client))'
    BY <1>2, <2>1 DEF HasClient, Open, Serves
  <2>4. QED
    BY <1>2, <1>5, <2>2, <2>3 DEF OwnTry, InStep, Trying, Changes
<1>9. QED
  BY <1>4, <1>6, <1>7, <1>8 DEF BridgeInv

LEMMA ForgetsLemma ==
  ASSUME BridgeInv, NEW t \in Calls, Changes(t), NEW conns \in [Conns -> Conn],
         Become(NoConn, [call EXCEPT ![t] = Idle], conns), connected' = FALSE,
         UNCHANGED <<ever, retry, overlap, world>>
  PROVE  BridgeInv'
<1>1. [call EXCEPT ![t] = Idle] \in [Calls -> Call]
  BY IdleType DEF BridgeInv, BridgeTypeOK
<1>2. /\ client' = NoConn /\ call' = [call EXCEPT ![t] = Idle]
      /\ conn' \in [Conns -> Conn]
  BY <1>1, BecomeLemma
<1>3. BridgeTypeOK'
  BY <1>1, <1>2 DEF BridgeInv, BridgeTypeOK, world
<1>4. Idle.at = "idle"
  BY DEF Idle
<1>5. QED
  BY <1>2, <1>3, <1>4, IdleType, GivesUpLemma DEF BridgeInv

LEMMA BackoffLemma ==
  ASSUME BridgeInv, NEW t \in Calls, BackoffEnds(t)
  PROVE  BridgeInv'
<1>1. /\ call[t] # Idle /\ call[t] \in Call /\ Changes(t)
      /\ call[t].left \in 0..MaxAttempts
      /\ call[t].op \in {"connect", "command", "disconnect"}
  BY DEF BackoffEnds, BridgeInv, BridgeTypeOK, Idle, Call, Changes
<1>2. CASE Become(NoConn, [call EXCEPT ![t] = Idle], conn) /\ connected' = FALSE
  <2>1. conn \in [Conns -> Conn] /\ UNCHANGED <<ever, retry, overlap, world>>
    BY DEF BackoffEnds, BridgeInv, BridgeTypeOK
  <2>2. QED
    BY <1>1, <1>2, <2>1, ForgetsLemma
<1>3. CASE /\ call[t].left > 1
           /\ Attempt(t, call[t].op, call[t].left - 1) /\ UNCHANGED connected
  <2>1. call[t].left - 1 \in 0..MaxAttempts
    BY <1>1, <1>3, BoundsAssumption
  <2>2. call[t].op \in {"connect", "command"}
    BY <1>1 DEF BridgeInv, HoldsClient, Trying, BackoffEnds
  <2> DEFINE to(c) == At(call[t].op, "opening", c, call[t].left - 1)
  <2>3. PICK c \in Conns : /\ client' = c /\ call' = [call EXCEPT ![t] = to(c)]
                           /\ conn' \in [Conns -> Conn]
    BY <1>3, <2>1, <2>2, AttemptLemma DEF BridgeInv
  <2>4. /\ to(c) \in Call /\ to(c).at = "opening" /\ to(c).conn = c
        /\ to(c).op \in {"connect", "command"}
    BY <2>1, <2>2 DEF At, Call
  <2> HIDE DEF to
  <2>5. UNCHANGED <<connected, ever, retry, overlap, world>>
    BY <1>3 DEF BackoffEnds
  <2>6. call'[t] = to(c) /\ \A u \in Calls \ {t} : call'[u] = call[u]
    BY <2>3 DEF BridgeInv, BridgeTypeOK
  <2>7. BridgeTypeOK'
    BY <2>3, <2>4, <2>5 DEF BridgeInv, BridgeTypeOK, world
  <2>8. HoldsClient'
    BY <2>4, <2>6 DEF HoldsClient, BridgeInv, Trying
  <2>9. OneAtATime'
    BY <1>1, <2>4, <2>5, <2>6 DEF OneAtATime, BridgeInv, Changes
  <2>10. ASSUME ~overlap
         PROVE  ~connected /\ \A u \in Calls \ {t} : ~Changes(u)
    BY <1>1, <2>10 DEF OneAtATime, OwnTry, BridgeInv, Trying, BackoffEnds
  <2>11. OwnTry' /\ InStep'
    BY <2>3, <2>4, <2>5, <2>6, <2>10 DEF OwnTry, InStep, Trying, Changes
  <2>12. QED
    BY <2>7, <2>8, <2>9, <2>11 DEF BridgeInv
<1>4. QED
  BY <1>2, <1>3 DEF BackoffEnds

LEMMA FailsLemma ==
  ASSUME BridgeInv, NEW t \in Calls, OpenFails(t) \/ ShakeFails(t)
  PROVE  BridgeInv'
<1>1. /\ call[t].at \in {"opening", "shaking"} /\ Failed(t)
      /\ UNCHANGED <<ever, retry, overlap, qemuUp, starts, discs, drops>>
      /\ misses' \in 0..MaxMiss
  BY BoundsAssumption DEF OpenFails, ShakeFails, Failed, Misses, world, BridgeInv, BridgeTypeOK
<1>2. PICK to \in Call :
        /\ call' = [call EXCEPT ![t] = to]
        /\ to.at \in {"idle", "backoff"}
        /\ to.at = "backoff" => to.op = call[t].op
  BY <1>1, FailedLemma DEF BridgeInv
<1>3. BridgeTypeOK' /\ ~connected'
  BY <1>1, <1>2, FailedLemma DEF BridgeInv, BridgeTypeOK
<1>4. /\ Changes(t)
      /\ to.at = "backoff" => to.op \in {"connect", "command"}
  BY <1>1, <1>2 DEF Changes, BridgeInv, HoldsClient, Trying
<1>5. QED
  BY <1>1, <1>2, <1>3, <1>4, GivesUpLemma DEF BridgeInv

\* A call that ends, or is sent, and leaves the bridge alone.
LEMMA EndsLemma ==
  ASSUME BridgeInv, NEW t \in Calls, ShakeRaises(t) \/ SendEnds(t)
  PROVE  BridgeInv'
<1>1. /\ Ends(t) /\ connected' \in BOOLEAN /\ connected' \in {connected, FALSE}
      /\ UNCHANGED <<ever, retry, overlap, qemuUp, starts, discs, drops>>
      /\ misses' \in 0..MaxMiss
  <2>1. CASE ShakeRaises(t)
    BY <2>1 DEF ShakeRaises, world, BridgeInv, BridgeTypeOK
  <2>2. CASE SendEnds(t)
    BY <2>2, BoundsAssumption DEF SendEnds, Misses, BridgeInv, BridgeTypeOK
  <2>3. QED
    BY <2>1, <2>2
<1>2. /\ client' = client /\ call' = [call EXCEPT ![t] = Idle]
      /\ conn' \in [Conns -> Conn]
      /\ client # NoConn => /\ conn'[client].sock = conn[client].sock
                            /\ conn'[client].flag = conn[client].flag
                            /\ conn'[client].ahead \subseteq conn[client].ahead
  BY <1>1, GoesLemma, IdleType DEF Ends, BridgeInv
<1>3. BridgeTypeOK'
  BY <1>1, <1>2, IdleType DEF BridgeInv, BridgeTypeOK
<1>4. Idle.at = "idle"
  BY DEF Idle
<1>5. QED
  BY <1>1, <1>2, <1>3, <1>4, IdleType, MovesLemma DEF BridgeInv

LEMMA CommandLemma ==
  ASSUME BridgeInv, NEW t \in Calls, HasClient, Send(t, client),
         UNCHANGED <<connected, ever, retry, overlap, world>>
  PROVE  BridgeInv'
<1>1. client \in Conns
  BY DEF HasClient, BridgeInv, BridgeTypeOK
<1>2. PICK to \in {Idle, At("command", "sending", client, 0)} :
        call' = [call EXCEPT ![t] = to]
  BY <1>1, SendLemma DEF BridgeInv
<1>3. /\ to \in Call /\ to.at \in {"idle", "sending"}
      /\ to.at = "sending" => to.conn \in Conns
  BY <1>1, IdleType, BoundsAssumption DEF Idle, At, Call
<1>4. /\ client' = client /\ conn' \in [Conns -> Conn]
      /\ client # NoConn => /\ conn'[client].sock = conn[client].sock
                            /\ conn'[client].flag = conn[client].flag
                            /\ conn'[client].ahead \subseteq conn[client].ahead
  BY <1>1, SendLemma DEF BridgeInv
<1>5. BridgeTypeOK'
  BY <1>2, <1>3, <1>4 DEF BridgeInv, BridgeTypeOK, world
<1>6. QED
  BY <1>2, <1>3, <1>4, <1>5, MovesLemma DEF BridgeInv

-----------------------------------------------------------------------------
LEMMA DisconnectLemma ==
  ASSUME BridgeInv, NEW t \in Calls, Disconnect(t)
  PROVE  BridgeInv'
<1> DEFINE to == At("disconnect", "posted", NoConn, 0)
<1>1. to \in Call /\ to.at = "posted"
  BY BoundsAssumption DEF At, Call
<1> HIDE DEF to
<1>2. /\ client' = client /\ call' = [call EXCEPT ![t] = to]
      /\ conn' \in [Conns -> Conn]
      /\ client # NoConn => /\ conn'[client].sock = conn[client].sock
                            /\ conn'[client].flag = conn[client].flag
                            /\ conn'[client].ahead \subseteq conn[client].ahead
  BY <1>1, GoesLemma DEF Disconnect, BridgeInv, to
<1>3. call'[t] = to /\ \A u \in Calls \ {t} : call'[u] = call[u]
  BY <1>2 DEF BridgeInv, BridgeTypeOK
<1>4. discs' \in 0..MaxDisc /\ overlap' \in BOOLEAN
  BY BoundsAssumption DEF Disconnect, BridgeInv, BridgeTypeOK
<1>5. BridgeTypeOK'
  BY <1>1, <1>2, <1>4 DEF Disconnect, BridgeInv, BridgeTypeOK
<1>6. HoldsClient'
  BY <1>1, <1>3 DEF HoldsClient, BridgeInv, Trying
<1>7. ASSUME ~overlap'
      PROVE  ~overlap /\ \A u \in Calls \ {t} : ~Changes(u)
  BY <1>7 DEF Disconnect, BridgeInv, BridgeTypeOK
<1>8. OneAtATime'
  BY <1>3, <1>7 DEF OneAtATime, Changes
<1>9. OwnTry'
  BY <1>1, <1>3, <1>7 DEF OwnTry, Trying, Changes
<1>10. InStep'
  BY <1>2, <1>7 DEF InStep, BridgeInv, HasClient, Open, Serves, Disconnect
<1>11. QED
  BY <1>5, <1>6, <1>8, <1>9, <1>10 DEF BridgeInv

LEMMA RunsLemma ==
  ASSUME BridgeInv, NEW t \in Calls, DisconnectRuns(t)
  PROVE  BridgeInv'
<1>1. Changes(t) /\ UNCHANGED <<ever, retry, overlap, world>>
  BY DEF DisconnectRuns, Changes
<1>2. CASE Become(NoConn, [call EXCEPT ![t] = Idle], conn) /\ connected' = FALSE
  <2>1. conn \in [Conns -> Conn]
    BY DEF BridgeInv, BridgeTypeOK
  <2>2. QED
    BY <1>1, <1>2, <2>1, ForgetsLemma
<1> DEFINE to == At("disconnect", "closing", client, 0)
           conns == [conn EXCEPT ![client].sock = "closed"]
<1>3. CASE HasSocket /\ Become(client, [call EXCEPT ![t] = to], conns) /\ UNCHANGED connected
  <2>1. client \in Conns /\ client # NoConn
    BY <1>3 DEF HasSocket, BridgeInv, BridgeTypeOK
  <2>2. to \in Call /\ to.at = "closing" /\ to.conn = client
    BY <2>1, BoundsAssumption DEF At, Call
  <2>3. /\ conns \in [Conns -> Conn] /\ conns[client].sock = "closed"
        /\ conns[client].flag = conn[client].flag
    BY <2>1 DEF BridgeInv, BridgeTypeOK, Conn
  <2> HIDE DEF to, conns
  <2>4. [call EXCEPT ![t] = to] \in [Calls -> Call]
    BY <2>2 DEF BridgeInv, BridgeTypeOK
  <2>5. /\ client' = client /\ call' = [call EXCEPT ![t] = to]
        /\ conn' \in [Conns -> Conn] /\ conn'[client].sock = "closed"
        /\ conn'[client].flag = conn[client].flag
    BY <1>3, <2>1, <2>3, <2>4, BecomeLemma
  <2>6. BridgeTypeOK'
    BY <1>1, <1>3, <2>4, <2>5 DEF BridgeInv, BridgeTypeOK, world
  <2>7. call'[t] = to /\ \A u \in Calls \ {t} : call'[u] = call[u]
    BY <2>5 DEF BridgeInv, BridgeTypeOK
  <2>8. HoldsClient'
    BY <2>1, <2>2, <2>7 DEF HoldsClient, BridgeInv, Trying
  <2>9. OneAtATime'
    BY <1>1, <2>2, <2>7 DEF OneAtATime, BridgeInv, Changes
  <2>10. ASSUME ~overlap
         PROVE  \A u \in Calls \ {t} : ~Changes(u)
    BY <1>1, <2>10 DEF OneAtATime, BridgeInv
  <2>11. OwnTry'
    BY <1>1, <2>2, <2>7, <2>10 DEF OwnTry, Trying, Changes
  <2>12. InStep'
    BY <1>1, <1>3, <2>1, <2>5 DEF InStep, BridgeInv, HasClient, Open
  <2>13. QED
    BY <2>6, <2>8, <2>9, <2>11, <2>12 DEF BridgeInv
<1>4. QED
  BY <1>2, <1>3 DEF DisconnectRuns

LEMMA ClosedLemma ==
  ASSUME BridgeInv, NEW t \in Calls, Closed(t)
  PROVE  BridgeInv'
<1>1. [conn EXCEPT ![call[t].conn].flag = FALSE] \in [Conns -> Conn]
  BY DEF BridgeInv, BridgeTypeOK, Conn
<1>2. QED
  BY <1>1, ForgetsLemma DEF Closed, Changes

LEMMA QEMULemma ==
  ASSUME BridgeInv, Start \/ Die
  PROVE  BridgeInv'
<1> DEFINE conns == [c \in Conns |->
                      IF Open(c) THEN [conn[c] EXCEPT !.sock = "dead"] ELSE conn[c]]
<1>1. CASE Start
  <2>1. starts' \in 0..MaxStart /\ qemuUp' \in BOOLEAN
    BY <1>1, BoundsAssumption DEF Start, BridgeInv, BridgeTypeOK
  <2>2. UNCHANGED <<client, connected, ever, retry, conn, call, misses, discs, drops, overlap>>
    BY <1>1 DEF Start
  <2>3. QED
    BY <2>1, <2>2 DEF BridgeInv, BridgeTypeOK, HoldsClient, OneAtATime, OwnTry, InStep, Trying,
       Changes, HasClient, Open, Serves
<1>2. CASE Die
  <2>1. /\ conns \in [Conns -> Conn]
        /\ \A c \in Conns : /\ conns[c].flag = conn[c].flag
                            /\ conns[c].sock # "open"
    <3>1. ASSUME NEW c \in Conns
          PROVE  /\ conns[c] \in Conn /\ conns[c].flag = conn[c].flag
                 /\ conns[c].sock # "open"
      <4>1. conn[c] \in Conn
        BY DEF BridgeInv, BridgeTypeOK
      <4>2. QED
        BY <4>1 DEF Conn, Open
    <3>2. QED
      BY <3>1
  <2>2. Become(client, call, conns)
    BY <1>2 DEF Die
  <2> HIDE DEF conns
  <2>3. call \in [Calls -> Call] /\ client \in Conns \cup {NoConn}
    BY DEF BridgeInv, BridgeTypeOK
  <2>4. /\ client' = client /\ call' = call /\ conn' \in [Conns -> Conn]
        /\ client # NoConn => /\ conn'[client].flag = conn[client].flag
                              /\ conn'[client].sock # "open"
    BY <2>1, <2>2, <2>3, BecomeLemma
  <2>5. UNCHANGED <<connected, ever, retry, starts, misses, discs, overlap>>
    BY <1>2, Zenon DEF Die
  <2>6. HasClient => HasClient' /\ ~Open(client)'
    BY <2>4 DEF HasClient, Open
  <2>7. qemuUp' \in BOOLEAN /\ drops' \in Nat
    <3>1. qemuUp' \in BOOLEAN
      BY <1>2 DEF Die
    <3>2. drops' = drops + 1
      BY <1>2, Zenon DEF Die
    <3>3. drops' \in Nat
      BY <3>2 DEF BridgeInv, BridgeTypeOK
    <3>4. QED
      BY <3>1, <3>3
  <2>8. QED
    BY <2>4, <2>5, <2>6, <2>7 DEF BridgeInv, BridgeTypeOK, HoldsClient, OneAtATime, OwnTry, InStep,
       Trying, Changes
<1>3. QED
  BY <1>1, <1>2

-----------------------------------------------------------------------------
LEMMA InitLemma ==
  ASSUME BridgeInit
  PROVE  BridgeInv
<1>1. Unused \in Conn
  BY DEF Unused, Conn
<1>2. BridgeTypeOK
  <2>1. conn \in [Conns -> Conn] /\ call \in [Calls -> Call]
    BY <1>1, IdleType DEF BridgeInit
  <2>2. 0 \in 0..MaxStart /\ 0 \in 0..MaxMiss /\ 0 \in 0..MaxDisc /\ 0 \in Nat
    BY BoundsAssumption
  <2>3. QED
    BY <2>1, <2>2 DEF BridgeInit, BridgeTypeOK
<1>3. \A t \in Calls : call[t].at = "idle"
  BY DEF BridgeInit, Idle
<1>4. QED
  BY <1>2, <1>3 DEF BridgeInit, BridgeInv, HoldsClient, OneAtATime, OwnTry, InStep, Trying, Changes

LEMMA StepLemma ==
  ASSUME BridgeInv, [BridgeNext]_bridgeVars
  PROVE  BridgeInv'
<1>1. ASSUME NEW t \in Calls, Connect(t)
      PROVE  BridgeInv'
  BY <1>1, BeginLemma DEF Connect
<1>2. ASSUME NEW t \in Calls, Command(t)
      PROVE  BridgeInv'
  BY <1>2, BeginLemma, CommandLemma DEF Command
<1>3. ASSUME NEW t \in Calls, Disconnect(t)
      PROVE  BridgeInv'
  BY <1>3, DisconnectLemma
<1>4. ASSUME NEW t \in Calls, Continue(t)
      PROVE  BridgeInv'
  BY <1>4, OpenLemma, ShakenLemma, BackoffLemma, FailsLemma, EndsLemma, RunsLemma,
     ClosedLemma DEF Continue
<1>5. CASE Start \/ Die
  BY <1>5, QEMULemma
<1>6. CASE UNCHANGED bridgeVars
  BY <1>6 DEF bridgeVars, world, BridgeInv, BridgeTypeOK, HoldsClient, OneAtATime, OwnTry, InStep,
     Trying, Changes, HasClient, Open, Serves
<1>7. QED
  BY <1>1, <1>2, <1>3, <1>4, <1>5, <1>6 DEF BridgeNext

LEMMA Inductive == BridgeSpec => []BridgeInv
<1>1. BridgeInit => BridgeInv
  BY InitLemma
<1>2. BridgeInv /\ [BridgeNext]_bridgeVars => BridgeInv'
  BY StepLemma
<1>3. QED
  BY <1>1, <1>2, PTL DEF BridgeSpec

\* Every variable keeps its type, whatever calls, clients and bounds there are.
THEOREM BridgeType == BridgeSpec => []BridgeTypeOK
<1>1. BridgeInv => BridgeTypeOK
  BY DEF BridgeInv
<1>2. QED
  BY <1>1, Inductive, PTL

\* is_connected is the truth while no two calls connect or disconnect at once:
\* there is a client, it is handed out, and it is the one QEMU serves unless
\* its QEMU has died or a disconnect() is closing it.
THEOREM ConnectedIsTrue == BridgeSpec => []InStep
<1>1. BridgeInv => InStep
  BY DEF BridgeInv
<1>2. QED
  BY <1>1, Inductive, PTL
=============================================================================
