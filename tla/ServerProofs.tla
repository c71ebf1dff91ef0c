---------------------------- MODULE ServerProofs ----------------------------
(***************************************************************************)
(* The components of the server side beside the QMP client, for any number *)
(* of sessions, keys, machines, secrets, watches and callers: who is       *)
(* registered for the stream, what revoking and rotating do to a key, how  *)
(* much a caller is admitted, and which watches can be stopped.  Then the  *)
(* sum of them all.                                                        *)
(***************************************************************************)
EXTENDS MCServer, QMPChannelProofs, SequenceTheorems, NaturalsInduction,
        WellFoundedInduction

(***************************************************************************)
(* The registry of the streaming bridge: nobody is registered without a    *)
(* handler, and a client that shares its id with nobody stays registered   *)
(* as long as it is connected.                                             *)
(***************************************************************************)

\* Whoever is registered is registered under its own id and has a handler.
Owned ==
  \A i \in Ids : clients[i] # NoSession =>
    /\ Id[clients[i]] = i
    /\ handler[clients[i]] = "loop"

\* A websocket is new exactly as long as it has no handler, and the sends and
\* the closing are about websockets that had one.
Accepted ==
  /\ \A s \in Sessions : handler[s] = "none" <=> ws[s] = "new"
  /\ \A s \in closing : handler[s] # "none"
  /\ loop = "drain" => cur \in Sessions /\ ws[cur] # "new"

\* An id the round will delete belongs to a websocket that is gone for good.
BrokenGone ==
  \A i \in broken : \E s \in Sessions : Id[s] = i /\ ws[s] = "gone"

StreamInv == StreamTypeOK /\ Owned /\ Accepted /\ BrokenGone /\ KeptRegistered

LEMMA RegistrySize == Cardinality(Registered) \in Nat
<1>1. IsFiniteSet(Registered)
  BY FiniteAssumption, FS_Subset DEF Registered
<1>2. QED
  BY <1>1, FS_CardinalityType

LEMMA StreamTypeStep ==
  ASSUME StreamTypeOK, Accepted, [StreamNext]_streamVars
  PROVE  StreamTypeOK'
<1> USE IdAssumption DEF StreamTypeOK
<1>1. ASSUME NEW s \in Sessions, Connect(s)
      PROVE  StreamTypeOK'
  BY <1>1 DEF Connect, round
<1>2. ASSUME NEW s \in Sessions, PeerLeaves(s)
      PROVE  StreamTypeOK'
  BY <1>2 DEF PeerLeaves, round
<1>3. ASSUME NEW s \in Sessions, HandlerEnds(s)
      PROVE  StreamTypeOK'
  BY <1>3 DEF HandlerEnds
<1>4. ASSUME NEW s \in Sessions, CloseOne(s)
      PROVE  StreamTypeOK'
  BY <1>4 DEF CloseOne, round
<1>5. ASSUME Capture \/ Stop
      PROVE  StreamTypeOK'
  BY <1>5 DEF Capture, Stop, handlers, round, Registered
<1>6. CASE BeginRound
  BY <1>6, RegistrySize DEF BeginRound, handlers
<1>7. ASSUME NEW i \in Ids, Visit(i)
      PROVE  StreamTypeOK'
  BY <1>7 DEF Visit, handlers, Registered
<1>8. CASE Drained
  BY <1>8 DEF Drained, handlers, Accepted
<1>9. CASE RoundEnds \/ RoundAborted
  BY <1>9 DEF RoundEnds, RoundAborted, RoundOver, handlers
<1>10. CASE UNCHANGED streamVars
  BY <1>10 DEF streamVars, handlers, round
<1>11. QED
  BY <1>1, <1>2, <1>3, <1>4, <1>5, <1>6, <1>7, <1>8, <1>9, <1>10
     DEF StreamNext, Handler, Broadcast

LEMMA StreamStart ==
  ASSUME StreamInit
  PROVE  StreamInv
BY DEF StreamInit, StreamInv, StreamTypeOK, Owned, Accepted, BrokenGone, KeptRegistered

LEMMA OwnedStep ==
  ASSUME StreamInv, [StreamNext]_streamVars
  PROVE  Owned'
<1> USE IdAssumption, SessionsAssumption DEF StreamInv, StreamTypeOK, Owned
<1>1. ASSUME NEW s \in Sessions, Connect(s)
      PROVE  Owned'
  BY <1>1 DEF Connect
<1>2. ASSUME NEW s \in Sessions, PeerLeaves(s) \/ CloseOne(s)
      PROVE  Owned'
  BY <1>2 DEF PeerLeaves, CloseOne
<1>3. ASSUME NEW s \in Sessions, HandlerEnds(s)
      PROVE  Owned'
  BY <1>3 DEF HandlerEnds
<1>4. CASE RoundEnds
  BY <1>4 DEF RoundEnds, RoundOver, handlers
<1>5. CASE RoundAborted \/ Capture \/ Stop \/ BeginRound \/ Drained
  BY <1>5 DEF RoundAborted, RoundOver, Capture, Stop, BeginRound, Drained, handlers
<1>6. ASSUME NEW i \in Ids, Visit(i)
      PROVE  Owned'
  BY <1>6 DEF Visit, handlers
<1>7. CASE UNCHANGED streamVars
  BY <1>7 DEF streamVars, handlers
<1>8. QED
  BY <1>1, <1>2, <1>3, <1>4, <1>5, <1>6, <1>7 DEF StreamNext, Handler, Broadcast

\* A websocket that was accepted stays so, and one that is gone stays gone.
LEMMA Monotone ==
  ASSUME StreamInv, [StreamNext]_streamVars, NEW s \in Sessions
  PROVE  /\ ws[s] = "gone" => ws'[s] = "gone"
         /\ ws[s] # "new" => ws'[s] # "new"
         /\ handler[s] # "none" => handler'[s] # "none"
<1> USE DEF StreamInv, StreamTypeOK, Accepted
<1>1. ASSUME NEW u \in Sessions, Connect(u) \/ PeerLeaves(u) \/ Handler(u)
      PROVE  /\ ws[s] = "gone" => ws'[s] = "gone"
             /\ ws[s] # "new" => ws'[s] # "new"
             /\ handler[s] # "none" => handler'[s] # "none"
  BY <1>1 DEF Connect, PeerLeaves, Handler, HandlerEnds, CloseOne
<1>2. CASE Broadcast \/ Capture \/ Stop
  BY <1>2 DEF Broadcast, BeginRound, Visit, Drained, RoundEnds, RoundAborted,
     RoundOver, Capture, Stop, handlers
<1>3. CASE UNCHANGED streamVars
  BY <1>3 DEF streamVars, handlers
<1>4. QED
  BY <1>1, <1>2, <1>3 DEF StreamNext

LEMMA AcceptedStep ==
  ASSUME StreamInv, [StreamNext]_streamVars
  PROVE  Accepted'
<1> USE IdAssumption, SessionsAssumption DEF StreamInv, StreamTypeOK, Accepted
<1>1. ASSUME NEW s \in Sessions, Connect(s) \/ PeerLeaves(s)
      PROVE  Accepted'
  BY <1>1 DEF Connect, PeerLeaves, round
<1>2. ASSUME NEW s \in Sessions, Handler(s)
      PROVE  Accepted'
  BY <1>2 DEF Handler, HandlerEnds, CloseOne, round
<1>3. CASE Stop
  BY <1>3 DEF Stop, Owned, Registered, handlers, round
<1>4. ASSUME NEW i \in Ids, Visit(i)
      PROVE  Accepted'
  BY <1>4 DEF Visit, handlers, Registered, Owned
<1>5. CASE Capture \/ BeginRound \/ Drained \/ RoundEnds \/ RoundAborted
  BY <1>5 DEF Capture, BeginRound, Drained, RoundEnds, RoundAborted, RoundOver,
     handlers, round
<1>6. CASE UNCHANGED streamVars
  BY <1>6 DEF streamVars, handlers, round
<1>7. QED
  BY <1>1, <1>2, <1>3, <1>4, <1>5, <1>6 DEF StreamNext, Broadcast

LEMMA BrokenStep ==
  ASSUME StreamInv, [StreamNext]_streamVars
  PROVE  BrokenGone'
<1>1. ASSUME NEW i \in broken
      PROVE  \E s \in Sessions : Id[s] = i /\ ws'[s] = "gone"
  BY <1>1, Monotone DEF StreamInv, BrokenGone
<1>2. CASE broken' \subseteq broken
  BY <1>1, <1>2 DEF BrokenGone
<1>3. ASSUME NEW i \in Ids, Visit(i), ~(broken' \subseteq broken)
      PROVE  BrokenGone'
  <2>1. broken' = broken \cup {i} /\ ws[clients[i]] = "gone" /\ ws' = ws
    BY <1>3 DEF Visit, handlers
  <2>2. clients[i] \in Sessions /\ Id[clients[i]] = i
    BY <1>3 DEF Visit, Registered, StreamInv, StreamTypeOK, Owned
  <2>3. QED
    BY <1>1, <2>1, <2>2 DEF BrokenGone
<1>4. ASSUME Drained, ~(broken' \subseteq broken)
      PROVE  BrokenGone'
  <2>1. cur \in Sessions /\ ws[cur] \in {"open", "gone"}
    BY <1>4 DEF Drained, StreamInv, Accepted, StreamTypeOK
  <2>2. broken' = broken \cup {Id[cur]} /\ ws[cur] = "gone" /\ ws' = ws
    BY <1>4, <2>1 DEF Drained, handlers
  <2>3. QED
    BY <1>1, <2>1, <2>2 DEF BrokenGone
<1>5. ~(broken' \subseteq broken) => (\E i \in Ids : Visit(i)) \/ Drained
  BY DEF StreamNext, Handler, Broadcast, Connect, PeerLeaves, HandlerEnds, CloseOne,
     Capture, Stop, BeginRound, RoundEnds, RoundAborted, RoundOver, streamVars, round
<1>6. QED
  BY <1>2, <1>3, <1>4, <1>5

LEMMA KeptStep ==
  ASSUME StreamInv, [StreamNext]_streamVars
  PROVE  KeptRegistered'
<1> SUFFICES ASSUME NEW s \in Sessions, handler'[s] = "loop", ws'[s] = "open",
                    \A u \in Sessions \ {s} : Id[u] = Id[s] => handler'[u] = "none"
             PROVE  clients'[Id[s]] = s
  BY DEF KeptRegistered
<1> USE IdAssumption DEF StreamInv, StreamTypeOK
<1>1. \A u \in Sessions \ {s} : Id[u] = Id[s] => handler[u] = "none"
  BY Monotone
<1>2. ASSUME NEW u \in Sessions, Connect(u)
      PROVE  clients'[Id[s]] = s
  <2>1. CASE u = s
    BY <1>2, <2>1 DEF Connect
  <2>2. CASE u # s
    BY <1>1, <1>2, <2>2 DEF Connect, KeptRegistered
  <2>3. QED
    BY <2>1, <2>2
<1>3. ASSUME NEW u \in Sessions, HandlerEnds(u)
      PROVE  clients'[Id[s]] = s
  BY <1>1, <1>3 DEF HandlerEnds, KeptRegistered
<1>4. CASE RoundEnds
  <2>1. handler[s] = "loop" /\ ws[s] = "open"
    BY <1>4 DEF RoundEnds, RoundOver, handlers
  <2>2. clients[Id[s]] = s
    BY <1>1, <2>1 DEF KeptRegistered
  <2>3. Id[s] \notin broken
    BY <1>1, <2>1 DEF BrokenGone, Accepted
  <2>4. QED
    BY <1>4, <2>2, <2>3 DEF RoundEnds
<1>5. ASSUME UNCHANGED clients, handler' = handler, ws[s] = "open"
      PROVE  clients'[Id[s]] = s
  BY <1>1, <1>5 DEF KeptRegistered
<1>6. ASSUME NEW u \in Sessions, PeerLeaves(u) \/ CloseOne(u)
      PROVE  clients'[Id[s]] = s
  BY <1>5, <1>6 DEF PeerLeaves, CloseOne
<1>7. CASE Capture \/ Stop \/ BeginRound \/ Drained \/ RoundAborted
           \/ (\E i \in Ids : Visit(i)) \/ UNCHANGED streamVars
  BY <1>5, <1>7 DEF Capture, Stop, BeginRound, Drained, RoundAborted, RoundOver,
     Visit, streamVars, handlers
<1>8. QED
  BY <1>2, <1>3, <1>4, <1>6, <1>7 DEF StreamNext, Handler, Broadcast

LEMMA StreamHolds == StreamSpec => []StreamInv
<1>1. StreamInv /\ [StreamNext]_streamVars => StreamInv'
  BY StreamTypeStep, OwnedStep, AcceptedStep, BrokenStep, KeptStep DEF StreamInv
<1>2. QED
  BY StreamStart, <1>1, PTL DEF StreamSpec

\* Every variable keeps its type, for any sessions and ids.
THEOREM StreamType == StreamSpec => []StreamTypeOK
BY StreamHolds, PTL DEF StreamInv

\* Nobody is registered whose handler has returned: HandlerEnds deletes by
\* id, and an id is only ever held by a session with a running handler.
THEOREM NobodyIsAGhost == StreamSpec => []NoGhost
<1>1. StreamInv => NoGhost
  BY DEF StreamInv, Owned, NoGhost
<1>2. QED
  BY StreamHolds, <1>1, PTL

\* A connected client stays registered unless another session has used its id.
THEOREM OwnIdIsKept == StreamSpec => []KeptRegistered
BY StreamHolds, PTL DEF StreamInv

\* "Broadcast frames to all connected clients.": whoever is connected is
\* registered, if no two sessions ever have one id.  That is all the promise
\* lacks: with two phones it is broken.
THEOREM DistinctIdsConnected ==
  ASSUME \A s, u \in Sessions : Id[s] = Id[u] => s = u
  PROVE  StreamSpec => []ConnectedRegistered
<1>1. KeptRegistered => ConnectedRegistered
  BY DEF KeptRegistered, ConnectedRegistered
<1>2. QED
  BY <1>1, OwnIdIsKept, PTL

(***************************************************************************)
(* The registry of API keys.                                               *)
(***************************************************************************)

\* Ids are made in order, and none is in a dictionary before it is made.
MadeInOrder ==
  /\ \A i \in KeyIds : byId[i] # NoKey => i <= ids
  /\ \A x \in Secrets : Known(x) => keys[x] <= ids

RegistryInv == APIKeyTypeOK /\ MadeInOrder /\ ShownIdRevokes

LEMMA RegistryStep == RegistryInv /\ [APIKeyNext]_apiKeyVars => RegistryInv'
<1> SUFFICES ASSUME RegistryInv, [APIKeyNext]_apiKeyVars PROVE RegistryInv'
  OBVIOUS
<1> USE APIKeyBounds DEF RegistryInv, APIKeyTypeOK, MadeInOrder, ShownIdRevokes, Known, KeyIds
<1>1. ASSUME NEW x \in Secrets, Pair(x) PROVE RegistryInv'
  <2>1. ids + 1 \in KeyIds /\ byId[ids + 1] = NoKey
    BY <1>1 DEF Pair
  <2>2. APIKeyTypeOK'
    BY <1>1, <2>1 DEF Pair
  <2>3. MadeInOrder'
    BY <1>1, <2>1 DEF Pair
  <2>4. ShownIdRevokes'
    BY <1>1, <2>1 DEF Pair
  <2>5. QED
    BY <2>2, <2>3, <2>4
<1>2. ASSUME NEW i \in KeyIds, RevokeKey(i) PROVE RegistryInv'
  <2>1. byId[i] \in Secrets
    BY <1>2 DEF RevokeKey
  <2>2. APIKeyTypeOK'
    BY <1>2, <2>1 DEF RevokeKey
  <2>3. MadeInOrder'
    BY <1>2, <2>1 DEF RevokeKey
  <2>4. ShownIdRevokes'
    BY <1>2, <2>1 DEF RevokeKey
  <2>5. QED
    BY <2>2, <2>3, <2>4
<1>3. ASSUME NEW x \in Secrets, RevokeOwn(x) PROVE RegistryInv'
  <2>1. keys[x] \in KeyIds /\ RevokeKey(keys[x])
    BY <1>3 DEF RevokeOwn
  <2>2. QED
    BY <2>1, <1>2
<1>4. ASSUME NEW m \in Machines, RevokeMachine(m) PROVE RegistryInv'
  BY <1>4 DEF RevokeMachine
<1>5. ASSUME NEW x \in Secrets, TokenExpires(x) PROVE RegistryInv'
  BY <1>5 DEF TokenExpires
<1>6. ASSUME UNCHANGED apiKeyVars PROVE RegistryInv'
  BY <1>6 DEF apiKeyVars
<1>7. QED
  BY <1>1, <1>2, <1>3, <1>4, <1>5, <1>6 DEF APIKeyNext

LEMMA RegistryStart == APIKeyInit => RegistryInv
BY APIKeyBounds DEF APIKeyInit, RegistryInv, APIKeyTypeOK, MadeInOrder, ShownIdRevokes, Known,
                    KeyIds

\* The id shown for a secret that opens the server is one that revoke() finds
\* and that names this secret, whatever was paired again or revoked before, for
\* any tokens, machines and ids.
THEOREM ShownIdIsRevocable == APIKeySpec => []ShownIdRevokes
<1>1. RegistryInv => ShownIdRevokes
  BY DEF RegistryInv
<1>2. QED
  BY <1>1, RegistryStart, RegistryStep, PTL DEF APIKeySpec

(***************************************************************************)
(* Credentials.                                                            *)
(***************************************************************************)

\* What the program forgets when it is killed, and what no key has before it
\* is made.
Blank ==
  /\ ~up => meta = NoEntry /\ cache = NoSecret /\ inCall = Idle
  /\ \A k \in Keys : k > keysMade =>
       /\ meta[k] = "none" /\ index[k] = "none"
       /\ cache[k] = None /\ sealed[k] = None /\ shown[k] = None

\* No secret is used before it is made.
Numbered ==
  /\ \A k \in Keys : /\ cache[k] <= secretsMade /\ shown[k] <= secretsMade
                     /\ sealed[k] # Torn => sealed[k] <= secretsMade
  /\ \A x \in retired : x <= secretsMade

\* The secret a call brings is new, and nobody but its key has it; so it is
\* with the secret that was given out for a key.
OneOwner ==
  /\ inCall # Idle /\ inCall.secret # None =>
       /\ inCall.secret \notin retired
       /\ \A k \in Keys : shown[k] # inCall.secret
       /\ \A k \in Keys \ {inCall.key} : cache[k] # inCall.secret /\ sealed[k] # inCall.secret
  /\ \A j, k \in Keys : j # k /\ shown[k] # None =>
       cache[j] # shown[k] /\ sealed[j] # shown[k]

\* What a call has done so far.
Progress ==
  inCall # Idle =>
    /\ cache[inCall.key] = inCall.secret /\ meta[inCall.key] # "none"
    /\ inCall.op = "create" => shown[inCall.key] = None
    /\ inCall.op # "revoke" => inCall.secret # None
    /\ inCall.op = "revoke" => inCall.secret = None /\ meta[inCall.key] = "revoked"
    /\ inCall.onDisk => \/ inCall.next # "secret" /\ sealed[inCall.key] = inCall.secret
                        \/ /\ inCall.op = "revoke" /\ inCall.next = "return"
                           /\ index[inCall.key] = "revoked"

\* A retired secret that is still kept anywhere belongs to an entry that is
\* revoked, or gone, in memory and on disk.
DeadIfKept ==
  \A x \in retired, k \in Keys :
    cache[k] = x \/ sealed[k] = x => meta[k] # "good" /\ index[k] # "good"

StoreInv == StoreTypeOK /\ Blank /\ Numbered /\ OneOwner /\ Progress /\ DeadIfKept

\* A call is not Idle.
LEMMA CallNotIdle == \A c \in Call : c # Idle
<1> SUFFICES ASSUME NEW c \in Call PROVE c # Idle
  OBVIOUS
<1>1. c.op # Idle.op
  BY DEF Call, Idle, Ops
<1>2. QED
  BY <1>1

\* Secrets are numbers.
LEMMA Numbers ==
  ASSUME StoreTypeOK
  PROVE  /\ keysMade \in Int /\ secretsMade \in Int /\ secretsMade < Torn /\ Torn \in Int
         /\ \A k \in Keys : cache[k] \in Int /\ sealed[k] \in Int /\ shown[k] \in Int
         /\ \A x \in retired : x \in Int
BY StoreBounds DEF StoreTypeOK, Torn

LEMMA StoreInitInv == StoreInit => StoreInv
<1> SUFFICES ASSUME StoreInit PROVE StoreInv
  OBVIOUS
<1> USE StoreBounds DEF StoreInit, Keys, None, Torn, Entry, NoEntry, NoSecret
<1>1. StoreTypeOK
  <2>1. meta \in [Keys -> Entry] /\ index \in [Keys -> Entry]
    OBVIOUS
  <2>2. /\ cache \in [Keys -> 0..MaxSecrets] /\ shown \in [Keys -> 0..MaxSecrets]
        /\ sealed \in [Keys -> 0..Torn]
    OBVIOUS
  <2>3. /\ overdue \subseteq Keys /\ retired \subseteq 1..MaxSecrets
        /\ inCall \in Call \cup {Idle} /\ up \in BOOLEAN /\ damaged \in BOOLEAN
    OBVIOUS
  <2>4. keysMade \in 0..MaxKeys /\ secretsMade \in 0..MaxSecrets /\ mishaps \in 0..MaxMishaps
    OBVIOUS
  <2>5. QED
    BY <2>1, <2>2, <2>3, <2>4 DEF StoreTypeOK
<1>2. Blank /\ Numbered
  BY DEF Blank, Numbered
<1>3. OneOwner /\ Progress /\ DeadIfKept
  BY DEF OneOwner, Progress, DeadIfKept
<1>4. QED
  BY <1>1, <1>2, <1>3 DEF StoreInv

\* The calls begin.
LEMMA CreateKeeps == StoreInv /\ CreateKey => StoreInv'
<1> SUFFICES ASSUME StoreInv, CreateKey PROVE StoreInv'
  OBVIOUS
<1> USE StoreBounds DEF StoreInv, Keys, None, Entry
<1> DEFINE k == keysMade + 1
           x == secretsMade + 1
<1>1. /\ k \in Keys /\ x \in 1..MaxSecrets /\ x \in Int /\ secretsMade < x
      /\ inCall = Idle /\ up
  BY DEF CreateKey, Ready, StoreTypeOK
<1>2. /\ meta' = [meta EXCEPT ![k] = "good"] /\ cache' = [cache EXCEPT ![k] = x]
      /\ keysMade' = k /\ secretsMade' = x
      /\ inCall' = [op |-> "create", key |-> k, next |-> "secret", secret |-> x, onDisk |-> FALSE]
      /\ UNCHANGED <<index, sealed, overdue, up, shown, retired, mishaps, damaged>>
  BY DEF CreateKey, disk
<1>3. inCall' \in Call
  BY <1>1, <1>2 DEF Call, Ops
<1>4. /\ cache[k] = None /\ sealed[k] = None /\ shown[k] = None
      /\ \A j \in Keys : j > k => j > keysMade
  BY <1>1 DEF Blank, StoreTypeOK
<1>5. /\ \A j \in Keys : cache'[j] = (IF j = k THEN x ELSE cache[j])
      /\ \A j \in Keys : meta'[j] = (IF j = k THEN "good" ELSE meta[j])
  BY <1>1, <1>2 DEF StoreTypeOK
<1>6. /\ \A j \in Keys : cache[j] # x /\ sealed[j] # x /\ shown[j] # x
      /\ x \notin retired
  BY <1>1, Numbers DEF Numbered, Torn
<1> HIDE DEF k, x
<1>7. StoreTypeOK'
  <2>1. meta' \in [Keys -> Entry] /\ cache' \in [Keys -> 0..MaxSecrets]
    BY <1>1, <1>2 DEF StoreTypeOK
  <2>2. keysMade' \in 0..MaxKeys /\ secretsMade' \in 0..MaxSecrets
    BY <1>1, <1>2
  <2>3. QED
    BY <1>2, <1>3, <2>1, <2>2 DEF StoreTypeOK
<1>8. Blank'
  BY <1>1, <1>2, <1>4, <1>5 DEF Blank
<1>9. Numbered'
  BY <1>1, <1>2, <1>5, Numbers DEF Numbered
<1>10. OneOwner'
  BY <1>1, <1>2, <1>5, <1>6 DEF OneOwner
<1>11. Progress'
  BY <1>1, <1>2, <1>4, <1>5 DEF Progress
<1>12. DeadIfKept'
  BY <1>2, <1>4, <1>5, <1>6 DEF DeadIfKept, StoreTypeOK
<1>13. QED
  BY <1>7, <1>8, <1>9, <1>10, <1>11, <1>12

LEMMA RotateKeeps ==
  ASSUME StoreInv, NEW k \in Keys, RotateKey(k)
  PROVE  StoreInv'
<1> USE StoreBounds DEF StoreInv, Keys, None, Entry
<1> DEFINE x == secretsMade + 1
<1>1. /\ x \in 1..MaxSecrets /\ x \in Int /\ secretsMade < x
      /\ inCall = Idle /\ up /\ meta[k] # "none"
  BY DEF RotateKey, Ready, StoreTypeOK
<1>2. /\ cache' = [cache EXCEPT ![k] = x] /\ secretsMade' = x
      /\ inCall' = [op |-> "rotate", key |-> k, next |-> "secret", secret |-> x, onDisk |-> FALSE]
      /\ UNCHANGED <<meta, index, sealed, overdue, up, keysMade, shown, retired, mishaps, damaged>>
  BY DEF RotateKey, disk
<1>3. inCall' \in Call
  BY <1>1, <1>2 DEF Call, Ops
<1>4. \A j \in Keys : cache'[j] = (IF j = k THEN x ELSE cache[j])
  BY <1>2 DEF StoreTypeOK
<1>5. /\ \A j \in Keys : cache[j] # x /\ sealed[j] # x /\ shown[j] # x
      /\ x \notin retired
  BY <1>1, Numbers DEF Numbered, Torn
<1>6. k <= keysMade
  BY <1>1 DEF Blank, StoreTypeOK
<1> HIDE DEF x
<1>7. StoreTypeOK'
  <2>1. cache' \in [Keys -> 0..MaxSecrets] /\ secretsMade' \in 0..MaxSecrets
    BY <1>1, <1>2 DEF StoreTypeOK
  <2>2. QED
    BY <1>2, <1>3, <2>1 DEF StoreTypeOK
<1>8. Blank'
  BY <1>1, <1>2, <1>4, <1>6 DEF Blank, StoreTypeOK
<1>9. Numbered'
  BY <1>1, <1>2, <1>4, Numbers DEF Numbered
<1>10. OneOwner'
  BY <1>1, <1>2, <1>4, <1>5 DEF OneOwner
<1>11. Progress'
  BY <1>1, <1>2, <1>4 DEF Progress
<1>12. DeadIfKept'
  BY <1>2, <1>4, <1>5 DEF DeadIfKept, StoreTypeOK
<1>13. QED
  BY <1>7, <1>8, <1>9, <1>10, <1>11, <1>12

LEMMA RevokeKeeps ==
  ASSUME StoreInv, NEW k \in Keys, RevokeCredential(k)
  PROVE  StoreInv'
<1> USE StoreBounds DEF StoreInv, Keys, None, Entry
<1>1. inCall = Idle /\ up /\ meta[k] # "none"
  BY DEF RevokeCredential, Ready
<1>2. /\ meta' = [meta EXCEPT ![k] = "revoked"] /\ cache' = [cache EXCEPT ![k] = 0]
      /\ inCall' = [op |-> "revoke", key |-> k, next |-> "secret", secret |-> 0, onDisk |-> FALSE]
      /\ UNCHANGED <<index, sealed, overdue, up, keysMade, secretsMade, shown, retired, mishaps, damaged>>
  BY DEF RevokeCredential, disk, ledger
<1>3. inCall' \in Call
  BY <1>2 DEF Call, Ops
<1>4. /\ \A j \in Keys : cache'[j] = (IF j = k THEN 0 ELSE cache[j])
      /\ \A j \in Keys : meta'[j] = (IF j = k THEN "revoked" ELSE meta[j])
  BY <1>2 DEF StoreTypeOK
<1>5. k <= keysMade
  BY <1>1, Numbers DEF Blank
<1>6. StoreTypeOK'
  <2>1. cache' \in [Keys -> 0..MaxSecrets] /\ meta' \in [Keys -> Entry]
    BY <1>2 DEF StoreTypeOK
  <2>2. QED
    BY <1>2, <1>3, <2>1 DEF StoreTypeOK
<1>7. Blank'
  BY <1>1, <1>2, <1>4, <1>5, Numbers DEF Blank
<1>8. Numbered'
  BY <1>2, <1>4, Numbers DEF Numbered, StoreTypeOK
<1>9. OneOwner'
  BY <1>1, <1>2, <1>4 DEF OneOwner
<1>10. Progress'
  BY <1>1, <1>2, <1>4 DEF Progress
<1>11. DeadIfKept'
  BY <1>2, <1>4 DEF DeadIfKept, StoreTypeOK
<1>12. QED
  BY <1>6, <1>7, <1>8, <1>9, <1>10, <1>11

LEMMA ValidateKeeps ==
  ASSUME StoreInv, NEW x \in 1..MaxSecrets, Validate(x)
  PROVE  StoreInv'
<1> USE StoreBounds DEF StoreInv, Keys, None, Entry
<1>1. inCall = Idle /\ up
  BY DEF Validate, Ready
<1>2. UNCHANGED <<meta, index, sealed, overdue, inCall, up, keysMade, secretsMade, shown, retired,
                  mishaps, damaged>>
  BY DEF Validate, disk, ledger
<1>3. PICK read \in SUBSET Keys :
        /\ \A k \in read : cache[k] = None /\ sealed[k] \notin {None, Torn} /\ meta[k] # "none"
        /\ cache' = [k \in Keys |-> IF k \in read THEN sealed[k] ELSE cache[k]]
  <2> DEFINE unread == {k \in Keys : meta[k] # "none" /\ cache[k] = None
                                     /\ sealed[k] \notin {None, Torn}}
             read == {k \in unread : \A j \in unread : sealed[j] = x => k <= j}
  <2>1. cache' = [k \in Keys |-> IF k \in read THEN sealed[k] ELSE cache[k]]
    BY DEF Validate
  <2>2. read \in SUBSET Keys
    OBVIOUS
  <2>3. QED
    BY <2>1, <2>2
<1>4. \A k \in Keys : cache'[k] = cache[k] \/ cache'[k] = sealed[k]
  BY <1>3
<1>5. StoreTypeOK'
  <2>1. ASSUME NEW k \in Keys PROVE (IF k \in read THEN sealed[k] ELSE cache[k]) \in 0..MaxSecrets
    <3>1. sealed[k] \in 0..(MaxSecrets + 1) /\ cache[k] \in 0..MaxSecrets
      BY DEF StoreTypeOK, Torn
    <3>2. k \in read => sealed[k] # MaxSecrets + 1
      BY <1>3 DEF Torn
    <3>3. QED
      BY <3>1, <3>2
  <2>2. cache' \in [Keys -> 0..MaxSecrets]
    BY <1>3, <2>1
  <2>3. QED
    BY <1>2, <2>2 DEF StoreTypeOK
<1>6. Blank'
  BY <1>1, <1>2, <1>4 DEF Blank
<1>7. Numbered'
  <2>1. ASSUME NEW k \in Keys PROVE cache'[k] <= secretsMade
    BY <1>3, Numbers DEF Numbered
  <2>2. QED
    BY <1>2, <2>1 DEF Numbered
<1>8. OneOwner'
  BY <1>1, <1>2, <1>4 DEF OneOwner
<1>9. Progress'
  BY <1>1, <1>2 DEF Progress
<1>10. DeadIfKept'
  BY <1>2, <1>4 DEF DeadIfKept
<1>11. QED
  BY <1>5, <1>6, <1>7, <1>8, <1>9, <1>10

\* The writes.  A call in progress is a Call.
LEMMA CallType ==
  ASSUME StoreTypeOK, inCall # Idle
  PROVE  /\ inCall \in Call
         /\ inCall.key \in Keys /\ inCall.secret \in 0..MaxSecrets /\ inCall.secret # Torn
         /\ inCall.op \in Ops
BY StoreBounds DEF StoreTypeOK, Call, Torn

\* A step that leaves memory and ledger alone and only moves the disk and the
\* progress of the call.
OnlyDisk ==
  /\ up /\ inCall # Idle
  /\ index' \in [Keys -> Entry] /\ sealed' \in [Keys -> 0..Torn] /\ inCall' \in Call
  /\ mishaps' \in 0..MaxMishaps /\ damaged' \in BOOLEAN
  /\ UNCHANGED <<meta, cache, overdue, up, keysMade, secretsMade, shown, retired>>
  /\ inCall'.op = inCall.op /\ inCall'.key = inCall.key /\ inCall'.secret = inCall.secret
  /\ \A k \in Keys : \/ sealed'[k] = sealed[k]
                     \/ k = inCall.key /\ sealed'[k] \in {inCall.secret, Torn}
  /\ \A k \in Keys : index'[k] \in {index[k], "none", meta[k]}
  /\ inCall'.onDisk => \/ inCall'.next # "secret" /\ sealed'[inCall.key] = inCall.secret
                       \/ /\ inCall.op = "revoke" /\ inCall'.next = "return"
                          /\ index'[inCall.key] = "revoked"

LEMMA WriteKeeps ==
  ASSUME StoreInv, OnlyDisk
  PROVE  StoreInv'
<1> USE StoreBounds DEF StoreInv, OnlyDisk, Keys, None
<1>1. inCall.key \in Keys /\ inCall.secret # Torn /\ inCall.secret \in Int /\ Torn # None
  BY CallType, Numbers DEF Torn
<1>2. inCall' # Idle
  BY CallNotIdle
<1>3. StoreTypeOK'
  BY DEF StoreTypeOK
<1>4. inCall.key <= keysMade
  BY <1>1, Numbers DEF Progress, Blank
<1>5. Blank'
  <2>1. ASSUME NEW k \in Keys, k > keysMade
        PROVE  /\ meta[k] = "none" /\ index'[k] = "none"
               /\ cache[k] = None /\ sealed'[k] = None /\ shown[k] = None
    <3>1. k # inCall.key
      BY <1>1, <1>4, <2>1, Numbers
    <3>2. QED
      BY <2>1, <3>1 DEF Blank
  <2>2. QED
    BY <2>1 DEF Blank
<1>6. Numbered'
  BY <1>1, Numbers DEF Numbered, Progress
<1>7. OneOwner'
  <2>1. ASSUME inCall.secret # None
        PROVE  /\ inCall.secret \notin retired
               /\ \A k \in Keys : shown[k] # inCall.secret
               /\ \A k \in Keys \ {inCall.key} : cache[k] # inCall.secret /\ sealed'[k] # inCall.secret
    BY <2>1 DEF OneOwner
  <2>2. ASSUME NEW j \in Keys, NEW k \in Keys, j # k, shown[k] # None
        PROVE  cache[j] # shown[k] /\ sealed'[j] # shown[k]
    <3>1. sealed'[j] = sealed[j] \/ sealed'[j] = inCall.secret \/ sealed'[j] = Torn
      OBVIOUS
    <3>2. shown[k] # Torn
      BY Numbers DEF Numbered
    <3>3. inCall.secret # shown[k]
      BY <2>2 DEF OneOwner
    <3>4. QED
      BY <2>2, <3>1, <3>2, <3>3 DEF OneOwner
  <2>3. QED
    BY <2>1, <2>2 DEF OneOwner
<1>8. Progress'
  BY <1>1 DEF Progress
<1>9. DeadIfKept'
  <2> SUFFICES ASSUME NEW x \in retired, NEW k \in Keys, cache[k] = x \/ sealed'[k] = x
               PROVE  meta[k] # "good" /\ index'[k] # "good"
    BY DEF DeadIfKept
  <2>1. x # Torn /\ x # None
    BY Numbers DEF StoreTypeOK, Torn
  <2>2. x # inCall.secret
    BY <2>1 DEF OneOwner
  <2>3. cache[k] = x \/ sealed[k] = x
    BY <2>1, <2>2
  <2>4. meta[k] # "good" /\ index[k] # "good"
    BY <2>3 DEF DeadIfKept
  <2>5. QED
    BY <2>4
<1>10. QED
  BY <1>3, <1>5, <1>6, <1>7, <1>8, <1>9

LEMMA WriteSecretKeeps == StoreInv /\ (WriteSecret \/ WriteSecretFails) => StoreInv'
<1> SUFFICES ASSUME StoreInv, WriteSecret \/ WriteSecretFails PROVE StoreInv'
  OBVIOUS
<1> DEFINE c == inCall
           key == inCall.key
           secret == inCall.secret
<1>0. /\ up /\ inCall # Idle /\ inCall \in Call /\ key \in Keys
      /\ secret \in 0..MaxSecrets /\ StoreTypeOK /\ c.next = "secret"
  BY CallType DEF WriteSecret, WriteSecretFails, StoreInv
<1>1. UNCHANGED <<meta, cache, overdue, up, keysMade, secretsMade, shown, retired>>
  BY DEF WriteSecret, WriteSecretFails, ledger
<1>2. index' = index
  BY DEF WriteSecret, WriteSecretFails
<1>3. index' \in [Keys -> Entry] /\ \A k \in Keys : index'[k] \in {index[k], "none", meta[k]}
  BY <1>0, <1>2 DEF StoreTypeOK
<1>4. ASSUME WriteSecret PROVE StoreInv'
  <2>1. inCall' = [inCall EXCEPT !.next = "index", !.onDisk = TRUE]
    BY <1>4 DEF WriteSecret
  <2>2. /\ inCall' \in Call /\ inCall'.op = c.op /\ inCall'.key = key
        /\ inCall'.secret = secret /\ inCall'.next = "index"
    BY <1>0, <2>1 DEF Call
  <2>3. /\ sealed' \in [Keys -> 0..Torn] /\ sealed'[key] = secret
        /\ \A k \in Keys : k # key => sealed'[k] = sealed[k]
    BY <1>0, <1>4, StoreBounds DEF WriteSecret, StoreTypeOK, Torn
  <2>4. mishaps' \in 0..MaxMishaps /\ damaged' \in BOOLEAN
    BY <1>0, <1>4 DEF WriteSecret, StoreTypeOK
  <2>5. inCall'.onDisk => \/ inCall'.next # "secret" /\ sealed'[key] = secret
                          \/ /\ c.op = "revoke" /\ inCall'.next = "return"
                             /\ index'[key] = "revoked"
    BY <2>2, <2>3
  <2>6. \A k \in Keys : \/ sealed'[k] = sealed[k]
                        \/ k = key /\ sealed'[k] \in {secret, Torn}
    BY <2>3
  <2>7. QED
    BY <1>0, <1>1, <1>3, <2>2, <2>3, <2>4, <2>5, <2>6, WriteKeeps DEF OnlyDisk
<1>5. ASSUME WriteSecretFails PROVE StoreInv'
  <2>1. inCall' = [inCall EXCEPT !.next = "index"]
    BY <1>5 DEF WriteSecretFails
  <2>2. /\ inCall' \in Call /\ inCall'.op = c.op /\ inCall'.key = key
        /\ inCall'.secret = secret /\ inCall'.onDisk = c.onDisk
    BY <1>0, <2>1 DEF Call
  <2>3. sealed' = sealed \/ sealed' = [sealed EXCEPT ![key] = Torn]
    BY <1>5 DEF WriteSecretFails
  <2>4. /\ sealed' \in [Keys -> 0..Torn]
        /\ \A k \in Keys : \/ sealed'[k] = sealed[k]
                           \/ k = key /\ sealed'[k] \in {secret, Torn}
    BY <1>0, <2>3, StoreBounds DEF StoreTypeOK, Torn
  <2>5. mishaps' \in 0..MaxMishaps /\ damaged' \in BOOLEAN
    BY <1>0, <1>5, StoreBounds DEF WriteSecretFails, Mishap, StoreTypeOK
  <2>6. ~inCall'.onDisk
    BY <1>0, <2>2 DEF StoreInv, Progress
  <2>7. QED
    BY <1>0, <1>1, <1>3, <2>2, <2>4, <2>5, <2>6, WriteKeeps DEF OnlyDisk
<1>6. QED
  BY <1>4, <1>5

LEMMA WriteIndexKeeps == StoreInv /\ (WriteIndex \/ WriteIndexFails) => StoreInv'
<1> SUFFICES ASSUME StoreInv, WriteIndex \/ WriteIndexFails PROVE StoreInv'
  OBVIOUS
<1> DEFINE c == inCall
           key == inCall.key
           secret == inCall.secret
<1>0. /\ up /\ inCall # Idle /\ inCall \in Call /\ key \in Keys
      /\ secret \in 0..MaxSecrets /\ StoreTypeOK /\ c.next = "index"
  BY CallType DEF WriteIndex, WriteIndexFails, StoreInv
<1>1. UNCHANGED <<meta, cache, overdue, up, keysMade, secretsMade, shown, retired>>
  BY DEF WriteIndex, WriteIndexFails, ledger
<1>2. sealed' = sealed
  BY DEF WriteIndex, WriteIndexFails
<1>3. /\ sealed' \in [Keys -> 0..Torn]
      /\ \A k \in Keys : \/ sealed'[k] = sealed[k]
                         \/ k = key /\ sealed'[k] \in {secret, Torn}
  BY <1>0, <1>2 DEF StoreTypeOK
<1>4. ASSUME WriteIndex PROVE StoreInv'
  <2>1. inCall' = [inCall EXCEPT !.next = "return", !.onDisk = @ \/ inCall.op = "revoke"]
    BY <1>4 DEF WriteIndex
  <2>2. /\ inCall' \in Call /\ inCall'.op = c.op /\ inCall'.key = key
        /\ inCall'.secret = secret /\ inCall'.next = "return"
        /\ inCall'.onDisk <=> (c.onDisk \/ c.op = "revoke")
    <3>1. c.onDisk \in BOOLEAN
      BY <1>0 DEF Call
    <3>2. (c.onDisk \/ c.op = "revoke") \in BOOLEAN
      BY <3>1
    <3>3. QED
      BY <1>0, <2>1, <3>2 DEF Call
  <2>3. /\ index' \in [Keys -> Entry] /\ index' = meta
        /\ \A k \in Keys : index'[k] \in {index[k], "none", meta[k]}
    BY <1>0, <1>4 DEF WriteIndex, StoreTypeOK
  <2>4. mishaps' \in 0..MaxMishaps /\ damaged' \in BOOLEAN
    BY <1>0, <1>4 DEF WriteIndex, StoreTypeOK
  <2>5. c.op = "revoke" => index'[key] = "revoked"
    BY <1>0, <2>3 DEF StoreInv, Progress
  <2>6. inCall'.onDisk => \/ inCall'.next # "secret" /\ sealed'[key] = secret
                          \/ /\ c.op = "revoke" /\ inCall'.next = "return"
                             /\ index'[key] = "revoked"
    BY <1>0, <1>2, <2>2, <2>5 DEF StoreInv, Progress
  <2>7. QED
    BY <1>0, <1>1, <1>3, <2>2, <2>3, <2>4, <2>6, WriteKeeps DEF OnlyDisk
<1>5. ASSUME WriteIndexFails PROVE StoreInv'
  <2>1. inCall' = [inCall EXCEPT !.next = "return"]
    BY <1>5 DEF WriteIndexFails
  <2>2. /\ inCall' \in Call /\ inCall'.op = c.op /\ inCall'.key = key
        /\ inCall'.secret = secret /\ inCall'.next = "return" /\ inCall'.onDisk = c.onDisk
    BY <1>0, <2>1 DEF Call
  <2>3. index' = index \/ index' = NoEntry
    BY <1>5 DEF WriteIndexFails
  <2>4. /\ index' \in [Keys -> Entry]
        /\ \A k \in Keys : index'[k] \in {index[k], "none", meta[k]}
    BY <1>0, <2>3 DEF StoreTypeOK, NoEntry, Entry
  <2>5. mishaps' \in 0..MaxMishaps /\ damaged' \in BOOLEAN
    BY <1>0, <1>5, StoreBounds DEF WriteIndexFails, Mishap, StoreTypeOK
  <2>6. c.onDisk => sealed'[key] = secret
    BY <1>0, <1>2 DEF StoreInv, Progress
  <2>7. QED
    BY <1>0, <1>1, <1>3, <2>2, <2>4, <2>5, <2>6, WriteKeeps DEF OnlyDisk
<1>6. QED
  BY <1>4, <1>5

LEMMA ReturnKeeps == StoreInv /\ CallReturns => StoreInv'
<1> SUFFICES ASSUME StoreInv, CallReturns PROVE StoreInv'
  OBVIOUS
<1> DEFINE key == inCall.key
           secret == inCall.secret
           old == shown[key]
<1>0. /\ up /\ inCall # Idle /\ inCall \in Call /\ key \in Keys
      /\ secret \in 0..MaxSecrets /\ secret \in Int /\ inCall.op \in Ops /\ StoreTypeOK
      /\ inCall.next = "return"
  BY CallType, StoreBounds DEF CallReturns, StoreInv
<1>1. /\ retired' = IF inCall.onDisk THEN (retired \cup {old}) \ {None} ELSE retired
      /\ shown' = [shown EXCEPT ![key] = secret]
      /\ inCall' = Idle
      /\ UNCHANGED <<meta, cache, index, sealed, overdue, up, keysMade, secretsMade, mishaps,
                     damaged>>
  BY DEF CallReturns, disk
<1>2. \A k \in Keys : shown'[k] = (IF k = key THEN secret ELSE shown[k])
  BY <1>0, <1>1 DEF StoreTypeOK
<1>3. old \in 0..MaxSecrets /\ \A x \in retired' : x \in retired \/ (inCall.onDisk /\ x = old /\ x # None)
  BY <1>0, <1>1 DEF StoreTypeOK
<1>4. StoreTypeOK'
  <2>1. shown' \in [Keys -> 0..MaxSecrets]
    BY <1>0, <1>1 DEF StoreTypeOK
  <2>2. retired' \subseteq 1..MaxSecrets
    <3>1. ASSUME NEW x \in retired' PROVE x \in 1..MaxSecrets
      <4>1. x \in 1..MaxSecrets \/ (x \in 0..MaxSecrets /\ x # 0)
        BY <1>0, <1>3 DEF StoreTypeOK, None
      <4>2. QED
        BY <4>1, StoreBounds
    <3>2. QED
      BY <3>1
  <2>3. QED
    BY <1>0, <1>1, <2>1, <2>2 DEF StoreTypeOK
<1>5. Blank'
  <2>1. key <= keysMade
    <3>1. meta[key] # "none" /\ key \in Int /\ keysMade \in Int
      BY <1>0, StoreBounds DEF StoreInv, Progress, StoreTypeOK, Keys
    <3>2. QED
      BY <1>0, <3>1 DEF StoreInv, Blank
  <2>2. ASSUME NEW k \in Keys, k > keysMade PROVE shown'[k] = None
    BY <1>0, <1>2, <2>1, <2>2, Numbers DEF StoreInv, Blank, Keys
  <2>3. QED
    BY <1>0, <1>1, <2>2 DEF StoreInv, Blank
<1>6. Numbered'
  <2>1. secret <= secretsMade /\ old <= secretsMade
    BY <1>0 DEF StoreInv, Progress, Numbered
  <2>2. QED
    BY <1>1, <1>2, <1>3, <2>1 DEF StoreInv, Numbered
<1>7. OneOwner'
  <2>1. ASSUME NEW j \in Keys, NEW k \in Keys, j # k, shown'[k] # None
        PROVE  cache[j] # shown'[k] /\ sealed[j] # shown'[k]
    BY <1>0, <1>2, <2>1 DEF StoreInv, OneOwner
  <2>2. QED
    BY <1>1, <2>1 DEF OneOwner
<1>8. Progress'
  BY <1>1 DEF Progress
<1>9. DeadIfKept'
  <2> SUFFICES ASSUME NEW x \in retired', NEW k \in Keys, cache[k] = x \/ sealed[k] = x
               PROVE  meta[k] # "good" /\ index[k] # "good"
    BY <1>1 DEF DeadIfKept
  <2>1. CASE x \in retired
    BY <2>1 DEF StoreInv, DeadIfKept
  <2>2. CASE inCall.onDisk /\ x = old /\ x # None
    <3>1. k = key
      BY <1>0, <2>2 DEF StoreInv, OneOwner
    <3>2. x # secret
      BY <1>0, <2>2 DEF StoreInv, OneOwner
    <3>3. sealed[key] # secret
      BY <1>0, <3>1, <3>2 DEF StoreInv, Progress
    <3>4. inCall.op = "revoke" /\ index[key] = "revoked"
      BY <1>0, <2>2, <3>3 DEF StoreInv, Progress
    <3>5. QED
      BY <1>0, <3>1, <3>4 DEF StoreInv, Progress
  <2>3. QED
    BY <1>3, <2>1, <2>2
<1>10. QED
  BY <1>4, <1>5, <1>6, <1>7, <1>8, <1>9 DEF StoreInv

\* What is torn, or gone, when the program is killed cannot open anything.
LEMMA KillKeeps == StoreInv /\ Killed => StoreInv'
<1> SUFFICES ASSUME StoreInv, Killed PROVE StoreInv'
  OBVIOUS
<1>0. StoreTypeOK
  BY DEF StoreInv
<1>1. /\ up' = FALSE /\ inCall' = Idle /\ meta' = NoEntry /\ cache' = NoSecret
      /\ UNCHANGED <<overdue, keysMade, secretsMade, shown, retired>>
  BY DEF Killed, ledger
<1>2. /\ sealed' \in [Keys -> 0..Torn]
      /\ \A k \in Keys : \/ sealed'[k] = sealed[k]
                         \/ k <= keysMade /\ sealed'[k] = Torn
  <2>1. CASE sealed' = sealed
    BY <1>0, <2>1 DEF StoreTypeOK
  <2>2. CASE inCall # Idle /\ sealed' = [sealed EXCEPT ![inCall.key] = Torn]
    <3>1. inCall.key \in Keys /\ Torn \in 0..Torn
      BY <1>0, <2>2, CallType, StoreBounds DEF Torn
    <3>2. inCall.key <= keysMade
      <4>1. meta[inCall.key] # "none" /\ inCall.key \in Int /\ keysMade \in Int
        BY <1>0, <2>2, <3>1, StoreBounds DEF StoreInv, Progress, StoreTypeOK, Keys
      <4>2. QED
        BY <3>1, <4>1 DEF StoreInv, Blank
    <3>3. QED
      BY <1>0, <2>2, <3>1, <3>2 DEF StoreTypeOK
  <2>3. QED
    BY <2>1, <2>2 DEF Killed, disk
<1>3. /\ index' \in [Keys -> Entry]
      /\ \A k \in Keys : index'[k] \in {index[k], "none"}
  BY <1>0 DEF Killed, disk, StoreTypeOK, NoEntry, Entry
<1>4. /\ \A k \in Keys : meta'[k] = "none" /\ cache'[k] = None
      /\ meta' \in [Keys -> Entry] /\ cache' \in [Keys -> 0..MaxSecrets]
  BY <1>1, StoreBounds DEF NoEntry, NoSecret, None, Entry
<1>5. StoreTypeOK'
  <2>1. mishaps' \in 0..MaxMishaps /\ damaged' \in BOOLEAN /\ up' \in BOOLEAN
    <3>1. damaged' = (damaged \/ inCall # Idle) /\ damaged \in BOOLEAN
      BY <1>0 DEF Killed, StoreTypeOK
    <3>2. (damaged \/ inCall # Idle) \in BOOLEAN
      BY <3>1
    <3>3. mishaps' \in 0..MaxMishaps
      BY <1>0, StoreBounds DEF Killed, StoreTypeOK
    <3>4. QED
      BY <1>1, <3>1, <3>2, <3>3
  <2>2. QED
    BY <1>0, <1>1, <1>2, <1>3, <1>4, <2>1 DEF StoreTypeOK
<1>6. Blank'
  <2>1. ASSUME NEW k \in Keys, k > keysMade
        PROVE  index'[k] = "none" /\ sealed'[k] = None /\ shown[k] = None
    <3>1. ~(k <= keysMade)
      BY <1>0, <2>1, Numbers, StoreBounds DEF Keys
    <3>2. QED
      BY <1>2, <1>3, <2>1, <3>1 DEF StoreInv, Blank
  <2>2. QED
    BY <1>1, <1>4, <2>1 DEF Blank
<1>7. Numbered'
  <2>1. \A k \in Keys : cache'[k] <= secretsMade
    BY <1>0, <1>4, StoreBounds DEF StoreTypeOK, None
  <2>2. QED
    BY <1>1, <1>2, <2>1 DEF StoreInv, Numbered, Torn
<1>8. OneOwner'
  <2>1. ASSUME NEW j \in Keys, NEW k \in Keys, j # k, shown[k] # None
        PROVE  cache'[j] # shown[k] /\ sealed'[j] # shown[k]
    <3>1. shown[k] # Torn
      BY <1>0, Numbers DEF StoreInv, Numbered
    <3>2. QED
      BY <1>2, <1>4, <2>1, <3>1 DEF StoreInv, OneOwner
  <2>2. QED
    BY <1>1, <2>1 DEF OneOwner
<1>9. Progress'
  BY <1>1 DEF Progress
<1>10. DeadIfKept'
  <2> SUFFICES ASSUME NEW x \in retired, NEW k \in Keys, cache'[k] = x \/ sealed'[k] = x
               PROVE  meta'[k] # "good" /\ index'[k] # "good"
    BY <1>1 DEF DeadIfKept
  <2>1. x # Torn /\ x # None
    BY <1>0, Numbers, StoreBounds DEF StoreTypeOK, Torn, None
  <2>2. sealed[k] = x
    BY <1>2, <1>4, <2>1
  <2>3. QED
    BY <1>3, <1>4, <2>2 DEF StoreInv, DeadIfKept
<1>11. QED
  BY <1>5, <1>6, <1>7, <1>8, <1>9, <1>10 DEF StoreInv

LEMMA ReopenKeeps == StoreInv /\ Reopen => StoreInv'
<1> SUFFICES ASSUME StoreInv, Reopen PROVE StoreInv'
  OBVIOUS
<1>1. /\ up' /\ up' \in BOOLEAN /\ meta' = index /\ inCall = Idle /\ ~up
      /\ UNCHANGED <<cache, index, sealed, overdue, inCall, keysMade, secretsMade, shown, retired,
                     mishaps, damaged>>
  BY DEF Reopen, disk, ledger, StoreInv, Blank
<1>2. StoreTypeOK'
  BY <1>1 DEF StoreInv, StoreTypeOK
<1>3. Blank' /\ Numbered'
  BY <1>1 DEF StoreInv, Blank, Numbered
<1>4. OneOwner' /\ Progress'
  BY <1>1 DEF StoreInv, OneOwner, Progress
<1>5. DeadIfKept'
  BY <1>1 DEF StoreInv, DeadIfKept
<1>6. QED
  BY <1>2, <1>3, <1>4, <1>5 DEF StoreInv

LEMMA StoreStep == StoreInv /\ [StoreNext]_storeVars => StoreInv'
<1> SUFFICES ASSUME StoreInv, [StoreNext]_storeVars PROVE StoreInv'
  OBVIOUS
<1>1. ASSUME NEW k \in Keys, KeyExpires(k) PROVE StoreInv'
  BY <1>1 DEF KeyExpires, disk, ledger, StoreInv, StoreTypeOK, Blank, Numbered, OneOwner, Progress,
              DeadIfKept
<1>2. ASSUME UNCHANGED storeVars PROVE StoreInv'
  BY <1>2 DEF storeVars, StoreInv, StoreTypeOK, Blank, Numbered, OneOwner, Progress, DeadIfKept
<1>3. QED
  BY <1>1, <1>2, CreateKeeps, RotateKeeps, RevokeKeeps, ValidateKeeps, WriteSecretKeeps,
     WriteIndexKeeps, ReturnKeeps, KillKeeps, ReopenKeeps DEF StoreNext

\* A secret that was replaced or revoked never opens the server again, for any
\* number of keys, secrets, kills and failed writes, unless the disk never
\* learned of it.
THEOREM RetiredStaysRefused == StoreSpec => []RetiredRefused
<1>1. StoreInv => RetiredRefused
  <2> SUFFICES ASSUME StoreInv, NEW k \in Keys, NEW x \in retired, Opens(x, k) PROVE FALSE
    BY DEF RetiredRefused
  <2>1. cache[k] = x \/ sealed[k] = x
    BY DEF Opens
  <2>2. QED
    BY <2>1 DEF StoreInv, DeadIfKept, Opens
<1>2. QED
  BY <1>1, StoreInitInv, StoreStep, PTL DEF StoreSpec

\* While no write was lost or cut: what memory, the secret's file and the index
\* say of a key no call is at work on.
Settled(k) ==
  /\ shown[k] # None => sealed[k] = shown[k] /\ index[k] # "none"
  /\ cache[k] \in {None, sealed[k]}
  /\ up => index[k] = meta[k]

\* The key a call is at work on settles as its writes succeed.
Agree ==
  ~damaged =>
    /\ \A k \in Keys : inCall = Idle \/ k # inCall.key => Settled(k)
    /\ inCall # Idle =>
         /\ inCall.next # "secret" => sealed[inCall.key] = inCall.secret
         /\ inCall.next = "return" => index[inCall.key] = meta[inCall.key]

\* A call begins: it disturbs the entry of its key only.
LEMMA BeginAgrees ==
  ASSUME StoreInv, Agree, NEW key \in Keys, inCall = Idle, inCall' # Idle,
         inCall'.key = key, inCall'.next = "secret",
         UNCHANGED <<index, sealed, up, shown, damaged>>,
         \A k \in Keys : k # key => cache'[k] = cache[k] /\ meta'[k] = meta[k]
  PROVE  Agree'
BY DEF Agree, Settled

LEMMA CallsAgree ==
  ASSUME StoreInv, Agree,
         CreateKey \/ \E k \in Keys : RotateKey(k) \/ RevokeCredential(k)
  PROVE  Agree'
<1>0. StoreTypeOK
  BY DEF StoreInv
<1>1. ASSUME CreateKey PROVE Agree'
  <2> DEFINE key == keysMade + 1
  <2>1. key \in Keys /\ inCall = Idle
    BY <1>0, <1>1, StoreBounds DEF CreateKey, Ready, StoreTypeOK, Keys
  <2>2. /\ inCall' = [op |-> "create", key |-> key, next |-> "secret",
                      secret |-> secretsMade + 1, onDisk |-> FALSE]
        /\ UNCHANGED <<index, sealed, up, shown, damaged>>
    BY <1>1 DEF CreateKey, disk
  <2>3. \A k \in Keys : k # key => cache'[k] = cache[k] /\ meta'[k] = meta[k]
    BY <1>0, <1>1 DEF CreateKey, StoreTypeOK
  <2>4. inCall'.key = key /\ inCall'.next = "secret" /\ inCall' # Idle
    BY <2>2 DEF Idle
  <2> HIDE DEF key
  <2>5. QED
    BY <2>1, <2>2, <2>3, <2>4, BeginAgrees
<1>2. ASSUME NEW k \in Keys, RotateKey(k) PROVE Agree'
  <2>1. /\ inCall' = [op |-> "rotate", key |-> k, next |-> "secret",
                      secret |-> secretsMade + 1, onDisk |-> FALSE]
        /\ UNCHANGED <<index, sealed, up, shown, damaged>> /\ inCall = Idle
    BY <1>2 DEF RotateKey, Ready, disk
  <2>2. \A j \in Keys : j # k => cache'[j] = cache[j] /\ meta'[j] = meta[j]
    BY <1>0, <1>2 DEF RotateKey, StoreTypeOK
  <2>3. inCall'.key = k /\ inCall'.next = "secret" /\ inCall' # Idle
    BY <2>1 DEF Idle
  <2>4. QED
    BY <2>1, <2>2, <2>3, BeginAgrees
<1>3. ASSUME NEW k \in Keys, RevokeCredential(k) PROVE Agree'
  <2>1. /\ inCall' = [op |-> "revoke", key |-> k, next |-> "secret",
                      secret |-> None, onDisk |-> FALSE]
        /\ UNCHANGED <<index, sealed, up, shown, damaged>> /\ inCall = Idle
    BY <1>3 DEF RevokeCredential, Ready, disk, ledger
  <2>2. \A j \in Keys : j # k => cache'[j] = cache[j] /\ meta'[j] = meta[j]
    BY <1>0, <1>3 DEF RevokeCredential, StoreTypeOK
  <2>3. inCall'.key = k /\ inCall'.next = "secret" /\ inCall' # Idle
    BY <2>1 DEF Idle
  <2>4. QED
    BY <2>1, <2>2, <2>3, BeginAgrees
<1>4. QED
  BY <1>1, <1>2, <1>3

LEMMA WritesAgree ==
  ASSUME StoreInv, Agree, WriteSecret \/ WriteIndex
  PROVE  Agree'
<1>0. StoreTypeOK /\ inCall # Idle /\ inCall \in Call /\ inCall.key \in Keys
  BY CallType DEF StoreInv, WriteSecret, WriteIndex
<1>1. ASSUME WriteSecret PROVE Agree'
  <2>1. /\ inCall'.next = "index" /\ inCall'.key = inCall.key /\ inCall'.secret = inCall.secret
        /\ inCall' \in Call
    BY <1>0, <1>1 DEF WriteSecret, Call
  <2>2. /\ UNCHANGED <<meta, cache, index, up, shown, damaged>>
        /\ sealed'[inCall.key] = inCall.secret
        /\ \A k \in Keys : k # inCall.key => sealed'[k] = sealed[k]
    BY <1>0, <1>1 DEF WriteSecret, StoreTypeOK, ledger
  <2>3. QED
    BY <1>0, <2>1, <2>2, CallNotIdle DEF Agree, Settled
<1>2. ASSUME WriteIndex PROVE Agree'
  <2>1. /\ inCall'.next = "return" /\ inCall'.key = inCall.key /\ inCall'.secret = inCall.secret
        /\ inCall' # Idle /\ inCall.next = "index"
    <3>1. inCall' = [inCall EXCEPT !.next = "return", !.onDisk = @ \/ inCall.op = "revoke"]
      BY <1>2 DEF WriteIndex
    <3>2. (inCall.onDisk \/ inCall.op = "revoke") \in BOOLEAN
      BY <1>0 DEF Call
    <3>3. inCall' \in Call
      BY <1>0, <3>1, <3>2 DEF Call
    <3>4. inCall'.next = "return" /\ inCall'.key = inCall.key /\ inCall'.secret = inCall.secret
      BY <1>0, <3>1 DEF Call
    <3>5. QED
      BY <1>2, <3>3, <3>4, CallNotIdle DEF WriteIndex
  <2>2. UNCHANGED <<meta, cache, sealed, up, shown, damaged>> /\ index' = meta /\ up
    BY <1>2 DEF WriteIndex, ledger
  <2>3. QED
    BY <1>0, <2>1, <2>2 DEF Agree, Settled
<1>3. QED
  BY <1>1, <1>2

LEMMA ReturnAgrees ==
  ASSUME StoreInv, Agree, CallReturns
  PROVE  Agree'
<1> DEFINE key == inCall.key
<1>0. StoreTypeOK /\ inCall # Idle /\ key \in Keys /\ inCall.next = "return" /\ up
  BY CallType DEF StoreInv, CallReturns
<1>1. /\ inCall' = Idle /\ shown' = [shown EXCEPT ![key] = inCall.secret]
      /\ UNCHANGED <<meta, cache, index, sealed, up, damaged>>
  BY DEF CallReturns, disk
<1>2. \A k \in Keys : shown'[k] = (IF k = key THEN inCall.secret ELSE shown[k])
  BY <1>0, <1>1 DEF StoreTypeOK
<1>3. cache[key] = inCall.secret /\ meta[key] # "none"
  BY <1>0 DEF StoreInv, Progress
<1> SUFFICES ASSUME ~damaged, NEW k \in Keys PROVE Settled(k)'
  BY <1>1 DEF Agree
<1>4. CASE k = key
  BY <1>0, <1>1, <1>2, <1>3, <1>4 DEF Agree, Settled
<1>5. CASE k # key
  BY <1>0, <1>1, <1>2, <1>5 DEF Agree, Settled
<1>6. QED
  BY <1>4, <1>5

LEMMA AgreeStep == StoreInv /\ Agree /\ [StoreNext]_storeVars => Agree'
<1> SUFFICES ASSUME StoreInv, Agree, [StoreNext]_storeVars PROVE Agree'
  OBVIOUS
<1>1. ASSUME WriteSecretFails \/ WriteIndexFails PROVE Agree'
  BY <1>1 DEF WriteSecretFails, WriteIndexFails, Mishap, Agree
<1>2. ASSUME Killed PROVE Agree'
  <2> SUFFICES ASSUME ~damaged' PROVE Agree'
    BY DEF Agree
  <2>1. /\ inCall = Idle /\ inCall' = Idle /\ ~damaged /\ ~up' /\ cache' = NoSecret
        /\ UNCHANGED <<index, sealed, shown>>
    BY <1>2 DEF Killed, disk, ledger, StoreInv, StoreTypeOK
  <2>2. \A k \in Keys : cache'[k] = None
    BY <2>1 DEF NoSecret
  <2>3. QED
    BY <2>1, <2>2 DEF Agree, Settled
<1>3. ASSUME Reopen PROVE Agree'
  <2>1. inCall = Idle
    BY <1>3 DEF Reopen, StoreInv, Blank
  <2>2. QED
    BY <1>3, <2>1 DEF Reopen, disk, ledger, Agree, Settled
<1>4. ASSUME NEW x \in 1..MaxSecrets, Validate(x) PROVE Agree'
  <2>1. /\ inCall = Idle
        /\ UNCHANGED <<meta, index, sealed, inCall, up, shown, damaged>>
    BY <1>4 DEF Validate, Ready, disk, ledger
  <2>2. \A k \in Keys : cache'[k] = cache[k] \/ cache'[k] = sealed[k]
    BY <1>4 DEF Validate
  <2>3. QED
    BY <2>1, <2>2 DEF Agree, Settled
<1>5. ASSUME NEW k \in Keys, KeyExpires(k) PROVE Agree'
  BY <1>5 DEF KeyExpires, disk, ledger, Agree, Settled
<1>6. ASSUME UNCHANGED storeVars PROVE Agree'
  BY <1>6 DEF storeVars, Agree, Settled
<1>7. QED
  BY <1>1, <1>2, <1>3, <1>4, <1>5, <1>6, CallsAgree, WritesAgree, ReturnAgrees DEF StoreNext

\* As long as no write was lost or cut, the secret last given out for a key opens
\* the server until it is revoked or expires, for any number of keys, secrets and
\* restarts.
THEOREM ShownStaysOpen == StoreSpec => []ShownOpens
<1>1. StoreInit => Agree
  BY DEF StoreInit, Agree, Settled, NoSecret, NoEntry
<1>2. StoreInv /\ Agree => ShownOpens
  <2> SUFFICES ASSUME StoreInv, Agree, Ready, ~damaged, NEW k \in Keys,
                      shown[k] # None, meta[k] # "revoked", k \notin overdue
               PROVE  Opens(shown[k], k)
    BY DEF ShownOpens
  <2>1. sealed[k] = shown[k] /\ index[k] # "none" /\ cache[k] \in {None, shown[k]} /\ index[k] = meta[k]
    BY DEF Agree, Settled, Ready
  <2>2. meta[k] = "good"
    BY <2>1 DEF StoreInv, StoreTypeOK, Entry
  <2>3. QED
    BY <2>1, <2>2 DEF Opens
<1>3. QED
  BY <1>1, <1>2, StoreInitInv, StoreStep, AgreeStep, PTL DEF StoreSpec

(***************************************************************************)
(* The rate limit.                                                         *)
(***************************************************************************)

\* What was admitted and what the bucket still holds come out of one full
\* bucket and of the time since counting began.
Balance ==
  /\ since <= now
  /\ \A c \in People : /\ refilled[c] <= now
                       /\ admitted[c] + Filled(c) <= Burst + (now - since) * Rate

RateInv == RateTypeOK /\ Balance

\* A bucket holds between nothing and the burst.
LEMMA FilledType ==
  ASSUME RateInv, NEW c \in People
  PROVE  Filled(c) \in 0..Burst
<1>1. now - refilled[c] \in Nat
  BY RateBounds DEF RateInv, RateTypeOK, Balance
<1>2. (now - refilled[c]) * Rate \in Nat
  BY <1>1, RateBounds
<1>3. QED
  BY <1>2, RateBounds DEF RateInv, RateTypeOK, Filled, Least

\* Taking from a bucket moves what is taken to the admitted.
LEMMA ConsumeKeeps ==
  ASSUME RateInv, NEW c \in People, NEW cost \in 0..Filled(c), Consume(c, cost),
         UNCHANGED <<now, since>>, serving' \in [People -> 0..MaxServed]
  PROVE  RateInv'
<1> USE RateBounds DEF RateInv, RateTypeOK
<1>1. Filled(c) \in 0..Burst
  BY FilledType
<1>2. RateTypeOK'
  <2>1. Filled(c) - cost \in 0..Burst /\ cost \in Nat
    BY <1>1
  <2>2. /\ tokens' \in [People -> 0..Burst]
        /\ refilled' \in [People -> 0..MaxTicks]
        /\ admitted' \in [People -> Nat]
        /\ known' \subseteq People
    BY <2>1 DEF Consume
  <2>3. QED
    BY <2>2
<1>3. ASSUME NEW d \in People
      PROVE  /\ refilled'[d] <= now
             /\ admitted'[d] + Filled(d)' <= Burst + (now - since) * Rate
  <2>1. CASE d = c
    <3>1. (now - now) * Rate = 0
      OBVIOUS
    <3>2. Filled(d)' = Filled(c) - cost
      BY <2>1, <3>1, <1>1 DEF Consume, Filled, Least
    <3>3. (now - since) * Rate \in Int
      OBVIOUS
    <3>4. QED
      BY <2>1, <3>2, <3>3, <1>1 DEF Consume, Balance
  <2>2. CASE d # c
    <3>1. Filled(d)' = Filled(d)
      BY <2>2 DEF Consume, Filled
    <3>2. QED
      BY <2>2, <3>1 DEF Consume, Balance
  <2>3. QED
    BY <2>1, <2>2
<1>4. QED
  BY <1>2, <1>3 DEF Balance

LEMMA RateStep == RateInv /\ [RateNext]_rateVars => RateInv'
<1> SUFFICES ASSUME RateInv, [RateNext]_rateVars PROVE RateInv'
  OBVIOUS
<1> USE RateBounds DEF RateInv, RateTypeOK
<1>1. ASSUME NEW c \in People, Admit(c) PROVE RateInv'
  <2>1. Cost \in 0..Filled(c)
    BY <1>1, FilledType DEF Admit
  <2>2. serving' \in [People -> 0..MaxServed]
    BY <1>1 DEF Admit
  <2>3. QED
    BY <1>1, <2>1, <2>2, ConsumeKeeps DEF Admit
<1>2. ASSUME NEW c \in People, Refuse(c) PROVE RateInv'
  <2>1. 0 \in 0..Filled(c)
    BY FilledType
  <2>2. QED
    BY <1>2, <2>1, ConsumeKeeps DEF Refuse
<1>3. ASSUME NEW c \in People, Respond(c) PROVE RateInv'
  <2>1. 0 \in 0..Filled(c)
    BY FilledType
  <2>2. serving' \in [People -> 0..MaxServed]
    BY <1>3 DEF Respond
  <2>3. QED
    BY <1>3, <2>1, <2>2, ConsumeKeeps DEF Respond
<1>4. ASSUME Tick PROVE RateInv'
  <2>1. RateTypeOK'
    BY <1>4 DEF Tick
  <2>2. ASSUME NEW c \in People
        PROVE  admitted[c] + Filled(c)' <= Burst + (now + 1 - since) * Rate
    <3>1. /\ (now + 1 - refilled[c]) * Rate = (now - refilled[c]) * Rate + Rate
          /\ (now + 1 - since) * Rate = (now - since) * Rate + Rate
          /\ (now - refilled[c]) * Rate \in Int /\ (now - since) * Rate \in Int
      OBVIOUS
    <3>2. Filled(c)' <= Filled(c) + Rate
      BY <1>4, <3>1 DEF Tick, Filled, Least
    <3>3. Filled(c) \in Int /\ Filled(c)' \in Int
      BY <1>4, <3>1, FilledType DEF Tick, Filled, Least
    <3>4. QED
      BY <3>1, <3>2, <3>3 DEF Balance
  <2>3. Balance'
    BY <1>4, <2>2 DEF Tick, Balance
  <2>4. QED
    BY <2>1, <2>3
<1>5. ASSUME CountFrom PROVE RateInv'
  <2>1. RateTypeOK'
    BY <1>5 DEF CountFrom
  <2>2. ASSUME NEW c \in People PROVE Filled(c)' = Filled(c) /\ Filled(c) \in 0..Burst
    BY <1>5, FilledType DEF CountFrom, Filled
  <2>3. (now - now) * Rate = 0
    OBVIOUS
  <2>4. Balance'
    BY <1>5, <2>2, <2>3 DEF CountFrom, Balance
  <2>5. QED
    BY <2>1, <2>4
<1>6. ASSUME UNCHANGED rateVars PROVE RateInv'
  BY <1>6 DEF rateVars, Balance, Filled
<1>7. QED
  BY <1>1, <1>2, <1>3, <1>4, <1>5, <1>6 DEF RateNext

LEMMA RateStart == RateInit => RateInv
<1> SUFFICES ASSUME RateInit PROVE RateInv
  OBVIOUS
<1>1. (now - since) * Rate = 0
  BY RateBounds DEF RateInit
<1>2. QED
  BY <1>1, RateBounds DEF RateInit, RateInv, RateTypeOK, Balance, Filled

\* From whatever moment one counts, a caller is admitted no more than a full
\* bucket and what the time since then adds, for any callers, rate, burst and
\* cost.
THEOREM AdmittedBounded == RateSpec => []WindowBounded
<1>1. RateInv => WindowBounded
  <2> SUFFICES ASSUME RateInv, NEW c \in People
               PROVE  admitted[c] <= Burst + (now - since) * Rate
    BY DEF WindowBounded
  <2>1. Filled(c) \in 0..Burst /\ (now - since) * Rate \in Int
    BY FilledType, RateBounds DEF RateInv, RateTypeOK
  <2>2. QED
    BY <2>1, RateBounds DEF RateInv, RateTypeOK, Balance
<1>2. QED
  BY <1>1, RateStart, RateStep, PTL DEF RateSpec

(***************************************************************************)
(* The watches.                                                            *)
(***************************************************************************)

\* What the proof needs of the types.
Task == [id : WatchIds, kind : Kinds, phase : Phases, cancelled : BOOLEAN]

WatchShapes ==
  /\ entry \in [WatchIds -> Watches \cup {NoTaskYet}]
  /\ watch \in [Watches -> Task]
  /\ launched \in 0..MaxWatches

WatchInv == WatchShapes /\ WatchListed

LEMMA TaskShape ==
  ASSUME WatchShapes, NEW t \in Watches
  PROVE  /\ watch[t] \in Task
         /\ NoTaskYet \notin Watches
         /\ \A p \in Phases : /\ [watch[t] EXCEPT !.phase = p] \in Task
                              /\ [watch[t] EXCEPT !.phase = p].phase = p
                              /\ [watch[t] EXCEPT !.phase = p].id = watch[t].id
                              /\ [watch[t] EXCEPT !.phase = p].cancelled = watch[t].cancelled
         /\ /\ [watch[t] EXCEPT !.cancelled = TRUE] \in Task
            /\ [watch[t] EXCEPT !.cancelled = TRUE].phase = watch[t].phase
            /\ [watch[t] EXCEPT !.cancelled = TRUE].id = watch[t].id
            /\ [watch[t] EXCEPT !.cancelled = TRUE].cancelled
<1>1. watch[t] \in Task
  BY DEF WatchShapes
<1>2. NoTaskYet \notin Watches
  BY KubeBounds DEF Watches
<1>3. QED
  BY <1>1, <1>2 DEF Task

\* A new task takes a free entry.
LEMMA StartKeeps ==
  ASSUME WatchInv, NEW c \in Callers, NEW i \in WatchIds, NEW k \in Kinds, StartWatch(c, i, k)
  PROVE  WatchInv'
<1> DEFINE n == launched + 1
           new == [id |-> i, kind |-> k, phase |-> "new", cancelled |-> FALSE]
<1>1. /\ n \in Watches /\ new \in Task /\ NoTaskYet \notin Watches
      /\ entry[i] = NoTaskYet /\ entry' = [entry EXCEPT ![i] = n]
      /\ watch' = [watch EXCEPT ![n] = new]
      /\ launched' = n /\ n \in 0..MaxWatches /\ robbed' = robbed
  BY KubeBounds DEF StartWatch, WatchInv, WatchShapes, Watches, Task, Phases
<1>2. new.id = i
  OBVIOUS
<1> HIDE DEF n, new
<1>3. WatchShapes'
  BY <1>1, <1>2 DEF WatchInv, WatchShapes, Alive
<1>4. WatchListed'
  BY <1>1, <1>2 DEF WatchInv, WatchShapes, WatchListed, Alive
<1>5. QED
  BY <1>3, <1>4 DEF WatchInv

\* A stop takes the entry of the task it cancels.
LEMMA CancelCallKeeps ==
  ASSUME WatchInv, NEW c, NEW i, NEW p, NEW left, Cancel(c, i, p, left),
         UNCHANGED <<launched, robbed>>
  PROVE  WatchInv'
<1>1. /\ entry' = [entry EXCEPT ![i] = NoTaskYet]
      /\ watch' = [watch EXCEPT ![entry[i]].cancelled = TRUE]
  BY DEF Cancel
<1>2. \A t \in Watches : /\ watch'[t] \in Task
                         /\ watch'[t].phase = watch[t].phase
                         /\ watch'[t].id = watch[t].id
                         /\ watch'[t].cancelled = (watch[t].cancelled \/ t = entry[i])
  <2> SUFFICES ASSUME NEW t \in Watches
               PROVE  /\ watch'[t] \in Task
                      /\ watch'[t].phase = watch[t].phase
                      /\ watch'[t].id = watch[t].id
                      /\ watch'[t].cancelled = (watch[t].cancelled \/ t = entry[i])
    OBVIOUS
  <2>1. watch[t] \in Task /\ watch[t].cancelled \in BOOLEAN
    BY TaskShape DEF WatchInv, Task
  <2>2. CASE t = entry[i]
    <3>1. watch'[t] = [watch[t] EXCEPT !.cancelled = TRUE]
      BY <1>1, <2>2 DEF WatchInv, WatchShapes
    <3>2. QED
      BY <2>1, <2>2, <3>1, TaskShape DEF WatchInv
  <2>3. CASE t # entry[i]
    BY <1>1, <2>1, <2>3 DEF WatchInv, WatchShapes
  <2>4. QED
    BY <2>2, <2>3
<1>3. watch' \in [Watches -> Task] /\ entry' \in [WatchIds -> Watches \cup {NoTaskYet}]
  BY <1>1, <1>2 DEF WatchInv, WatchShapes
<1>4. WatchShapes'
  BY <1>2, <1>3 DEF WatchInv, WatchShapes, Alive
<1>5. WatchListed'
  BY <1>1, <1>2 DEF WatchInv, WatchShapes, WatchListed, Alive
<1>6. QED
  BY <1>4, <1>5 DEF WatchInv

LEMMA StopNextKeeps ==
  ASSUME WatchInv, NEW c, NEW wids, StopNext(c, wids), UNCHANGED <<launched, robbed>>
  PROVE  WatchInv'
<1> DEFINE k == SelectInSeq(wids, LAMBDA i : entry[i] # NoTaskYet)
<1>1. CASE k = 0
  BY <1>1 DEF StopNext, WatchInv, WatchShapes, WatchListed, Alive
<1>2. CASE k # 0
  BY <1>2, CancelCallKeeps DEF StopNext
<1>3. QED
  BY <1>1, <1>2

\* A task that ends takes the entry of its id away, and its owner is counted.
LEMMA CleanUpWatchKeeps ==
  ASSUME WatchInv, NEW t \in Watches, Alive(t), CleanUpWatch(t)
  PROVE  WatchInv'
<1> DEFINE i == watch[t].id
<1>1. /\ entry' = [entry EXCEPT ![i] = NoTaskYet]
      /\ watch' = [watch EXCEPT ![t].phase = "ended"]
      /\ robbed' = robbed \cup ({entry[i]} \ {t, NoTaskYet})
      /\ launched' = launched /\ i \in WatchIds
  BY DEF CleanUpWatch, WatchInv, WatchShapes, Task
<1>2. /\ watch'[t] \in Task /\ watch'[t].phase = "ended"
      /\ watch'[t].id = watch[t].id
      /\ \A u \in Watches \ {t} : watch'[u] = watch[u]
      /\ NoTaskYet \notin Watches
  BY <1>1, TaskShape DEF WatchInv, WatchShapes, Phases
<1> HIDE DEF i
<1>3. WatchShapes'
  BY <1>1, <1>2 DEF WatchInv, WatchShapes, Alive
<1>4. WatchListed'
  BY <1>1, <1>2 DEF WatchInv, WatchShapes, WatchListed, Alive
<1>5. QED
  BY <1>3, <1>4 DEF WatchInv

\* A task goes on, or ends without clean-up.
LEMMA PhaseKeeps ==
  ASSUME WatchInv, NEW t \in Watches, Alive(t), NEW p \in Phases, Phase(t, p)
  PROVE  WatchInv'
<1>1. /\ watch' = [watch EXCEPT ![t].phase = p]
      /\ UNCHANGED <<entry, launched, robbed>>
  BY DEF Phase
<1>2. /\ watch'[t] \in Task /\ watch'[t].phase = p
      /\ watch'[t].id = watch[t].id /\ watch'[t].cancelled = watch[t].cancelled
      /\ \A u \in Watches \ {t} : watch'[u] = watch[u]
  BY <1>1, TaskShape DEF WatchInv, WatchShapes
<1>3. WatchShapes'
  BY <1>1, <1>2 DEF WatchInv, WatchShapes, Alive
<1>4. WatchListed'
  BY <1>1, <1>2 DEF WatchInv, WatchShapes, WatchListed, Alive
<1>5. QED
  BY <1>3, <1>4 DEF WatchInv

LEMMA KubeStep == WatchInv /\ [KubeNext]_kubeVars => WatchInv'
<1> SUFFICES ASSUME WatchInv, [KubeNext]_kubeVars PROVE WatchInv'
  OBVIOUS
<1>1. ASSUME NEW c \in Callers, NEW i \in WatchIds,
             StopWatch(c, i) \/ \E k \in Kinds : StartWatch(c, i, k)
      PROVE  WatchInv'
  BY <1>1, StartKeeps, CancelCallKeeps DEF StopWatch
<1>2. ASSUME NEW c \in Callers, StopAll(c) \/ Stopped(c)
      PROVE  WatchInv'
  <2>1. CASE StopAll(c)
    BY <2>1, StopNextKeeps DEF StopAll
  <2>2. CASE Stopped(c) /\ UNCHANGED <<entry, watch>>
    BY <2>2 DEF Stopped, WatchInv, WatchShapes, WatchListed, Alive
  <2>3. CASE Stopped(c) /\ StopNext(c, asked[c].left)
    BY <2>3, StopNextKeeps DEF Stopped
  <2>4. QED
    BY <1>2, <2>1, <2>2, <2>3 DEF Stopped
<1>3. ASSUME NEW t \in Watches,
             BeginWatch(t) \/ NeverBegins(t) \/ OpenStream(t) \/ CancelArrives(t) \/ StreamEnds(t)
      PROVE  WatchInv'
  <2>1. Alive(t) /\ {"raised", "opening", "ended", "streaming"} \subseteq Phases
    BY <1>3 DEF BeginWatch, NeverBegins, OpenStream, CancelArrives, StreamEnds, Alive, Phases
  <2>2. \/ \E p \in {"raised", "opening", "ended", "streaming"} : Phase(t, p)
        \/ CleanUpWatch(t)
    BY <1>3 DEF BeginWatch, NeverBegins, OpenStream, CancelArrives, StreamEnds
  <2>3. QED
    BY <2>1, <2>2, PhaseKeeps, CleanUpWatchKeeps
<1>4. CASE UNCHANGED kubeVars
  BY <1>4 DEF kubeVars, WatchInv, WatchShapes, WatchListed, Alive
<1>5. QED
  BY <1>1, <1>2, <1>3, <1>4 DEF KubeNext, LoopStep

LEMMA KubeInitInv == KubeInit => WatchInv
<1> SUFFICES ASSUME KubeInit PROVE WatchInv
  OBVIOUS
<1>1. Watch0 \in Task /\ Watch0.phase = "none"
  BY KubeBounds DEF Watch0, Task, Kinds, Phases
<1>2. WatchShapes
  BY <1>1, KubeBounds DEF KubeInit, WatchShapes
<1>3. WatchListed
  BY <1>1 DEF KubeInit, WatchListed, Alive
<1>4. QED
  BY <1>2, <1>3 DEF WatchInv

\* A watch that runs is in the table, is being stopped, or lost its entry to the
\* clean-up of another, for any number of watches, ids and callers.
THEOREM WatchesAreListed == KubeSpec => []WatchListed
<1>1. WatchInv => WatchListed
  BY DEF WatchInv
<1>2. QED
  BY <1>1, KubeInitInv, KubeStep, PTL DEF KubeSpec

LEMMA Smallest ==
  ASSUME NEW I \in SUBSET Nat, I # {}
  PROVE  \E x \in I : \A y \in I : x <= y
<1>1. IsWellFoundedOn(OpToRel(<, Nat), Nat)
  BY NatLessThanWellFounded
<1>2. PICK x \in I : \A y \in I : ~ (<<y, x>> \in OpToRel(<, Nat))
  BY <1>1, WFMin
<1>3. \A y \in I : ~(y < x)
  BY <1>2 DEF OpToRel
<1>4. QED
  BY <1>3

LEMMA SelectedPlace ==
  ASSUME NEW S, NEW s \in Seq(S), SelectInSeq(s, LAMBDA i : entry[i] # NoTaskYet) # 0
  PROVE  SelectInSeq(s, LAMBDA i : entry[i] # NoTaskYet) \in 1..Len(s)
<1> DEFINE I == {i \in 1..Len(s) : entry[s[i]] # NoTaskYet}
<1>1. I # {} /\ SelectInSeq(s, LAMBDA i : entry[i] # NoTaskYet) = Min(I)
  BY DEF SelectInSeq
<1>2. I \in SUBSET Nat
  OBVIOUS
<1>3. \E x \in I : \A y \in I : x <= y
  <2> HIDE DEF I
  <2>1. QED
    BY <1>1, <1>2, Smallest
<1>4. Min(I) \in I
  BY <1>3 DEF Min
<1>5. QED
  BY <1>1, <1>4

(***************************************************************************)
(* What the callers of the watcher wait for.                               *)
(***************************************************************************)

\* No task is in the table twice, and only tasks that were made are.
OneEntry ==
  /\ \A i \in WatchIds : entry[i] # NoTaskYet => entry[i] <= launched
  /\ \A i, j \in WatchIds : entry[i] # NoTaskYet /\ entry[i] = entry[j] => i = j

Asked == [pc : {"idle", "stopping", "stopping all"},
          task : Watches \cup {NoTaskYet}, left : Seq(WatchIds)]

AskedInv == /\ asked \in [Callers -> Asked]
            /\ robbed \subseteq Watches
            /\ OneEntry

\* The table holds finitely many watches, however many ids there are.
LEMMA FewActive ==
  ASSUME WatchShapes, OneEntry
  PROVE  \A wids \in SetToSeqs({i \in WatchIds : entry[i] # NoTaskYet}) : wids \in Seq(WatchIds)
<1> DEFINE S == {i \in WatchIds : entry[i] # NoTaskYet}
           f == [i \in S |-> entry[i]]
<1>1. f \in [S -> 1..MaxWatches]
  BY DEF WatchShapes, Watches
<1>2. f \in Injection(S, 1..MaxWatches)
  <2>1. \A i, j \in S : f[i] = f[j] => i = j
    BY DEF OneEntry
  <2> HIDE DEF f, S
  <2>2. QED
    BY <1>1, <2>1 DEF Injection, IsInjective
<1>3. IsFiniteSet(1..MaxWatches)
  BY KubeBounds, FS_Interval
<1>4. S \subseteq WatchIds
  OBVIOUS
<1> HIDE DEF S, f
<1>5. IsFiniteSet(S)
  BY <1>2, <1>3, FS_Injection
<1>6. Cardinality(S) \in Nat
  BY <1>5, FS_CardinalityType
<1>7. \A wids \in SetToSeqs(S) : wids \in [1..Cardinality(S) -> WatchIds]
  BY <1>4 DEF SetToSeqs
<1>8. \A wids \in SetToSeqs(S) : wids \in Seq(WatchIds)
  BY <1>6, <1>7
<1>9. QED
  BY <1>8 DEF S

LEMMA CancelAsked ==
  ASSUME WatchShapes, AskedInv, NEW c \in Callers, NEW i \in WatchIds,
         NEW p \in {"stopping", "stopping all"}, NEW left \in Seq(WatchIds),
         Cancel(c, i, p, left), UNCHANGED <<launched, robbed>>
  PROVE  AskedInv'
<1>1. entry[i] \in Watches \cup {NoTaskYet} /\ entry' = [entry EXCEPT ![i] = NoTaskYet]
  BY DEF WatchShapes, Cancel
<1>2. [pc |-> p, task |-> entry[i], left |-> left] \in Asked
  BY <1>1 DEF Asked
<1>3. asked' \in [Callers -> Asked]
  BY <1>2 DEF Cancel, AskedInv
<1>4. OneEntry'
  BY <1>1 DEF AskedInv, OneEntry, WatchShapes
<1>5. QED
  BY <1>3, <1>4 DEF AskedInv

LEMMA IdleAsked == Idle0 \in Asked
BY DEF Idle0, Asked

LEMMA StopNextAsked ==
  ASSUME WatchShapes, AskedInv, NEW c \in Callers, NEW wids \in Seq(WatchIds),
         StopNext(c, wids), UNCHANGED <<launched, robbed>>
  PROVE  AskedInv'
<1> DEFINE k == SelectInSeq(wids, LAMBDA i : entry[i] # NoTaskYet)
<1>1. CASE k = 0
  BY <1>1, IdleAsked DEF StopNext, AskedInv, OneEntry
<1>2. CASE k # 0
  <2>1. k \in 1..Len(wids)
    BY <1>2, SelectedPlace
  <2>2. Cancel(c, wids[k], "stopping all", SubSeq(wids, k + 1, Len(wids)))
    BY <1>2 DEF StopNext
  <2> HIDE DEF k
  <2>3. wids[k] \in WatchIds /\ SubSeq(wids, k + 1, Len(wids)) \in Seq(WatchIds)
    BY <2>1, SubSeqProperties
  <2>4. QED
    BY <2>2, <2>3, CancelAsked
<1>3. QED
  BY <1>1, <1>2

LEMMA AskedStep == WatchShapes /\ AskedInv /\ [KubeNext]_kubeVars => AskedInv'
<1> SUFFICES ASSUME WatchShapes, AskedInv, [KubeNext]_kubeVars PROVE AskedInv'
  OBVIOUS
<1>1. ASSUME NEW c \in Callers, NEW i \in WatchIds, NEW k \in Kinds, StartWatch(c, i, k)
      PROVE  AskedInv'
  <2>1. /\ entry' = [entry EXCEPT ![i] = launched + 1] /\ launched' = launched + 1
        /\ launched \in Nat /\ UNCHANGED <<asked, robbed>>
    BY <1>1 DEF StartWatch, WatchShapes
  <2>2. \A j \in WatchIds : entry[j] # NoTaskYet => entry[j] \in Nat /\ entry[j] <= launched
    BY DEF WatchShapes, Watches, AskedInv, OneEntry
  <2>3. OneEntry'
    BY <2>1, <2>2 DEF AskedInv, OneEntry, WatchShapes
  <2>4. QED
    BY <2>1, <2>3 DEF AskedInv
<1>2. ASSUME NEW c \in Callers, NEW i \in WatchIds, StopWatch(c, i)
      PROVE  AskedInv'
  <2>1. <<>> \in Seq(WatchIds)
    OBVIOUS
  <2>2. QED
    BY <1>2, <2>1, CancelAsked DEF StopWatch
<1>3. ASSUME NEW c \in Callers, StopAll(c)
      PROVE  AskedInv'
  BY <1>3, FewActive, StopNextAsked DEF StopAll, AskedInv
<1>4. ASSUME NEW c \in Callers, Stopped(c)
      PROVE  AskedInv'
  <2>1. asked[c].left \in Seq(WatchIds)
    BY DEF AskedInv, Asked
  <2>2. CASE StopNext(c, asked[c].left)
    BY <1>4, <2>1, <2>2, StopNextAsked DEF Stopped
  <2>3. CASE asked' = [asked EXCEPT ![c] = Idle0] /\ UNCHANGED <<entry, watch>>
    BY <1>4, <2>3, IdleAsked DEF Stopped, AskedInv, OneEntry
  <2>4. QED
    BY <1>4, <2>2, <2>3 DEF Stopped
<1>5. ASSUME NEW t \in Watches, CleanUpWatch(t)
      PROVE  AskedInv'
  <2>1. watch[t].id \in WatchIds
    BY DEF WatchShapes, Task
  <2>2. entry[watch[t].id] \in Watches \cup {NoTaskYet}
    BY <2>1 DEF WatchShapes
  <2>3. robbed' \subseteq Watches
    BY <1>5, <2>2 DEF CleanUpWatch, AskedInv
  <2>4. OneEntry'
    BY <1>5, <2>1 DEF CleanUpWatch, AskedInv, OneEntry, WatchShapes
  <2>5. QED
    BY <1>5, <2>3, <2>4 DEF CleanUpWatch, AskedInv
<1>6. CASE UNCHANGED <<asked, robbed, entry, launched>>
  BY <1>6 DEF AskedInv, OneEntry
<1>7. ASSUME NEW t \in Watches,
             BeginWatch(t) \/ NeverBegins(t) \/ OpenStream(t) \/ CancelArrives(t) \/ StreamEnds(t)
      PROVE  AskedInv'
  BY <1>5, <1>6, <1>7 DEF BeginWatch, NeverBegins, OpenStream, CancelArrives, StreamEnds, Phase
<1>8. CASE UNCHANGED kubeVars
  BY <1>6, <1>8 DEF kubeVars
<1>9. QED
  BY <1>1, <1>2, <1>3, <1>4, <1>7, <1>8 DEF KubeNext, LoopStep

\* Every variable of the watcher keeps its type, whatever number of watches,
\* ids and callers: what stop_all() still has to stop are ids
\* (watcher.py:386-412).
THEOREM KubeType == KubeSpec => []KubeTypeOK
<1>1. KubeInit => AskedInv
  BY IdleAsked DEF KubeInit, AskedInv, OneEntry
<1>2. WatchInv /\ AskedInv => KubeTypeOK
  BY DEF WatchInv, WatchShapes, Task, AskedInv, Asked, KubeTypeOK
<1>3. WatchInv => WatchShapes
  BY DEF WatchInv
<1>4. QED
  BY <1>1, <1>2, <1>3, KubeInitInv, KubeStep, AskedStep, PTL DEF KubeSpec

(***************************************************************************)
(* The components side by side.                                            *)
(***************************************************************************)

\* Every variable of the registry of API keys keeps its type: each secret has an
\* id or no entry, and each id shown has the secret it was shown for.
THEOREM APIKeyType == APIKeySpec => []APIKeyTypeOK
<1>1. RegistryInv => APIKeyTypeOK
  BY DEF RegistryInv
<1>2. QED
  BY <1>1, RegistryStart, RegistryStep, PTL DEF APIKeySpec

\* Every variable of the file of credentials, of the calls on it and of its
\* index keeps its type, through failed writes, kills and restarts.
THEOREM StoreType == StoreSpec => []StoreTypeOK
<1>1. StoreInv => StoreTypeOK
  BY DEF StoreInv
<1>2. QED
  BY <1>1, StoreInitInv, StoreStep, PTL DEF StoreSpec

\* Every variable of the rate limit keeps its type: a bucket never holds more
\* than its burst, nor less than nothing.
THEOREM RateType == RateSpec => []RateTypeOK
<1>1. RateInv => RateTypeOK
  BY DEF RateInv
<1>2. QED
  BY <1>1, RateStart, RateStep, PTL DEF RateSpec

\* A step of one component is a step of it and none of the others, so that what
\* is true of a component by itself is true of it here.
LEMMA ServerParts ==
  ServerSpec => Spec /\ StreamSpec /\ APIKeySpec /\ StoreSpec /\ KubeSpec /\ RateSpec
<1> USE DEF InQMP, InStream, InKeys, InStore, InKube, InRate, serverVars
<1>1. ServerInit => /\ Init /\ StreamInit
                    /\ APIKeyInit /\ StoreInit /\ KubeInit /\ RateInit
  BY DEF ServerInit
<1>2. [ServerNext]_serverVars => [Next]_vars
  BY DEF ServerNext, Next
<1>3. [ServerNext]_serverVars => [StreamNext]_streamVars
  BY DEF ServerNext, StreamNext, Handler, Broadcast
<1>4. [ServerNext]_serverVars => [APIKeyNext]_apiKeyVars
  BY DEF ServerNext, APIKeyNext
<1>5. [ServerNext]_serverVars => [StoreNext]_storeVars
  BY DEF ServerNext, StoreNext
<1>6. [ServerNext]_serverVars => [KubeNext]_kubeVars
  BY DEF ServerNext, KubeNext, LoopStep
<1>7. [ServerNext]_serverVars => [RateNext]_rateVars
  BY DEF ServerNext, RateNext
<1>8. QED
  BY <1>1, <1>2, <1>3, <1>4, <1>5, <1>6, <1>7, PTL
  DEF ServerSpec, Spec, StreamSpec, APIKeySpec, StoreSpec, KubeSpec, RateSpec

\* Every variable of the server's components keeps its type.
THEOREM ServerType == ServerSpec => []ServerTypeOK
<1>1. /\ TypeOK /\ StreamTypeOK
      /\ APIKeyTypeOK /\ StoreTypeOK /\ KubeTypeOK /\ RateTypeOK
      => ServerTypeOK
  BY DEF ServerTypeOK
<1>2. QED
  BY <1>1, ServerParts, ChannelType, StreamType, APIKeyType, StoreType, KubeType, RateType, PTL

\* What the run checks of the components beside their types and the liveness
\* holds of every behaviour of them together: the replies and the surplus of
\* the QMP client, the registry of the stream, the ids and secrets that open
\* the server, the watches, and the rate of each caller.
THEOREM ServerSafe ==
  ServerSpec => /\ [](OrderlyReplies /\ OrderlyHandshake)
                /\ [](NoGhost /\ KeptRegistered)
                /\ [](ShownIdRevokes /\ RetiredRefused /\ ShownOpens)
                /\ [](WatchListed /\ WindowBounded)
                /\ NeverResyncs
BY ServerParts, RepliesMatch, HandshakeFirst, SurplusStays, NobodyIsAGhost,
   OwnIdIsKept, ShownIdIsRevocable, RetiredStaysRefused, ShownStaysOpen, WatchesAreListed,
   AdmittedBounded, PTL
=============================================================================
