------------------------------- MODULE MCServer -------------------------------
(***************************************************************************)
(* TLC instances of six components of the server side.  They share no      *)
(* state, so they are checked side by side: every behaviour runs one of    *)
(* them, and the others keep their initial state.                          *)
(***************************************************************************)
EXTENDS QMPChannel, StreamBroadcast, APIKeyRegistry, CredentialStore,
        KubeWatcher, RateLimit, TLC

\* Two phones that share the application's client id, and a console.
CONSTANTS phone1, phone2, console, app, own
SharedId == [s \in Sessions |-> IF s \in {phone1, phone2} THEN app ELSE own]

\* Two pairing tokens name one machine.
CONSTANTS here, there
Paired == [x \in Secrets |-> IF x = CHOOSE y \in Secrets : TRUE THEN there ELSE here]

VARIABLE part  \* the component that runs

serverVars == <<part, vars, streamVars, apiKeyVars,
                storeVars, kubeVars, rateVars>>

InQMP    == /\ part = "qmp"
            /\ UNCHANGED <<part, streamVars, apiKeyVars, storeVars, kubeVars, rateVars>>
InStream == /\ part = "stream"
            /\ UNCHANGED <<part, vars, apiKeyVars, storeVars, kubeVars, rateVars>>
InKeys   == /\ part = "keys"
            /\ UNCHANGED <<part, vars, streamVars, storeVars, kubeVars, rateVars>>
InStore  == /\ part = "store"
            /\ UNCHANGED <<part, vars, streamVars, apiKeyVars, kubeVars, rateVars>>
InKube   == /\ part = "kube"
            /\ UNCHANGED <<part, vars, streamVars, apiKeyVars, storeVars, rateVars>>
InRate   == /\ part = "rate"
            /\ UNCHANGED <<part, vars, streamVars, apiKeyVars, storeVars, kubeVars>>

ServerInit ==
  /\ part \in {"qmp", "stream", "keys", "store", "kube", "rate"}
  /\ Init /\ StreamInit
  /\ APIKeyInit /\ StoreInit /\ KubeInit /\ RateInit

ServerNext ==
  \/ \E t \in Tasks : \/ InQMP /\ Open(t)
                      \/ InQMP /\ Negotiate(t)
                      \/ InQMP /\ NegotiateFails(t)
                      \/ InQMP /\ Send(t)
                      \/ InQMP /\ Read(t)
                      \/ InQMP /\ Timeout(t)
                      \/ InQMP /\ Disconnect(t)
                      \/ InQMP /\ Disconnected(t)
  \/ InQMP /\ Greet
  \/ InQMP /\ Answer
  \/ InQMP /\ EmitEvent
  \/ InQMP /\ QemuExits
  \/ \E s \in Sessions : \/ InStream /\ Connect(s)
                         \/ InStream /\ PeerLeaves(s)
                         \/ InStream /\ HandlerEnds(s)
                         \/ InStream /\ CloseOne(s)
  \/ InStream /\ BeginRound
  \/ \E i \in Ids : InStream /\ Visit(i)
  \/ InStream /\ Drained
  \/ InStream /\ RoundEnds
  \/ InStream /\ RoundAborted
  \/ InStream /\ Capture
  \/ InStream /\ Stop
  \/ \E x \in Secrets : \/ InKeys /\ Pair(x)
                        \/ InKeys /\ RevokeOwn(x)
                        \/ InKeys /\ TokenExpires(x)
  \/ \E i \in KeyIds : InKeys /\ RevokeKey(i)
  \/ \E m \in Machines : InKeys /\ RevokeMachine(m)
  \/ InStore /\ CreateKey
  \/ \E k \in Keys : \/ InStore /\ RotateKey(k)
                     \/ InStore /\ RevokeCredential(k)
                     \/ InStore /\ KeyExpires(k)
  \/ \E x \in 1..MaxSecrets : InStore /\ Validate(x)
  \/ InStore /\ WriteSecret
  \/ InStore /\ WriteSecretFails
  \/ InStore /\ WriteIndex
  \/ InStore /\ WriteIndexFails
  \/ InStore /\ CallReturns
  \/ InStore /\ Killed
  \/ InStore /\ Reopen
  \/ \E x \in Callers, i \in WatchIds : \/ InKube /\ StopWatch(x, i)
                                        \/ \E k \in Kinds : InKube /\ StartWatch(x, i, k)
  \/ \E x \in Callers : \/ InKube /\ StopAll(x)
                        \/ InKube /\ Stopped(x)
  \/ \E t \in Watches : \/ InKube /\ BeginWatch(t)
                        \/ InKube /\ NeverBegins(t)
                        \/ InKube /\ OpenStream(t)
                        \/ InKube /\ CancelArrives(t)
                        \/ InKube /\ StreamEnds(t)
  \/ \E x \in People : \/ InRate /\ Admit(x)
                       \/ InRate /\ Refuse(x)
                       \/ InRate /\ Respond(x)
  \/ InRate /\ Tick
  \/ InRate /\ CountFrom

\* The fairness each component assumes.
ServerSpec ==
  /\ ServerInit /\ [][ServerNext]_serverVars
  /\ \A t \in Tasks : /\ WF_serverVars(InQMP /\ Read(t))
                      /\ WF_serverVars(InQMP /\ Timeout(t))
  /\ WF_serverVars(InStream /\ Capture)
  /\ WF_serverVars(InStream /\ Broadcast)
  /\ \A s \in Sessions : /\ WF_serverVars(InStream /\ HandlerEnds(s))
                         /\ WF_serverVars(InStream /\ CloseOne(s))
  /\ \A t \in Watches : WF_serverVars(InKube /\ (\/ BeginWatch(t) \/ NeverBegins(t)
                                                 \/ OpenStream(t) \/ CancelArrives(t)))
  /\ \A x \in Callers : WF_serverVars(InKube /\ Stopped(x))

\* Every variable keeps its type.
ServerTypeOK ==
  /\ TypeOK /\ StreamTypeOK
  /\ APIKeyTypeOK /\ StoreTypeOK /\ KubeTypeOK /\ RateTypeOK
=============================================================================
