---------------------------- MODULE MCConnections ----------------------------
(***************************************************************************)
(* TLC instances of the two components that make connections and keep      *)
(* them: the desktop program's QMP bridge and the Continuum manager.  They *)
(* share no state and are checked side by side: every behaviour runs one   *)
(* of them, and the other keeps its initial state.                         *)
(***************************************************************************)
EXTENDS QMPBridge, ContinuumRoutes

VARIABLE part  \* the component that runs

connectionsVars == <<part, bridgeVars, routesVars>>

InBridge == part = "bridge" /\ UNCHANGED <<part, routesVars>>
InRoutes == part = "routes" /\ UNCHANGED <<part, bridgeVars>>

ConnectionsInit == part \in {"bridge", "routes"} /\ BridgeInit /\ RoutesInit

ConnectionsNext ==
  \/ \E t \in Calls : \/ InBridge /\ Connect(t)
                      \/ InBridge /\ Command(t)
                      \/ InBridge /\ Disconnect(t)
                      \/ InBridge /\ OpenSucceeds(t)
                      \/ InBridge /\ OpenFails(t)
                      \/ InBridge /\ BackoffEnds(t)
                      \/ InBridge /\ Shaken(t)
                      \/ InBridge /\ ShakeRaises(t)
                      \/ InBridge /\ ShakeFails(t)
                      \/ InBridge /\ SendEnds(t)
                      \/ InBridge /\ DisconnectRuns(t)
                      \/ InBridge /\ Closed(t)
  \/ InBridge /\ Start
  \/ InBridge /\ Die
  \/ \E t \in Clients, n \in Nodes : \/ InRoutes /\ BeginConnect(t, n)
                                     \/ InRoutes /\ BeginSend(t, n)
                                     \/ InRoutes /\ DisconnectNode(t, n)
  \/ \E t \in Clients : \/ InRoutes /\ Unreachable(t)
                        \/ InRoutes /\ Establish(t)
                        \/ InRoutes /\ EstablishFails(t)
                        \/ InRoutes /\ TryAgain(t)
                        \/ InRoutes /\ TakeTurn(t)
                        \/ InRoutes /\ OldClosed(t)
                        \/ InRoutes /\ Reinstall(t)
                        \/ InRoutes /\ SendDone(t)
                        \/ InRoutes /\ SendFails(t)
                        \/ InRoutes /\ DropTurn(t)
                        \/ InRoutes /\ SendAgain(t)
                        \/ InRoutes /\ NodeDisconnected(t)
  \/ InRoutes /\ CleanUp
  \/ InRoutes /\ CleanerTurn
  \/ InRoutes /\ StaleClosed
  \/ InRoutes /\ CancelCleaner
  \/ InRoutes /\ Shutdown
  \/ InRoutes /\ StopperTurn
  \/ InRoutes /\ RouteShut
  \/ \E c \in Links : InRoutes /\ PeerFails(c)

\* The fairness each component assumes.
ConnectionsSpec ==
  /\ ConnectionsInit /\ [][ConnectionsNext]_connectionsVars
  /\ WF_connectionsVars(InBridge /\ Timer)
  /\ \A t \in Calls : WF_connectionsVars(InBridge /\ Continue(t))
  /\ \A t \in Clients : WF_connectionsVars(InRoutes /\ Step(t))
  /\ WF_connectionsVars(InRoutes /\ CleanerStep)
  /\ WF_connectionsVars(InRoutes /\ StopperStep)

\* Every variable keeps its type.
ConnectionsTypeOK == BridgeTypeOK /\ RoutesTypeOK
=============================================================================
