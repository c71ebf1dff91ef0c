--------------------------- MODULE APIKeyRegistry ---------------------------
(***************************************************************************)
(* api_server.py: the registry of API keys behind the pairing end point.   *)
(*                                                                         *)
(* A pairing token carries a secret and the identity of a machine.  Until  *)
(* it expires it may be presented any number of times; each time its       *)
(* secret is registered under a fresh key id.  The registry is two         *)
(* dictionaries, secret -> metadata and key id -> secret, which every call *)
(* has to keep in step.  No handler waits between its reads and its        *)
(* writes, so each call is one action.                                     *)
(***************************************************************************)
EXTENDS Naturals

CONSTANTS
  Secrets,    \* secrets of the pairing tokens that were generated
  Machines,   \* machine ids
  Home,       \* Home[x]: the machine named in the token of secret x
  NoKey,      \* a secret that is not registered
  MaxIds      \* bound: key ids ever made

ASSUME APIKeyBounds == /\ MaxIds \in Nat
                       /\ Home \in [Secrets -> Machines]
                       /\ NoKey \notin Secrets \cup Nat

VARIABLES
  keys,     \* self._keys: the key id in the metadata of each secret
  byId,     \* self._by_id
  ids,      \* key ids made so far
  expired   \* secrets whose token has expired

apiKeyVars == <<keys, byId, ids, expired>>

KeyIds == 1..MaxIds

APIKeyTypeOK ==
  /\ keys \in [Secrets -> KeyIds \cup {NoKey}]
  /\ byId \in [KeyIds -> Secrets \cup {NoKey}]
  /\ ids \in 0..MaxIds
  /\ expired \subseteq Secrets

APIKeyInit ==
  /\ keys = [x \in Secrets |-> NoKey]
  /\ byId = [i \in KeyIds |-> NoKey]
  /\ ids = 0
  /\ expired = {}

\* authenticate()
Known(x) == keys[x] # NoKey

\* _handle_pair(): the token is verified, then register() runs.  The metadata
\* of a secret paired before is replaced; its former id stays in _by_id.
Pair(x) ==
  /\ x \notin expired
  /\ ids < MaxIds
  /\ ids' = ids + 1
  /\ keys' = [keys EXCEPT ![x] = ids + 1]
  /\ byId' = [byId EXCEPT ![ids + 1] = x]
  /\ UNCHANGED expired

\* Fault: the metadata stays.
RevokeKeepsKey(i) ==
  /\ byId[i] # NoKey
  /\ byId' = [byId EXCEPT ![i] = NoKey]
  /\ UNCHANGED <<keys, ids, expired>>

\* revoke() of an id the registry knows.
RevokeKey(i) ==
  /\ byId[i] # NoKey
  /\ keys' = [keys EXCEPT ![byId[i]] = NoKey]
  /\ byId' = [byId EXCEPT ![i] = NoKey]
  /\ UNCHANGED <<ids, expired>>

\* _handle_revoke(): a client revokes the key it presents.
RevokeOwn(x) == Known(x) /\ RevokeKey(keys[x])

\* revoke_by_machine_id(): the metadata goes.  _by_id is looked up by the
\* secret's hash, which is never one of its keys: it stays as it was.
RevokeMachine(m) ==
  LET gone == {x \in Secrets : Known(x) /\ Home[x] = m} IN
  /\ gone # {}
  /\ keys' = [x \in Secrets |-> IF x \in gone THEN NoKey ELSE keys[x]]
  /\ UNCHANGED <<byId, ids, expired>>

TokenExpires(x) ==
  /\ x \notin expired
  /\ expired' = expired \cup {x}
  /\ UNCHANGED <<keys, byId, ids>>

APIKeyNext ==
  \/ \E x \in Secrets : Pair(x) \/ RevokeOwn(x) \/ TokenExpires(x)
  \/ \E i \in KeyIds : RevokeKey(i)
  \/ \E m \in Machines : RevokeMachine(m)

APIKeySpec == APIKeyInit /\ [][APIKeyNext]_apiKeyVars

(***************************************************************************)
(* Properties.                                                             *)
(***************************************************************************)

\* Whatever was paired again, revoked or left dangling before: the id that
\* list_keys() shows for a secret which still opens the server is one that
\* revoke() finds and that names this very secret (lines 352, 370, 386).
ShownIdRevokes == \A x \in Secrets : Known(x) => byId[keys[x]] = x
=============================================================================
