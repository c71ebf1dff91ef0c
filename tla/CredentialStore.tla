--------------------------- MODULE CredentialStore ---------------------------
(***************************************************************************)
(* security/credentials.py: API keys on disk and in memory.                *)
(*                                                                         *)
(* A key has an entry in credentials.json, with its revoked flag, and a    *)
(* file <id>.enc with its secret.  The manager holds the entries in        *)
(* memory and caches secrets.  Every call changes memory first, then       *)
(* writes the secret's file, then writes credentials.json over itself; an  *)
(* error in either write is logged and forgotten.  The program may be      *)
(* killed between any two of these steps, or in the middle of a write.     *)
(*                                                                         *)
(* Secrets are numbered in the order they are made, keys likewise.  SSH    *)
(* keys and the decryption of a file under another passphrase are left     *)
(* out.                                                                    *)
(***************************************************************************)
EXTENDS Naturals

CONSTANTS
  MaxKeys,      \* bound: keys ever made
  MaxSecrets,   \* bound: secrets ever made
  MaxMishaps    \* bound: kills and failed writes

ASSUME StoreBounds == MaxKeys \in Nat /\ MaxSecrets \in Nat /\ MaxMishaps \in Nat

VARIABLES
  meta,      \* self._metadata: the entry of each key
  cache,     \* self._cache: the secret of each key, or None
  index,     \* credentials.json: what can be read of it, nothing if it is cut short
  sealed,    \* the files <id>.enc: a secret, None or Torn
  overdue,   \* keys whose expiry date has passed
  inCall,    \* the call that runs, or Idle
  up,        \* the program runs
  keysMade, secretsMade,
  shown,     \* the secret last given out for each key, or None
  retired,   \* secrets given out, then replaced or revoked on disk
  mishaps,   \* kills and failed writes so far
  damaged    \* one of them cut or lost a write

storeVars == <<meta, cache, index, sealed, overdue, inCall, up, keysMade,
               secretsMade, shown, retired, mishaps, damaged>>
disk == <<index, sealed>>
ledger == <<keysMade, secretsMade, shown, retired>>

Keys    == 1..MaxKeys
None    == 0
Torn    == MaxSecrets + 1
Ops     == {"create", "rotate", "revoke"}
Entry   == {"none", "good", "revoked"}
NoEntry == [k \in Keys |-> "none"]
NoSecret == [k \in Keys |-> None]

\* A call: what it does, to which key, what it writes next, the secret it
\* brings, and whether it has reached the disk.
Call == [op : Ops, key : Keys, next : {"secret", "index", "return"},
         secret : 0..MaxSecrets, onDisk : BOOLEAN]
Idle == [op |-> "none"]

StoreTypeOK ==
  /\ meta \in [Keys -> Entry]
  /\ cache \in [Keys -> 0..MaxSecrets]
  /\ index \in [Keys -> Entry]
  /\ sealed \in [Keys -> 0..Torn]
  /\ overdue \subseteq Keys
  /\ inCall \in Call \cup {Idle}
  /\ up \in BOOLEAN /\ damaged \in BOOLEAN
  /\ keysMade \in 0..MaxKeys /\ secretsMade \in 0..MaxSecrets
  /\ shown \in [Keys -> 0..MaxSecrets]
  /\ retired \subseteq 1..MaxSecrets
  /\ mishaps \in 0..MaxMishaps

StoreInit ==
  /\ meta = NoEntry /\ cache = NoSecret
  /\ index = NoEntry /\ sealed = NoSecret
  /\ overdue = {} /\ inCall = Idle /\ up = TRUE
  /\ keysMade = 0 /\ secretsMade = 0
  /\ shown = NoSecret /\ retired = {}
  /\ mishaps = 0 /\ damaged = FALSE

Ready == up /\ inCall = Idle

\* validate_api_key(x) answers with the entry of key k: a cached secret is
\* compared first, a file is read only for a key that has none cached.
Opens(x, k) ==
  /\ meta[k] = "good"
  /\ k \notin overdue
  /\ IF cache[k] # None THEN cache[k] = x ELSE sealed[k] = x

-----------------------------------------------------------------------------
(***************************************************************************)
(* The calls: memory first.                                                *)
(***************************************************************************)

\* create_api_key()
CreateKey ==
  /\ Ready /\ keysMade < MaxKeys /\ secretsMade < MaxSecrets
  /\ keysMade' = keysMade + 1 /\ secretsMade' = secretsMade + 1
  /\ meta' = [meta EXCEPT ![keysMade'] = "good"]
  /\ cache' = [cache EXCEPT ![keysMade'] = secretsMade']
  /\ inCall' = [op |-> "create", key |-> keysMade', next |-> "secret",
              secret |-> secretsMade', onDisk |-> FALSE]
  /\ UNCHANGED <<disk, overdue, up, shown, retired, mishaps, damaged>>

\* Fault: the cache keeps the former secret.
RotateOnDisk(k) ==
  /\ Ready /\ meta[k] # "none" /\ secretsMade < MaxSecrets
  /\ secretsMade' = secretsMade + 1
  /\ inCall' = [op |-> "rotate", key |-> k, next |-> "secret",
              secret |-> secretsMade', onDisk |-> FALSE]
  /\ UNCHANGED <<meta, cache, disk, overdue, up, keysMade, shown, retired, mishaps, damaged>>

\* rotate_api_key(): whatever the entry says, a revoked key keeps its flag.
RotateKey(k) ==
  /\ Ready /\ meta[k] # "none" /\ secretsMade < MaxSecrets
  /\ secretsMade' = secretsMade + 1
  /\ cache' = [cache EXCEPT ![k] = secretsMade']
  /\ inCall' = [op |-> "rotate", key |-> k, next |-> "secret",
              secret |-> secretsMade', onDisk |-> FALSE]
  /\ UNCHANGED <<meta, disk, overdue, up, keysMade, shown, retired, mishaps, damaged>>

\* Fault: the flag is left to the unlink().
RevokeForgetsFlag(k) ==
  /\ Ready /\ meta[k] # "none"
  /\ cache' = [cache EXCEPT ![k] = None]
  /\ inCall' = [op |-> "revoke", key |-> k, next |-> "secret",
              secret |-> None, onDisk |-> FALSE]
  /\ UNCHANGED <<meta, disk, overdue, up, ledger, mishaps, damaged>>

\* revoke_api_key()
RevokeCredential(k) ==
  /\ Ready /\ meta[k] # "none"
  /\ meta' = [meta EXCEPT ![k] = "revoked"]
  /\ cache' = [cache EXCEPT ![k] = None]
  /\ inCall' = [op |-> "revoke", key |-> k, next |-> "secret",
              secret |-> None, onDisk |-> FALSE]
  /\ UNCHANGED <<disk, overdue, up, ledger, mishaps, damaged>>

\* validate_api_key(x): the files of the keys before the one that matches,
\* and its own, are read into the cache.
Validate(x) ==
  LET fromCache == \E k \in Keys : cache[k] = x
      unread    == {k \in Keys : meta[k] # "none" /\ cache[k] = None
                                 /\ sealed[k] \notin {None, Torn}}
      read      == {k \in unread : \A j \in unread : sealed[j] = x => k <= j}
  IN
  /\ Ready /\ ~fromCache /\ read # {}
  /\ cache' = [k \in Keys |-> IF k \in read THEN sealed[k] ELSE cache[k]]
  /\ UNCHANGED <<meta, disk, overdue, inCall, up, ledger, mishaps, damaged>>

KeyExpires(k) ==
  /\ k <= keysMade /\ k \notin overdue
  /\ overdue' = overdue \cup {k}
  /\ UNCHANGED <<meta, cache, disk, inCall, up, ledger, mishaps, damaged>>

-----------------------------------------------------------------------------
(***************************************************************************)
(* The writes, each of which may fail; nobody hears of it.                 *)
(***************************************************************************)
Mishap == mishaps < MaxMishaps /\ mishaps' = mishaps + 1 /\ damaged' = TRUE

\* _save_secret(), or the unlink() of a revocation.
WriteSecret ==
  /\ up /\ inCall # Idle /\ inCall.next = "secret"
  /\ sealed' = [sealed EXCEPT ![inCall.key] = inCall.secret]
  /\ inCall' = [inCall EXCEPT !.next = "index", !.onDisk = TRUE]
  /\ UNCHANGED <<meta, cache, index, overdue, up, ledger, mishaps, damaged>>

\* The file stays as it was, or is left cut short; unlink() does not cut.
WriteSecretFails ==
  /\ up /\ inCall # Idle /\ inCall.next = "secret"
  /\ Mishap
  /\ \/ UNCHANGED sealed
     \/ /\ inCall.op # "revoke"
        /\ sealed' = [sealed EXCEPT ![inCall.key] = Torn]
  /\ inCall' = [inCall EXCEPT !.next = "index"]
  /\ UNCHANGED <<meta, cache, index, overdue, up, ledger>>

\* _save_all()
WriteIndex ==
  /\ up /\ inCall # Idle /\ inCall.next = "index"
  /\ index' = meta
  /\ inCall' = [inCall EXCEPT !.next = "return", !.onDisk = @ \/ inCall.op = "revoke"]
  /\ UNCHANGED <<meta, cache, sealed, overdue, up, ledger, mishaps, damaged>>

WriteIndexFails ==
  /\ up /\ inCall # Idle /\ inCall.next = "index"
  /\ Mishap
  /\ index' \in {index, NoEntry}
  /\ inCall' = [inCall EXCEPT !.next = "return"]
  /\ UNCHANGED <<meta, cache, sealed, overdue, up, ledger>>

\* The caller gets the secret, or True.  What was given out for the key
\* before is retired, when the disk knows of it.
CallReturns ==
  /\ up /\ inCall # Idle /\ inCall.next = "return"
  /\ retired' = IF inCall.onDisk THEN (retired \cup {shown[inCall.key]}) \ {None}
                ELSE retired
  /\ shown' = [shown EXCEPT ![inCall.key] = inCall.secret]
  /\ inCall' = Idle
  /\ UNCHANGED <<meta, cache, disk, overdue, up, keysMade, secretsMade, mishaps, damaged>>

\* The program is killed.  A write it was in the middle of is cut short.
Killed ==
  /\ up /\ mishaps < MaxMishaps
  /\ up' = FALSE /\ mishaps' = mishaps + 1 /\ inCall' = Idle
  /\ damaged' = (damaged \/ inCall # Idle)
  /\ \/ UNCHANGED disk
     \/ /\ inCall # Idle /\ inCall.next = "secret" /\ inCall.op # "revoke"
        /\ sealed' = [sealed EXCEPT ![inCall.key] = Torn]
        /\ UNCHANGED index
     \/ /\ inCall # Idle /\ inCall.next = "index"
        /\ index' = NoEntry
        /\ UNCHANGED sealed
  /\ meta' = NoEntry /\ cache' = NoSecret
  /\ UNCHANGED <<overdue, ledger>>

\* CredentialManager(), _load_all()
Reopen ==
  /\ ~up /\ up' = TRUE
  /\ meta' = index
  /\ UNCHANGED <<cache, disk, overdue, inCall, ledger, mishaps, damaged>>

StoreNext ==
  \/ CreateKey
  \/ \E k \in Keys : RotateKey(k) \/ RevokeCredential(k) \/ KeyExpires(k)
  \/ \E x \in 1..MaxSecrets : Validate(x)
  \/ WriteSecret \/ WriteSecretFails \/ WriteIndex \/ WriteIndexFails
  \/ CallReturns \/ Killed \/ Reopen

StoreSpec == StoreInit /\ [][StoreNext]_storeVars

(***************************************************************************)
(* Properties.                                                             *)
(***************************************************************************)

\* A secret that was replaced or revoked never opens the server again, across
\* kills, restarts and lost writes, unless the disk never learned of it: for
\* a rotation the write of the new secret, for a revocation both of its
\* writes have to fail (credentials.py:295-303, 313-315).
RetiredRefused == Ready => \A k \in Keys, x \in retired : ~Opens(x, k)

\* As long as no write was lost or cut, the secret last given out for a key
\* opens the server until it is revoked or expires, whatever restarts and
\* other keys' calls come in between: the cache, the file of the secret and
\* the index agree (lines 230, 270, 314).
ShownOpens ==
  Ready /\ ~damaged =>
    \A k \in Keys : shown[k] # None /\ meta[k] # "revoked" /\ k \notin overdue
                    => Opens(shown[k], k)
=============================================================================
