----------------------------- MODULE RateLimit -----------------------------
(***************************************************************************)
(* api/middleware/rate_limit.py: one token bucket per caller.              *)
(*                                                                         *)
(* A bucket is filled lazily: each consume() first adds what the time      *)
(* since the last one was worth, up to the burst.  A request is served     *)
(* while the handler runs, so requests of one caller overlap, and the      *)
(* header that tells how many are left fills the bucket once more when a   *)
(* request ends.  Tokens are counted in the unit one tick adds Rate of;    *)
(* a request costs Cost of them.                                           *)
(***************************************************************************)
EXTENDS Integers

CONSTANTS
  People,     \* callers: key ids and addresses
  Rate,       \* tokens one tick adds
  Burst,      \* what a bucket holds at most
  Cost,       \* what a request costs
  MaxTicks,   \* bound: the clock
  MaxServed   \* bound: requests of one caller being served

ASSUME RateBounds == /\ Rate \in Nat
                     /\ Burst \in Nat
                     /\ Cost \in Nat \ {0}
                     /\ MaxTicks \in Nat
                     /\ MaxServed \in Nat

VARIABLES
  now,       \* time.monotonic()
  known,     \* callers that have a bucket
  tokens,    \* bucket.tokens
  refilled,  \* bucket.last_refill
  serving,   \* requests whose handler runs
  since,     \* the moment from which requests are counted
  admitted   \* what was admitted since then

rateVars == <<now, known, tokens, refilled, serving, since, admitted>>

RateTypeOK ==
  /\ now \in 0..MaxTicks
  /\ known \subseteq People
  /\ tokens \in [People -> 0..Burst]
  /\ refilled \in [People -> 0..MaxTicks]
  /\ serving \in [People -> 0..MaxServed]
  /\ since \in 0..MaxTicks
  /\ admitted \in [People -> Nat]

RateInit ==
  /\ now = 0
  /\ known = {}
  /\ tokens = [c \in People |-> 0]
  /\ refilled = [c \in People |-> 0]
  /\ serving = [c \in People |-> 0]
  /\ since = 0
  /\ admitted = [c \in People |-> 0]

Least(a, b) == IF a < b THEN a ELSE b

\* Fault: idle time fills the bucket beyond its size.
FilledUncapped(c) == IF c \in known
                     THEN tokens[c] + (now - refilled[c]) * Rate
                     ELSE Burst

\* What the bucket of c holds once it is filled; a bucket is made full.
Filled(c) == IF c \in known
             THEN Least(Burst, tokens[c] + (now - refilled[c]) * Rate)
             ELSE Burst

\* consume(): what is left is left, and last_refill is now.
Consume(c, cost) ==
  /\ tokens' = [tokens EXCEPT ![c] = Filled(c) - cost]
  /\ refilled' = [refilled EXCEPT ![c] = now]
  /\ known' = known \cup {c}
  /\ admitted' = [admitted EXCEPT ![c] = @ + cost]

Admit(c) ==
  /\ Filled(c) >= Cost
  /\ serving[c] < MaxServed
  /\ Consume(c, Cost)
  /\ serving' = [serving EXCEPT ![c] = @ + 1]
  /\ UNCHANGED <<now, since>>

Refuse(c) ==
  /\ Filled(c) < Cost
  /\ Consume(c, 0)
  /\ UNCHANGED <<now, serving, since>>

\* The handler has returned or raised; bucket.remaining fills the bucket.
Respond(c) ==
  /\ serving[c] > 0
  /\ serving' = [serving EXCEPT ![c] = @ - 1]
  /\ Consume(c, 0)
  /\ UNCHANGED <<now, since>>

Tick ==
  /\ now < MaxTicks
  /\ now' = now + 1
  /\ UNCHANGED <<known, tokens, refilled, serving, since, admitted>>

\* Counting starts anew at some moment.
CountFrom ==
  /\ since < now
  /\ since' = now
  /\ admitted' = [c \in People |-> 0]
  /\ UNCHANGED <<now, known, tokens, refilled, serving>>

RateNext ==
  \/ \E c \in People : Admit(c) \/ Refuse(c) \/ Respond(c)
  \/ Tick \/ CountFrom

RateSpec == RateInit /\ [][RateNext]_rateVars

(***************************************************************************)
(* Properties.                                                             *)
(***************************************************************************)

\* From whatever moment one counts, idle time before it, refused requests and
\* overlapping ones included, a caller is admitted no more than a full bucket
\* and what the time since then adds (lines 41, 53).
WindowBounded == \A c \in People : admitted[c] <= Burst + (now - since) * Rate
=============================================================================
