----------------------------- MODULE DurableMap -----------------------------
(***************************************************************************)
(* What a crash-safe map of virtual-machine states promises its callers:   *)
(* a save that has returned is never forgotten, and what a restarted       *)
(* process sees for a name is the last save that returned or one that was  *)
(* begun after it.  The outcome of a save that had not returned is open.   *)
(* gui/resilience.py (AtomicState) claims to implement it.                 *)
(***************************************************************************)
EXTENDS Naturals

CONSTANTS
  Names,     \* names of virtual machines
  MaxVer     \* bound: saves begun for one name

VARIABLES
  newest,    \* newest[n]: the last save begun for n (0: none)
  acked,     \* acked[n]: the last save of n that returned
  up,        \* is there a running process
  view       \* view[n]: what the running process answers for n

dvars == <<newest, acked, up, view>>

Version == 0..MaxVer

Init ==
  /\ newest = [n \in Names |-> 0]
  /\ acked  = [n \in Names |-> 0]
  /\ view   = [n \in Names |-> 0]
  /\ up = TRUE

Begin(n) ==
  /\ up
  /\ newest[n] < MaxVer
  /\ newest' = [newest EXCEPT ![n] = @ + 1]
  /\ UNCHANGED <<acked, up, view>>

\* The process starts to answer with the save in progress.
Show(n) ==
  /\ up
  /\ view' = [view EXCEPT ![n] = newest[n]]
  /\ UNCHANGED <<newest, acked, up>>

\* A save returns to its caller: from now on it is durable.
Return(n) ==
  /\ up
  /\ view[n] = newest[n]
  /\ acked' = [acked EXCEPT ![n] = newest[n]]
  /\ UNCHANGED <<newest, up, view>>

Crash ==
  /\ up
  /\ up' = FALSE
  /\ view' = [n \in Names |-> 0]
  /\ UNCHANGED <<newest, acked>>

\* A new process may see a save that had not returned, never less than the
\* last one that had.
Restart ==
  /\ ~up
  /\ up' = TRUE
  /\ view' \in [Names -> Version]
  /\ \A n \in Names : acked[n] <= view'[n] /\ view'[n] <= newest[n]
  /\ UNCHANGED <<newest, acked>>

Next ==
  \/ \E n \in Names : Begin(n) \/ Show(n) \/ Return(n)
  \/ Crash
  \/ Restart

Spec == Init /\ [][Next]_dvars
=============================================================================
