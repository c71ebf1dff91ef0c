--------------------------- MODULE MCAtomicState ---------------------------
(* TLC instances of AtomicState: symmetric names and threads. *)
EXTENDS AtomicState, TLC

Symmetry == Permutations(Names) \cup Permutations(Savers)

\* Without recover() and without I/O errors the other steps are never enabled.
CrashNext ==
  \/ \E t \in Savers, n \in Names : Save(t, n)
  \/ \E t \in Savers : \/ AppendWal(t)
                       \/ UpdateMemory(t)
                       \/ WriteTmp(t)
                       \/ Rename(t)
                       \/ ClearWal(t)
                       \/ SaveReturns(t)
  \/ Crash
  \/ Restart

CrashSpec == Init /\ [][CrashNext]_vars
=============================================================================
