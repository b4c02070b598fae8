------------------------------- MODULE RWLock -------------------------------
(***************************************************************************)
(* The counter of a reader/writer lock: -1 while a writer holds it, else   *)
(* the number of readers.  Every operation is a compare-and-swap loop that *)
(* takes effect in its successful iteration, so it is one step; a try      *)
(* operation whose guard is false fails, a waiting one is tried again.     *)
(***************************************************************************)
EXTENDS Integers

Free == 0
WriteLocked == -1

\* r_lock, r_trylock
CanReadLock(c) == c # WriteLocked
ReadLock(c) == c + 1
ReadUnlock(c) == c - 1

\* w_lock, w_trylock
CanWriteLock(c) == c = Free
WriteLock(c) == WriteLocked
WriteUnlock(c) == c + 1

\* upgrade, tryupgrade: the caller, who holds a read lock, is the only reader.
CanUpgrade(c) == c = 1
Upgrade(c) == WriteLocked
=============================================================================
