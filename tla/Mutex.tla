-------------------------------- MODULE Mutex --------------------------------
(***************************************************************************)
(* What locks.h promises its callers, whatever the lock word does: one     *)
(* thread at a time owns the lock.  FutexLock is shown to implement it.    *)
(***************************************************************************)
CONSTANTS Threads,   \* the threads that may take the lock
          NoThread   \* "the lock is free": none of Threads

VARIABLE owner       \* the thread that owns the lock, or NoThread

Init == owner = NoThread

Acquire(t) == owner = NoThread /\ owner' = t

Release(t) == owner = t /\ owner' = NoThread

Next == \E t \in Threads : Acquire(t) \/ Release(t)

Spec == Init /\ [][Next]_owner
==============================================================================
