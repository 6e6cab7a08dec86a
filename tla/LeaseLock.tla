------------------------------ MODULE LeaseLock ------------------------------
(***************************************************************************)
(* What config/leader.go promises its workers: a lock with one owner, and  *)
(* work that is done only while owning it.  The lock may be lost at any    *)
(* time (a lease runs out, a process dies, Redis answers too late), but    *)
(* never by somebody who goes on working.  LeaderElection implements it.   *)
(***************************************************************************)
CONSTANTS
  Holders,   \* who may own the lock
  Nobody     \* no holder owns it

VARIABLES
  owner,     \* of the lock
  acting     \* the holders at work

lock == <<owner, acting>>

Init == owner = Nobody /\ acting = {}

Acquire(r) == owner = Nobody /\ owner' = r /\ UNCHANGED acting

StartWork(r) == owner = r /\ acting' = acting \cup {r} /\ UNCHANGED owner

StopWork(r) == acting' = acting \ {r} /\ UNCHANGED owner

\* The owner loses the lock; if it was at work it has stopped.
Lose == owner' = Nobody /\ acting' = acting \ {owner}

Next ==
  \/ \E r \in Holders : Acquire(r) \/ StartWork(r) \/ StopWork(r)
  \/ Lose

Spec == Init /\ [][Next]_lock
=============================================================================
