---------------------------- MODULE RecursiveLock ----------------------------
(* What a guest critical section promises: a lock that one thread at a time   *)
(* may take any number of times, and that is free again once that thread has  *)
(* given it back as often.  An Enter takes effect at one instant and so does  *)
(* a Leave; nothing else ever changes the lock.                               *)
EXTENDS Naturals

CONSTANT Threads

VARIABLE depth      \* depth[t]: how often thread t holds the lock

Init == depth = [t \in Threads |-> 0]

Acquire(t) ==
    /\ \A u \in Threads \ {t} : depth[u] = 0
    /\ depth' = [depth EXCEPT ![t] = @ + 1]

Release(t) ==
    /\ depth[t] > 0
    /\ depth' = [depth EXCEPT ![t] = @ - 1]

Next == \E t \in Threads : Acquire(t) \/ Release(t)

Spec == Init /\ [][Next]_depth
==============================================================================
