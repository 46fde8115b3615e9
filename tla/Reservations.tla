----------------------------- MODULE Reservations -----------------------------
(* What the guest may rely on: the blocks it holds lie in the region and share *)
(* no page.  A block comes whole and goes whole, one at a time, and nothing    *)
(* but a call that reserves or frees it ever changes one.                      *)
EXTENDS Integers

CONSTANT NPages

VARIABLE held       \* the guest's blocks, [first, count]

Run(b) == b.first .. b.first + b.count - 1

Init == held = {}

Reserve ==
    \E first \in 0 .. NPages - 1, count \in 1 .. NPages :
        LET b == [first |-> first, count |-> count]
        IN  /\ Run(b) \subseteq 0 .. NPages - 1
            /\ \A c \in held : Run(b) \cap Run(c) = {}
            /\ held' = held \cup {b}

Free == \E b \in held : held' = held \ {b}

Next == Reserve \/ Free

Spec == Init /\ [][Next]_held
==============================================================================
