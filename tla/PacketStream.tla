----------------------------- MODULE PacketStream -----------------------------
(* What the ring promises the guest: a queue without slots, pointers or laps.  *)
(* Packets are numbered as they are written; the guest publishes more of them, *)
(* and each is executed when its turn comes.                                   *)
EXTENDS Naturals, Sequences

CONSTANT Total

VARIABLES
    published,      \* packets the guest has handed over
    executed        \* those executed, in order

Init == published = 0 /\ executed = <<>>

Publish ==
    /\ published' \in published + 1 .. Total
    /\ UNCHANGED executed

Execute ==
    /\ Len(executed) < published
    /\ executed' = Append(executed, Len(executed) + 1)
    /\ UNCHANGED published

Next == Publish \/ Execute

Spec == Init /\ [][Next]_<<published, executed>>
==============================================================================
