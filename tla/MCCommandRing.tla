---------------------------- MODULE MCCommandRing ----------------------------
(* A ring of four slots and six packets: the ring wraps, fills up (three       *)
(* packets), and a batch is still executed while the guest goes by an old read *)
(* pointer.                                                                    *)
EXTENDS CommandRing
==============================================================================
